----------------------------- MODULE QueueProofs -----------------------------
(***************************************************************************)
(* The queue of runs.  A run is launched at most once: LaunchInv of        *)
(* Executions is inductive.  Steps fall into a few kinds by what they do   *)
(* to the rows and to startRun's state; one lemma per kind says that it    *)
(* keeps LaunchInv.  Without Stop requests the service then implements the *)
(* abstract queue: QueueInv is inductive under LaunchInv, and every step   *)
(* moves one run in the queue or none.                                     *)
(***************************************************************************)
EXTENDS ExecutionsProofs, FiniteSetTheorems

USE DEF sent

(* A step of a claim that is past its check: the row is left alone or      *)
(* overwritten with a status other than queued.                            *)
LEMMA PastCheckStep ==
  ASSUME TypeInv, TypeOK', LaunchInv, NEW r \in Runs, NEW k \in Claims,
         PastCheck(r, k), NEW x,
         starter' = [starter EXCEPT ![<<r, k>>] = x],
         x.pc \notin {"off", "reread", "prepare"},
         x.pc = "launch" => starter[<<r, k>>].pc = "prepare",
         x.pc = "onStatus" => x.run.status # "queued",
         \A s \in Runs \ {r} : row'[s] = row[s] /\ watchdog'[s] = watchdog[s],
         row'[r].status # "queued",
         UNCHANGED <<launches, attempt, creator, pass, request, activeRuns>>
  PROVE  LaunchInv'
<1>1. creator[r] # "off"
  BY DEF LaunchInv, UntouchedBeforeCreate, PastCheck
<1>2. starter'[<<r, k>>] = x
      /\ \A s \in Runs \X Claims : s # <<r, k>> => starter'[s] = starter[s]
  BY DEF TypeInv, TypeOK
<1>3. \A j \in Claims \ {k} : starter[<<r, j>>].pc \in {"off", "reread"}
  BY DEF LaunchInv, OneStarter, PastCheck
<1>4. \A s \in Runs \ {r}, j \in Claims : starter'[<<s, j>>] = starter[<<s, j>>]
  BY <1>2
<1>5. \A j \in Claims \ {k} : starter'[<<r, j>>] = starter[<<r, j>>]
  BY <1>2
<1>6. UntouchedBeforeCreate'
  BY <1>1, <1>4 DEF LaunchInv, UntouchedBeforeCreate
<1>7. QueuedIsFresh'
  BY <1>4 DEF LaunchInv, QueuedIsFresh
<1>8. OneStarter'
  BY <1>3, <1>4, <1>5 DEF LaunchInv, OneStarter, PastCheck
<1>9. NotYetLaunched'
  <2>1. x.pc = "launch" => launches[r] = 0
    BY DEF LaunchInv, NotYetLaunched
  <2>2. ASSUME NEW s \in Runs, NEW j \in Claims
        PROVE  /\ starter'[<<s, j>>].pc = "prepare" => launches[s] = 0
               /\ starter'[<<s, j>>].pc = "launch" /\ attempt[<<s, j>>] = 1 =>
                    launches[s] = 0
               /\ starter'[<<s, j>>].pc = "prepare" =>
                    starter'[<<s, j>>].run.status = "queued"
    <3>1. CASE s = r /\ j = k
      BY <1>2, <2>1, <3>1
    <3>2. CASE s # r \/ j # k
      <4>1. starter'[<<s, j>>] = starter[<<s, j>>]
        BY <1>4, <1>5, <3>2
      <4>2. QED
        BY <4>1 DEF LaunchInv, NotYetLaunched
    <3>3. QED
      BY <3>1, <3>2
  <2>3. QED
    BY <2>2 DEF NotYetLaunched
<1>10. NeverQueuedAgain'
  <2>1. ASSUME NEW s \in Runs, row'[s].status = "queued" PROVE row[s].status = "queued"
    <3>1. s # r
      BY <2>1
    <3>2. QED
      BY <2>1, <3>1
  <2>2. \A q \in Requests :
          request[q].pc \in {"engine", "conclude", "release"} => request[q].id \in Runs
    BY DEF TypeInv, RequestsNameRuns
  <2>3. \A s \in Runs, j \in Claims :
          starter'[<<s, j>>].pc = "onStatus" => starter'[<<s, j>>].run.status # "queued"
    BY <1>2, <1>4, <1>5 DEF LaunchInv, NeverQueuedAgain
  <2>4. \A q \in Requests :
          request'[q].pc \in {"engine", "conclude", "release"} =>
            row'[request'[q].id].status # "queued"
    BY <2>1, <2>2 DEF LaunchInv, NeverQueuedAgain
  <2>5. QED
    BY <2>3, <2>4 DEF NeverQueuedAgain
<1>11. LaunchedOnce'
  BY DEF LaunchInv, LaunchedOnce
<1>12. QED
  BY <1>6, <1>7, <1>8, <1>9, <1>10, <1>11 DEF LaunchInv

(* A step that leaves startRun's state and the launches alone: a row is    *)
(* kept, or that of a created run is overwritten with a status other than  *)
(* queued; slots are given back only by runs that left the queue.          *)
LEMMA OutsideStep ==
  ASSUME TypeInv, TypeOK', LaunchInv,
         UNCHANGED <<starter, launches, attempt>>,
         \A r \in Runs :
           /\ creator'[r] = "off" =>
                /\ creator[r] = "off" /\ row'[r] = row[r]
                /\ watchdog[r].pc = "off" => watchdog'[r].pc = "off"
                /\ pass'.next # r
                /\ \A q \in Requests : request'[q].id # r
           /\ row'[r].status = "queued" => row[r].status = "queued"
           /\ r \in activeRuns /\ r \notin activeRuns' => row'[r].status # "queued",
         \A q \in Requests :
           request'[q].pc \in {"engine", "conclude", "release"} =>
             row'[request'[q].id].status # "queued"
  PROVE  LaunchInv'
<1>1. UntouchedBeforeCreate'
  BY DEF LaunchInv, UntouchedBeforeCreate
<1>2. QueuedIsFresh'
  BY DEF LaunchInv, QueuedIsFresh
<1>3. OneStarter' /\ NotYetLaunched' /\ LaunchedOnce'
  BY DEF LaunchInv, OneStarter, NotYetLaunched, LaunchedOnce, PastCheck
<1>4. NeverQueuedAgain'
  BY DEF LaunchInv, NeverQueuedAgain
<1>5. QED
  BY <1>1, <1>2, <1>3, <1>4 DEF LaunchInv

-----------------------------------------------------------------------------
LEMMA CreateLaunches ==
  ASSUME TypeInv, TypeOK', LaunchInv, NEW r \in Runs, Create(r)
  PROVE  LaunchInv'
<1>1. creator[r] = "off" /\ creator' = [creator EXCEPT ![r] = "saved"]
      /\ row' = [row EXCEPT ![r] = [status |-> "queued", metrics |-> NoMetrics]]
      /\ UNCHANGED <<starter, launches, attempt, pass, watchdog, request, activeRuns>>
  BY DEF Create, Save, memory
<1>2. launches[r] = 0 /\ (\A k \in Claims : starter[<<r, k>>].pc = "off")
      /\ \A q \in Requests : request[q].id # r
  BY <1>1 DEF LaunchInv, UntouchedBeforeCreate
<1>3. \A s \in Runs \ {r} : row'[s] = row[s] /\ creator'[s] = creator[s]
  BY <1>1 DEF TypeInv, TypeOK
<1>4. creator'[r] # "off" /\ row'[r].status = "queued"
  BY <1>1 DEF TypeInv, TypeOK
<1>5. UntouchedBeforeCreate'
  BY <1>1, <1>3, <1>4 DEF LaunchInv, UntouchedBeforeCreate
<1>6. QueuedIsFresh'
  BY <1>1, <1>2, <1>3 DEF LaunchInv, QueuedIsFresh
<1>7. OneStarter' /\ NotYetLaunched' /\ LaunchedOnce'
  BY <1>1 DEF LaunchInv, OneStarter, NotYetLaunched, LaunchedOnce, PastCheck
<1>8. NeverQueuedAgain'
  <2>1. \A q \in Requests : request[q].pc # "off" => request[q].id \in Runs \ {r}
    BY <1>2 DEF TypeInv, RequestsNameRuns
  <2>2. QED
    BY <1>1, <1>3, <2>1 DEF LaunchInv, NeverQueuedAgain
<1>9. QED
  BY <1>5, <1>6, <1>7, <1>8 DEF LaunchInv

LEMMA ClaimLaunches ==
  ASSUME TypeInv, TypeOK', LaunchInv, NEW k \in Claims, Claim(k)
  PROVE  LaunchInv'
<1> DEFINE r == pass.next
<1>1. /\ r \in Runs \ activeRuns /\ starter'[<<r, k>>].pc = "reread"
      /\ activeRuns' = activeRuns \cup {r} /\ pass'.next = NoRun
      /\ starter[<<r, k>>].pc = "off"
      /\ UNCHANGED <<row, creator, watchdog, request, launches, attempt>>
  BY ClaimEffect DEF Claim, TypeInv
<1>2. \A s \in Runs \X Claims : s # <<r, k>> => starter'[s] = starter[s]
  BY ClaimEffect DEF TypeInv
<1>3. creator[r] # "off"
  BY <1>1 DEF LaunchInv, UntouchedBeforeCreate
<1>4. r # NoRun
  BY <1>1, RunsAssumption DEF NoRun
<1> HIDE DEF r
<1>5. \A s \in Runs \ {r}, j \in Claims : starter'[<<s, j>>] = starter[<<s, j>>]
  BY <1>2
<1>6. \A j \in Claims \ {k} : starter'[<<r, j>>] = starter[<<r, j>>]
  BY <1>1, <1>2
<1>7. UntouchedBeforeCreate'
  <2>1. \A s \in Runs : pass'.next # s
    BY <1>1, RunsAssumption DEF NoRun
  <2>2. QED
    BY <1>1, <1>3, <1>5, <2>1 DEF LaunchInv, UntouchedBeforeCreate
<1>8. QueuedIsFresh'
  <2>1. ASSUME row[r].status = "queued"
        PROVE  launches[r] = 0 /\ \A j \in Claims : starter[<<r, j>>].pc = "off"
    BY <1>1, <2>1 DEF LaunchInv, QueuedIsFresh
  <2>2. QED
    BY <1>1, <1>5, <1>6, <2>1 DEF LaunchInv, QueuedIsFresh
<1>9. OneStarter' /\ NotYetLaunched'
  BY <1>1, <1>5, <1>6 DEF LaunchInv, OneStarter, NotYetLaunched, PastCheck
<1>10. NeverQueuedAgain' /\ LaunchedOnce'
  BY <1>1, <1>5, <1>6 DEF LaunchInv, NeverQueuedAgain, LaunchedOnce
<1>11. QED
  BY <1>7, <1>8, <1>9, <1>10 DEF LaunchInv

LEMMA RereadLaunches ==
  ASSUME TypeInv, TypeOK', LaunchInv, NEW r \in Runs, NEW k \in Claims, Reread(r, k)
  PROVE  LaunchInv'
<1>1. starter[<<r, k>>].pc = "reread" /\ UNCHANGED <<row, creator, pass, watchdog, request,
                                                    launches, attempt>>
  BY DEF Reread, At
<1>2. creator[r] # "off"
  BY <1>1 DEF LaunchInv, UntouchedBeforeCreate
<1>3. PICK x : /\ starter' = [starter EXCEPT ![<<r, k>>] = x]
               /\ \/ /\ row[r].status = "queued" /\ x = [pc |-> "prepare", run |-> row[r]]
                     /\ activeRuns' = activeRuns
                  \/ /\ row[r].status # "queued" /\ x = IdleStarter
                     /\ activeRuns' = activeRuns \ {r}
  BY DEF Reread, Move
<1>4. /\ x.pc \in {"prepare", "off"}
      /\ x.pc = "prepare" => row[r].status = "queued" /\ x.run = row[r]
  BY <1>3 DEF IdleStarter
<1>5. starter'[<<r, k>>] = x
      /\ \A s \in Runs \X Claims : s # <<r, k>> => starter'[s] = starter[s]
  BY <1>3 DEF TypeInv, TypeOK
<1>6. (\A s \in Runs \ {r}, j \in Claims : starter'[<<s, j>>] = starter[<<s, j>>])
      /\ \A j \in Claims \ {k} : starter'[<<r, j>>] = starter[<<r, j>>]
  BY <1>5
<1>7. x.pc = "prepare" => launches[r] = 0
                          /\ \A j \in Claims \ {k} : starter[<<r, j>>].pc = "off"
  BY <1>1, <1>4 DEF LaunchInv, QueuedIsFresh
<1>8. UntouchedBeforeCreate'
  BY <1>1, <1>2, <1>6 DEF LaunchInv, UntouchedBeforeCreate
<1>9. QueuedIsFresh'
  <2>1. ASSUME row[r].status = "queued"
        PROVE  /\ launches[r] = 0 /\ r \in activeRuns' /\ x.pc = "prepare"
               /\ \A j \in Claims \ {k} : starter'[<<r, j>>].pc = "off"
    BY <1>1, <1>3, <1>4, <1>6, <1>7, <2>1 DEF LaunchInv, QueuedIsFresh
  <2>2. \A s \in Runs \ {r} : s \in activeRuns <=> s \in activeRuns'
    BY <1>3
  <2>3. ASSUME NEW s \in Runs, row'[s].status = "queued", NEW j \in Claims,
               starter'[<<s, j>>].pc # "off"
        PROVE  /\ launches'[s] = 0
               /\ starter'[<<s, j>>].pc \in {"reread", "prepare"}
               /\ s \in activeRuns'
               /\ \A i \in Claims \ {j} : starter'[<<s, i>>].pc = "off"
    <3>1. CASE s = r
      <4>1. j = k
        BY <1>1, <2>1, <2>3, <3>1
      <4>2. QED
        BY <1>1, <1>5, <2>1, <2>3, <3>1, <4>1
    <3>2. CASE s # r
      BY <1>1, <1>6, <2>2, <2>3, <3>2 DEF LaunchInv, QueuedIsFresh
    <3>3. QED
      BY <3>1, <3>2
  <2>4. \A s \in Runs : row'[s].status = "queued" => launches'[s] = 0
    BY <1>1 DEF LaunchInv, QueuedIsFresh
  <2>5. QED
    BY <2>3, <2>4 DEF QueuedIsFresh
<1>10. OneStarter'
  <2>1. ASSUME NEW s \in Runs, NEW i \in Claims, NEW j \in Claims,
               PastCheck(s, i)', PastCheck(s, j)'
        PROVE  i = j
    <3>1. CASE s = r /\ x.pc = "prepare"
      BY <1>6, <1>7, <2>1, <3>1 DEF PastCheck
    <3>2. CASE s = r /\ x.pc = "off"
      <4>1. i # k /\ j # k
        BY <1>5, <2>1, <3>2 DEF PastCheck
      <4>2. QED
        BY <1>6, <2>1, <3>2, <4>1 DEF PastCheck, LaunchInv, OneStarter
    <3>3. CASE s # r
      BY <1>6, <2>1, <3>3 DEF PastCheck, LaunchInv, OneStarter
    <3>4. QED
      BY <1>4, <3>1, <3>2, <3>3
  <2>2. QED
    BY <2>1 DEF OneStarter
<1>11. ASSUME NEW s \in Runs, NEW j \in Claims
       PROVE  /\ starter'[<<s, j>>].pc = "prepare" => launches'[s] = 0
              /\ starter'[<<s, j>>].pc = "launch" /\ attempt'[<<s, j>>] = 1 =>
                   launches'[s] = 0
              /\ starter'[<<s, j>>].pc = "prepare" =>
                   starter'[<<s, j>>].run.status = "queued"
              /\ starter'[<<s, j>>].pc = "onStatus" =>
                   starter'[<<s, j>>].run.status # "queued"
  <2>1. CASE s = r /\ j = k
    BY <1>1, <1>4, <1>5, <1>7, <2>1
  <2>2. CASE s # r \/ j # k
    <3>1. starter'[<<s, j>>] = starter[<<s, j>>]
      BY <1>6, <2>2
    <3>2. QED
      BY <1>1, <3>1 DEF LaunchInv, NotYetLaunched, NeverQueuedAgain
  <2>3. QED
    BY <2>1, <2>2
<1>12. NotYetLaunched' /\ NeverQueuedAgain'
  BY <1>1, <1>11 DEF LaunchInv, NotYetLaunched, NeverQueuedAgain
<1>13. LaunchedOnce'
  BY <1>1 DEF LaunchInv, LaunchedOnce
<1>14. QED
  BY <1>8, <1>9, <1>10, <1>12, <1>13 DEF LaunchInv

(* A claim past its check: its moves, its saves, and the row it reads. *)
LEMMA PastCheckMoves ==
  ASSUME TypeInv, TypeOK', LaunchInv, NEW r \in Runs, NEW k \in Claims,
         PastCheck(r, k), starter[<<r, k>>].pc # "prepare",
         NEW pc, NEW run, Move(r, k, pc, run),
         pc \notin {"off", "reread", "prepare", "launch"},
         pc = "onStatus" => run.status # "queued",
         row' = row \/ (\E saved : Save(r, saved) /\ saved.status # "queued"),
         \A s \in Runs \ {r} : watchdog'[s] = watchdog[s],
         UNCHANGED <<launches, attempt, creator, pass, request, activeRuns>>
  PROVE  LaunchInv'
<1>1. row[r].status # "queued"
  BY DEF LaunchInv, QueuedIsFresh, PastCheck
<1>2. row'[r].status # "queued" /\ \A s \in Runs \ {r} : row'[s] = row[s]
  <2>1. CASE row' = row
    BY <1>1, <2>1
  <2>2. ASSUME NEW saved, Save(r, saved), saved.status # "queued"
        PROVE  row'[r].status # "queued" /\ \A s \in Runs \ {r} : row'[s] = row[s]
    BY <2>2 DEF Save, TypeInv, TypeOK
  <2>3. QED
    BY <2>1, <2>2
<1> DEFINE x == [pc |-> pc, run |-> run]
<1>3. /\ starter' = [starter EXCEPT ![<<r, k>>] = x]
      /\ x.pc \notin {"off", "reread", "prepare", "launch"}
      /\ x.pc = "onStatus" => x.run.status # "queued"
  BY DEF Move
<1> HIDE DEF x
<1>4. QED
  BY <1>2, <1>3, PastCheckStep

LEMMA PrepareLaunches ==
  ASSUME TypeInv, TypeOK', LaunchInv, NEW r \in Runs, NEW k \in Claims, Prepare(r, k)
  PROVE  LaunchInv'
<1>1. starter[<<r, k>>].pc = "prepare" /\ Held(r, k).status = "queued"
  BY DEF Prepare, At, LaunchInv, NotYetLaunched, Held
<1>2. CanTransition(ExecutionTransitions, Held(r, k).status, "preparing")
  BY <1>1 DEF CanTransition, ExecutionTransitions
<1> DEFINE to == WithStatus(Held(r, k), "preparing")
           x == [pc |-> "launch", run |-> to]
<1>3. Save(r, to) /\ starter' = [starter EXCEPT ![<<r, k>>] = x]
      /\ UNCHANGED <<creator, activeRuns, pass, watchdog, request, launches, attempt>>
  BY <1>2 DEF Prepare, SetStatus, Move, memory
<1>4. Held(r, k) \in Rows \cup {NoRow}
  BY DEF TypeInv, TypeOK, Held
<1>5. to.status = "preparing"
  BY <1>4 DEF WithStatus, Rows, NoRow
<1>6. row'[r].status # "queued" /\ \A s \in Runs \ {r} : row'[s] = row[s]
  BY <1>3, <1>5 DEF Save, TypeInv, TypeOK
<1>7. x.pc = "launch"
  OBVIOUS
<1> HIDE DEF x, to
<1>8. PastCheck(r, k)
  BY <1>1 DEF PastCheck
<1>9. QED
  BY <1>1, <1>3, <1>6, <1>7, <1>8, PastCheckStep

(* Only the first attempt of a launch counts; it finds the run not yet      *)
(* launched, and a later one changes nothing the invariant speaks of.      *)
LEMMA LaunchLaunches ==
  ASSUME TypeInv, TypeOK', LaunchInv, NEW r \in Runs, NEW k \in Claims, Launch(r, k)
  PROVE  LaunchInv'
<1>1. /\ starter[<<r, k>>].pc = "launch"
      /\ launches' = IF attempt[<<r, k>>] = 1 THEN [launches EXCEPT ![r] = launches[r] + 1]
                     ELSE launches
      /\ UNCHANGED <<row, creator, activeRuns, pass, watchdog, request>>
  BY DEF Launch, At, memory
<1>2. /\ \A s \in Runs \X Claims : s # <<r, k>> => starter'[s] = starter[s]
      /\ \A s \in Runs \X Claims : s # <<r, k>> => attempt'[s] = attempt[s]
      /\ starter'[<<r, k>>].pc \in {"launch", "started", "failing"}
      /\ starter'[<<r, k>>].pc = "launch" => attempt'[<<r, k>>] # 1
  <2>1. ASSUME NEW pc, GoTo(r, k, pc)
        PROVE  /\ \A s \in Runs \X Claims : s # <<r, k>> => starter'[s] = starter[s]
               /\ starter'[<<r, k>>].pc = pc
    BY <2>1 DEF GoTo, Move, TypeInv, TypeOK
  <2>2. ASSUME NEW n, Attempts(r, k, n)
        PROVE  /\ \A s \in Runs \X Claims : s # <<r, k>> => attempt'[s] = attempt[s]
               /\ attempt'[<<r, k>>] = n
    BY <2>2 DEF Attempts, TypeInv, TypeOK
  <2>3. CASE Answers(r, k)
    BY <2>1, <2>2, <2>3 DEF Answers
  <2>4. CASE Refuses(r, k)
    BY <2>1, <2>2, <2>4 DEF Refuses
  <2>5. CASE Fails(r, k) /\ attempt[<<r, k>>] < MaxAttempts
    <3>1. attempt[<<r, k>>] + 1 # 1
      BY DEF TypeInv, TypeOK
    <3>2. Attempts(r, k, attempt[<<r, k>>] + 1) /\ UNCHANGED starter
      BY <2>5 DEF Fails
    <3>3. attempt'[<<r, k>>] = attempt[<<r, k>>] + 1
          /\ \A s \in Runs \X Claims : s # <<r, k>> => attempt'[s] = attempt[s]
      BY <2>2, <3>2
    <3>4. QED
      BY <1>1, <3>1, <3>2, <3>3
  <2>6. CASE Fails(r, k) /\ ~(attempt[<<r, k>>] < MaxAttempts)
    BY <2>1, <2>2, <2>6 DEF Fails
  <2>7. QED
    BY <2>3, <2>4, <2>5, <2>6 DEF Launch
<1>3. launches'[r] <= 1 /\ \A s \in Runs \ {r} : launches'[s] = launches[s]
  <2>1. attempt[<<r, k>>] = 1 => launches[r] = 0
    BY <1>1 DEF LaunchInv, NotYetLaunched
  <2>2. launches[r] <= 1
    BY DEF LaunchInv, LaunchedOnce
  <2>3. QED
    BY <1>1, <2>1, <2>2 DEF TypeInv, TypeOK
<1>4. creator[r] # "off"
  BY <1>1 DEF LaunchInv, UntouchedBeforeCreate
<1>5. row[r].status # "queued"
  BY <1>1 DEF LaunchInv, QueuedIsFresh
<1>6. /\ \A s \in Runs \ {r}, j \in Claims : starter'[<<s, j>>] = starter[<<s, j>>]
      /\ \A s \in Runs \ {r}, j \in Claims : attempt'[<<s, j>>] = attempt[<<s, j>>]
      /\ \A j \in Claims \ {k} : starter'[<<r, j>>] = starter[<<r, j>>]
  BY <1>2
<1>7. \A j \in Claims \ {k} : starter[<<r, j>>].pc \in {"off", "reread"}
  BY <1>1 DEF LaunchInv, OneStarter, PastCheck
<1>8. UntouchedBeforeCreate' /\ QueuedIsFresh'
  BY <1>1, <1>3, <1>4, <1>5, <1>6 DEF LaunchInv, UntouchedBeforeCreate, QueuedIsFresh
<1>9. OneStarter'
  BY <1>6, <1>7 DEF LaunchInv, OneStarter, PastCheck
<1>10. ASSUME NEW s \in Runs, NEW j \in Claims
       PROVE  /\ starter'[<<s, j>>].pc = "prepare" => launches'[s] = 0
              /\ starter'[<<s, j>>].pc = "launch" /\ attempt'[<<s, j>>] = 1 =>
                   launches'[s] = 0
              /\ starter'[<<s, j>>].pc = "prepare" =>
                   starter'[<<s, j>>].run.status = "queued"
              /\ starter'[<<s, j>>].pc = "onStatus" =>
                   starter'[<<s, j>>].run.status # "queued"
  <2>1. CASE s = r /\ j = k
    BY <1>2, <2>1
  <2>2. CASE s = r /\ j # k
    BY <1>6, <1>7, <2>2
  <2>3. CASE s # r
    BY <1>3, <1>6, <2>3 DEF LaunchInv, NotYetLaunched, NeverQueuedAgain
  <2>4. QED
    BY <2>1, <2>2, <2>3
<1>11. NotYetLaunched' /\ NeverQueuedAgain'
  BY <1>1, <1>10 DEF LaunchInv, NotYetLaunched, NeverQueuedAgain
<1>12. LaunchedOnce'
  BY <1>3 DEF LaunchInv, LaunchedOnce
<1>13. QED
  BY <1>8, <1>9, <1>11, <1>12 DEF LaunchInv

LEMMA ReleaseLaunches ==
  ASSUME TypeInv, TypeOK', LaunchInv, NEW r \in Runs, NEW k \in Claims, Release(r, k)
  PROVE  LaunchInv'
<1>1. /\ starter[<<r, k>>].pc = "release"
      /\ starter' = [starter EXCEPT ![<<r, k>>] = IdleStarter]
      /\ activeRuns' = activeRuns \ {r}
      /\ UNCHANGED <<row, creator, pass, watchdog, request, launches, attempt>>
  BY DEF Release, At
<1>2. creator[r] # "off" /\ row[r].status # "queued"
  BY <1>1 DEF LaunchInv, UntouchedBeforeCreate, QueuedIsFresh
<1>3. starter'[<<r, k>>].pc = "off"
      /\ \A s \in Runs \X Claims : s # <<r, k>> => starter'[s] = starter[s]
  BY <1>1 DEF TypeInv, TypeOK, IdleStarter
<1>4. (\A s \in Runs \ {r}, j \in Claims : starter'[<<s, j>>] = starter[<<s, j>>])
      /\ \A j \in Claims \ {k} : starter'[<<r, j>>] = starter[<<r, j>>]
  BY <1>3
<1>5. UntouchedBeforeCreate' /\ QueuedIsFresh'
  BY <1>1, <1>2, <1>4 DEF LaunchInv, UntouchedBeforeCreate, QueuedIsFresh
<1>6. OneStarter' /\ NotYetLaunched'
  BY <1>1, <1>3, <1>4 DEF LaunchInv, OneStarter, NotYetLaunched, PastCheck
<1>7. NeverQueuedAgain' /\ LaunchedOnce'
  BY <1>1, <1>3, <1>4 DEF LaunchInv, NeverQueuedAgain, LaunchedOnce
<1>8. QED
  BY <1>5, <1>6, <1>7 DEF LaunchInv

LEMMA AppliedNotQueued ==
  ASSUME NEW run \in Rows \cup {NoRow}, NEW e \in EventSet
  PROVE  Applied(e, run).status # "queued"
<1>1. CASE e.status = "running"
  BY <1>1 DEF Applied, WithStatus, Rows, NoRow
<1>2. CASE e.status # "running"
  BY <1>2, OutcomeType DEF Applied, EventSet, EngineOutcome
<1>3. QED
  BY <1>1, <1>2

LEMMA StarterStepLaunches ==
  ASSUME TypeInv, TypeOK', LaunchInv, NEW r \in Runs, NEW k \in Claims,
         StarterStep(r, k) \/ BreakStream(r, k)
  PROVE  LaunchInv'
<1>a. Held(r, k) \in Rows \cup {NoRow} /\ row[r] \in Rows \cup {NoRow}
  BY DEF TypeInv, TypeOK, Held
<1>b. \A s \in ExecutionStatus : WithStatus(Held(r, k), s).status = s
  BY <1>a DEF WithStatus, Rows, NoRow
<1>1. CASE Reread(r, k)
  BY <1>1, RereadLaunches
<1>2. CASE Prepare(r, k)
  BY <1>2, PrepareLaunches
<1>3. CASE Launch(r, k)
  BY <1>3, LaunchLaunches
<1>4. CASE Release(r, k)
  BY <1>4, ReleaseLaunches
<1>6. CASE MarkRunning(r, k)
  <2>1. PastCheck(r, k) /\ starter[<<r, k>>].pc # "prepare"
    BY <1>6 DEF MarkRunning, At, PastCheck
  <2>2. CASE CanTransition(ExecutionTransitions, Held(r, k).status, "running")
    <3>1. Save(r, WithStatus(Held(r, k), "running"))
          /\ Move(r, k, "open", WithStatus(Held(r, k), "running"))
      BY <1>6, <2>2 DEF MarkRunning, SetStatus
    <3>2. WithStatus(Held(r, k), "running").status # "queued"
      BY <1>b, StatusNames
    <3>3. QED
      BY <1>6, <2>1, <3>1, <3>2, PastCheckMoves DEF MarkRunning, SetStatus, memory
  <2>3. CASE ~CanTransition(ExecutionTransitions, Held(r, k).status, "running")
    <3>1. Move(r, k, "failing", Held(r, k)) /\ row' = row
      BY <1>6, <2>3 DEF MarkRunning, SetStatus, GoTo
    <3>2. QED
      BY <1>6, <2>1, <3>1, PastCheckMoves DEF MarkRunning, SetStatus, memory
  <2>4. QED
    BY <2>2, <2>3
<1>7. CASE OpenStream(r, k)
  <2>1. PastCheck(r, k) /\ starter[<<r, k>>].pc # "prepare"
    BY <1>7 DEF OpenStream, At, PastCheck
  <2>2. Move(r, k, "stream", Held(r, k))
    BY <1>7 DEF OpenStream, GoTo
  <2>3. \A s \in Runs \ {r} : watchdog'[s] = watchdog[s]
    BY <1>7 DEF OpenStream, TypeInv, TypeOK
  <2>4. QED
    BY <1>7, <2>1, <2>2, <2>3, PastCheckMoves DEF OpenStream
<1>8. CASE HandleEvent(r, k)
  <2>1. PastCheck(r, k) /\ starter[<<r, k>>].pc # "prepare"
    BY <1>8 DEF HandleEvent, At, PastCheck
  <2>2. CASE Ignored(Head(events[r]), row[r])
    <3>1. UNCHANGED <<starter, row, creator, activeRuns, pass, watchdog, request, launches, attempt>>
      BY <1>8, <2>2 DEF HandleEvent, memory
    <3>2. QED
      BY <3>1 DEF LaunchInv, UntouchedBeforeCreate, QueuedIsFresh, OneStarter, PastCheck,
                  NotYetLaunched, NeverQueuedAgain, LaunchedOnce
  <2>3. CASE ~Ignored(Head(events[r]), row[r])
    <3>1. Move(r, k, "onStatus", Applied(Head(events[r]), row[r]))
      BY <1>8, <2>3 DEF HandleEvent
    <3>2. Head(events[r]) \in EventSet
      BY <1>8 DEF HandleEvent, TypeInv, TypeOK
    <3>3. Applied(Head(events[r]), row[r]).status # "queued"
      BY <1>a, <3>2, AppliedNotQueued
    <3>4. QED
      BY <1>8, <2>1, <3>1, <3>3, PastCheckMoves DEF HandleEvent, memory
  <2>4. QED
    BY <2>2, <2>3
<1>9. CASE SaveEvent(r, k)
  <2>1. PastCheck(r, k) /\ starter[<<r, k>>].pc # "prepare" /\ Held(r, k).status # "queued"
    BY <1>9 DEF SaveEvent, At, Held, PastCheck, LaunchInv, NeverQueuedAgain
  <2>2. Move(r, k, "stream", Held(r, k)) /\ Save(r, Held(r, k))
    BY <1>9 DEF SaveEvent, GoTo
  <2>3. QED
    BY <1>9, <2>1, <2>2, PastCheckMoves DEF SaveEvent, memory
<1>10. CASE EndStream(r, k) \/ BreakStream(r, k)
  <2>1. CloseStream(r, k)
    BY <1>10 DEF EndStream, BreakStream
  <2>2. PastCheck(r, k) /\ starter[<<r, k>>].pc # "prepare"
    BY <2>1 DEF CloseStream, At, PastCheck
  <2>3. Move(r, k, "finalize", Held(r, k))
    BY <2>1 DEF CloseStream, GoTo
  <2>4. \A s \in Runs \ {r} : watchdog'[s] = watchdog[s]
    BY <2>1 DEF CloseStream, TypeInv, TypeOK
  <2>5. QED
    BY <2>1, <2>2, <2>3, <2>4, PastCheckMoves DEF CloseStream
<1>11. CASE Finalize(r, k)
  <2>1. PastCheck(r, k) /\ starter[<<r, k>>].pc # "prepare"
    BY <1>11 DEF Finalize, At, PastCheck
  <2>2. QED
    BY <1>11, <2>1, PastCheckMoves DEF Finalize, memory
<1>12. CASE Conclude(r, k)
  <2> DEFINE settled == WithStatus(Held(r, k), FinalStatus(Held(r, k)))
  <2>1. PastCheck(r, k) /\ starter[<<r, k>>].pc # "prepare"
    BY <1>12 DEF Conclude, At, PastCheck
  <2>2. Move(r, k, "release", Held(r, k))
    BY <1>12 DEF Conclude, GoTo
  <2>3. settled.status = FinalStatus(Held(r, k))
    BY <1>b, FinalStatusType
  <2>4. settled.status # "queued"
    BY <2>3, OutcomeType DEF FinalStatus
  <2>5. row' = row \/ Save(r, settled)
    BY <1>12 DEF Conclude, SaveUnlessTerminal
  <2>6. QED
    BY <1>12, <2>1, <2>2, <2>4, <2>5, PastCheckMoves DEF Conclude, memory
<1>13. CASE Failing(r, k)
  <2>1. PastCheck(r, k) /\ starter[<<r, k>>].pc # "prepare"
    BY <1>13 DEF Failing, At, PastCheck
  <2>2. QED
    BY <1>13, <2>1, PastCheckMoves DEF Failing, memory
<1>14. CASE GiveUp(r, k)
  <2> DEFINE settled == [status |-> "failed", metrics |-> NoMetrics]
  <2>1. PastCheck(r, k) /\ starter[<<r, k>>].pc # "prepare"
    BY <1>14 DEF GiveUp, At, PastCheck
  <2>2. Move(r, k, "release", Held(r, k))
    BY <1>14 DEF GiveUp, GoTo
  <2>3. (row' = row \/ Save(r, settled)) /\ settled.status # "queued"
    BY <1>14 DEF GiveUp, SaveUnlessTerminal
  <2>4. QED
    BY <1>14, <2>1, <2>2, <2>3, PastCheckMoves DEF GiveUp, memory
<1>15. QED
  BY <1>1, <1>2, <1>3, <1>4, <1>6, <1>7, <1>8, <1>9, <1>10, <1>11, <1>12, <1>13,
     <1>14
  DEF StarterStep

-----------------------------------------------------------------------------
(* Steps outside startRun that save a row: the watchdog and Stop requests. *)
LEMMA OutsideSave ==
  ASSUME TypeInv, TypeOK', LaunchInv, NEW r \in Runs, NEW saved, Save(r, saved),
         saved.status # "queued", creator[r] # "off",
         UNCHANGED <<starter, launches, attempt, creator, pass, activeRuns>>,
         \A s \in Runs \ {r} : watchdog'[s] = watchdog[s],
         \A q \in Requests :
           /\ request'[q].id = request[q].id
           /\ \/ request'[q] = request[q]
              \/ request[q].id = r
  PROVE  LaunchInv'
<1>1. row'[r] = saved /\ \A s \in Runs \ {r} : row'[s] = row[s]
  BY DEF Save, TypeInv, TypeOK
<1>2. ASSUME NEW q \in Requests, request'[q].pc \in {"engine", "conclude", "release"}
      PROVE  row'[request'[q].id].status # "queued"
  <2>1. CASE request[q].id = r
    BY <1>1, <2>1
  <2>2. CASE request[q].id # r
    <3>1. request'[q] = request[q] /\ request[q].id \in Runs
      BY <1>2, <2>2 DEF TypeInv, RequestsNameRuns
    <3>2. QED
      BY <1>1, <1>2, <2>2, <3>1 DEF LaunchInv, NeverQueuedAgain
  <2>3. QED
    BY <2>1, <2>2
<1>3. ASSUME NEW s \in Runs, creator'[s] = "off"
      PROVE  /\ row'[s] = row[s] /\ watchdog'[s] = watchdog[s] /\ pass'.next # s
             /\ \A q \in Requests : request'[q].id # s
  BY <1>1, <1>3 DEF LaunchInv, UntouchedBeforeCreate
<1>4. \A s \in Runs : row'[s].status = "queued" => row[s].status = "queued"
  BY <1>1
<1>5. QED
  BY <1>2, <1>3, <1>4, OutsideStep

(* A step that changes no row, nor what the invariant says of requests. *)
LEMMA QuietStep ==
  ASSUME TypeInv, TypeOK', LaunchInv, UNCHANGED <<starter, launches, attempt, row>>,
         \A r \in Runs :
           /\ creator'[r] = "off" =>
                /\ creator[r] = "off"
                /\ watchdog[r].pc = "off" => watchdog'[r].pc = "off"
                /\ pass'.next # r
           /\ r \in activeRuns /\ r \notin activeRuns' => row[r].status # "queued",
         \A q \in Requests :
           \/ request'[q] = request[q]
           \/ request'[q].pc \notin {"engine", "conclude", "release"}
              /\ request'[q].id \in Runs /\ creator'[request'[q].id] # "off"
           \/ request'[q].id = request[q].id
              /\ request[q].pc \in {"engine", "conclude", "release"}
  PROVE  LaunchInv'
<1>1. ASSUME NEW q \in Requests, request'[q].pc \in {"engine", "conclude", "release"}
      PROVE  row'[request'[q].id].status # "queued"
  BY <1>1 DEF LaunchInv, NeverQueuedAgain
<1>2. ASSUME NEW r \in Runs, creator'[r] = "off"
      PROVE  \A q \in Requests : request'[q].id # r
  BY <1>2 DEF LaunchInv, UntouchedBeforeCreate
<1>3. QED
  BY <1>1, <1>2, OutsideStep

LEMMA WatchdogStepLaunches ==
  ASSUME TypeInv, TypeOK', LaunchInv, NEW r \in Runs, WatchdogStep(r)
  PROVE  LaunchInv'
<1>1. creator[r] # "off"
  BY DEF WatchdogStep, Fire, ReadStalled, SaveTimedOut, AbortStalled, LaunchInv,
         UntouchedBeforeCreate
<1>2. \A s \in Runs \ {r} : watchdog'[s] = watchdog[s]
  BY DEF WatchdogStep, Fire, ReadStalled, SaveTimedOut, AbortStalled, Watch, TypeInv, TypeOK
<1>3. UNCHANGED <<starter, launches, attempt, creator, pass, activeRuns, request>>
  BY DEF WatchdogStep, Fire, ReadStalled, SaveTimedOut, AbortStalled, memory
<1>4. CASE SaveTimedOut(r)
  <2> DEFINE saved == WithStatus(watchdog[r].run, "timed_out")
  <2>1. watchdog[r].run \in Rows \cup {NoRow}
    BY DEF TypeInv, TypeOK
  <2>2. saved.status # "queued"
    BY <2>1 DEF WithStatus, Rows, NoRow
  <2>3. Save(r, saved)
    BY <1>4 DEF SaveTimedOut
  <2>4. QED
    BY <1>1, <1>2, <1>3, <2>2, <2>3, OutsideSave
<1>5. CASE UNCHANGED row
  <2>1. ASSUME NEW s \in Runs, creator'[s] = "off"
        PROVE  watchdog'[s] = watchdog[s] /\ pass'.next # s /\ creator[s] = "off"
    BY <1>1, <1>2, <1>3, <2>1 DEF LaunchInv, UntouchedBeforeCreate
  <2>2. QED
    BY <1>3, <1>5, <2>1, QuietStep
<1>6. QED
  BY <1>4, <1>5 DEF WatchdogStep, Fire, ReadStalled, AbortStalled

LEMMA RequestStepLaunches ==
  ASSUME TypeInv, TypeOK', LaunchInv, NEW q \in Requests,
         RequestStep(q) \/ \E r \in Runs : Stop(q, r)
  PROVE  LaunchInv'
<1>1. UNCHANGED <<starter, launches, attempt, creator, pass, watchdog>>
  BY DEF RequestStep, CheckStop, MarkStop, StopEngine, ConcludeStop, ReleaseStop, Stop, memory
<1>2. \A p \in Requests \ {q} : request'[p] = request[p]
  BY DEF RequestStep, CheckStop, MarkStop, StopEngine, ConcludeStop, ReleaseStop, Stop,
         Answer, TypeInv, TypeOK
<1>3. ASSUME NEW s \in Runs, creator'[s] = "off"
      PROVE  watchdog'[s] = watchdog[s] /\ pass'.next # s /\ creator[s] = "off"
  BY <1>1, <1>3 DEF LaunchInv, UntouchedBeforeCreate
<1>4. ASSUME NEW r \in Runs, Stop(q, r) PROVE LaunchInv'
  <2>1. creator[r] # "off"
    BY <1>4 DEF Stop, Stored, NoRow, LaunchInv, UntouchedBeforeCreate
  <2>2. request'[q] = [pc |-> "check", id |-> r, run |-> row[r], abort |-> FALSE]
    BY <1>4 DEF Stop, TypeInv, TypeOK
  <2>3. request'[q].pc = "check" /\ request'[q].id = r
    BY <2>2
  <2>4. UNCHANGED <<row, activeRuns>>
    BY <1>4 DEF Stop, memory
  <2>5. \A p \in Requests :
          \/ request'[p] = request[p]
          \/ request'[p].pc \notin {"engine", "conclude", "release"}
             /\ request'[p].id \in Runs /\ creator'[request'[p].id] # "off"
    BY <1>1, <1>2, <2>1, <2>3
  <2>6. QED
    BY <1>1, <1>3, <2>4, <2>5, QuietStep
<1>5. CASE RequestStep(q)
  <2>1. request[q].pc # "off"
    BY <1>5 DEF RequestStep, CheckStop, MarkStop, StopEngine, ConcludeStop, ReleaseStop, Asked
  <2>2. Target(q) \in Runs
    BY <2>1 DEF TypeInv, RequestsNameRuns, Target
  <2>3. creator[Target(q)] # "off"
    BY <2>2 DEF Target, LaunchInv, UntouchedBeforeCreate
  <2>4. ASSUME NEW pc, NEW run, Answer(q, pc, run)
        PROVE  request'[q].pc = pc /\ request'[q].id = request[q].id
    BY <2>4, RequestType DEF Answer, TypeInv, TypeOK
  <2>5. ASSUME NEW saved, Save(Target(q), saved), saved.status # "queued",
               request'[q].id = request[q].id, UNCHANGED activeRuns
        PROVE  LaunchInv'
    <3>1. \A p \in Requests :
            /\ request'[p].id = request[p].id
            /\ request'[p] = request[p] \/ request[p].id = Target(q)
      BY <1>2, <2>5 DEF Target
    <3>2. QED
      BY <1>1, <2>2, <2>3, <2>5, <3>1, OutsideSave
  <2>6. ASSUME UNCHANGED row,
               activeRuns' = activeRuns
                 \/ (activeRuns' = activeRuns \ {Target(q)} /\ request[q].pc = "release"),
               request'[q].id = request[q].id,
               request'[q].pc \notin {"engine", "conclude", "release"}
                 \/ request[q].pc \in {"engine", "conclude", "release"}
        PROVE  LaunchInv'
    <3>1. request[q].pc = "release" => row[Target(q)].status # "queued"
      BY DEF LaunchInv, NeverQueuedAgain, Target
    <3>2. \A s \in Runs : s \in activeRuns /\ s \notin activeRuns' => row[s].status # "queued"
      BY <2>6, <3>1
    <3>3. \A p \in Requests :
            \/ request'[p] = request[p]
            \/ request'[p].pc \notin {"engine", "conclude", "release"}
               /\ request'[p].id \in Runs /\ creator'[request'[p].id] # "off"
            \/ request'[p].id = request[p].id
               /\ request[p].pc \in {"engine", "conclude", "release"}
      BY <1>1, <1>2, <2>2, <2>3, <2>6 DEF Target
    <3>4. QED
      BY <1>1, <1>3, <2>6, <3>2, <3>3, QuietStep
  <2>7. request[q].run \in Rows \cup {NoRow}
    BY RequestType DEF TypeInv
  <2>8. CASE CheckStop(q)
    <3>1. request'[q].pc \in {"refused", "mark"} /\ request'[q].id = request[q].id
      <4>1. CASE IsTerminalExecution(request[q].run.status)
        BY <2>4, <2>8, <4>1 DEF CheckStop
      <4>2. CASE ~IsTerminalExecution(request[q].run.status)
        <5>1. request' = [request EXCEPT ![q] =
                [@ EXCEPT !.pc = "mark", !.abort = Target(q) \in controllers]]
          BY <2>8, <4>2 DEF CheckStop
        <5>2. QED
          BY <5>1, RequestType DEF TypeInv, TypeOK
      <4>3. QED
        BY <4>1, <4>2
    <3>2. QED
      BY <2>6, <2>8, <3>1 DEF CheckStop, memory
  <2>9. CASE MarkStop(q)
    <3> DEFINE to == StopMark(request[q].run)
               saved == WithStatus(request[q].run, to)
    <3>1. saved.status # "queued"
      BY <2>7 DEF WithStatus, StopMark, Rows, NoRow
    <3>2. CASE CanTransition(ExecutionTransitions, request[q].run.status, to)
      <4>1. Save(Target(q), saved) /\ Answer(q, "engine", saved)
        BY <2>9, <3>2 DEF MarkStop
      <4>2. QED
        BY <2>4, <2>5, <2>9, <3>1, <4>1 DEF MarkStop, memory
    <3>3. CASE ~CanTransition(ExecutionTransitions, request[q].run.status, to)
      <4>1. UNCHANGED row /\ Answer(q, "refused", request[q].run)
        BY <2>9, <3>3 DEF MarkStop
      <4>2. QED
        BY <2>4, <2>6, <2>9, <4>1 DEF MarkStop, memory
    <3>4. QED
      BY <3>2, <3>3
  <2>10. CASE StopEngine(q)
    BY <2>4, <2>6, <2>10 DEF StopEngine, Asked, memory
  <2>11. CASE ConcludeStop(q)
    <3> DEFINE saved == WithStatus(request[q].run, "cancelled")
    <3>1. saved.status # "queued"
      BY <2>7 DEF WithStatus, Rows, NoRow
    <3>2. Save(Target(q), saved) /\ Answer(q, "release", saved)
      BY <2>11 DEF ConcludeStop
    <3>3. QED
      BY <2>4, <2>5, <2>11, <3>1, <3>2 DEF ConcludeStop, memory
  <2>12. CASE ReleaseStop(q)
    BY <2>4, <2>6, <2>12 DEF ReleaseStop, Asked
  <2>13. QED
    BY <1>5, <2>8, <2>9, <2>10, <2>11, <2>12 DEF RequestStep
<1>6. QED
  BY <1>4, <1>5

LEMMA PumpStepLaunches ==
  ASSUME TypeInv, TypeOK', LaunchInv, PumpStep
  PROVE  LaunchInv'
<1>1. CASE Find
  <2>1. OldestQueued \subseteq Queued \cup {NoRun}
    BY DEF OldestQueued
  <2>2. pass'.next \in Queued \cup {NoRun}
    BY <1>1, <2>1 DEF Find, EndPass
  <2>3. \A r \in Runs : creator[r] = "off" => pass'.next # r
    BY <2>2, RunsAssumption DEF NoRun, Queued, LaunchInv, UntouchedBeforeCreate, NoRow
  <2>4. UNCHANGED <<starter, launches, attempt, row, creator, watchdog, request, activeRuns>>
    BY <1>1 DEF Find
  <2>5. QED
    BY <2>3, <2>4, QuietStep
<1>2. CASE NothingToClaim
  <2>1. \A r \in Runs : pass'.next # r
    BY <1>2, RunsAssumption DEF NothingToClaim, EndPass, NoRun
  <2>2. UNCHANGED <<starter, launches, attempt, row, creator, watchdog, request, activeRuns>>
    BY <1>2 DEF NothingToClaim
  <2>3. QED
    BY <2>1, <2>2, QuietStep
<1>3. QED
  BY <1>1, <1>2, ClaimLaunches DEF PumpStep

LEMMA LaunchInvStep == TypeInv /\ TypeInv' /\ LaunchInv /\ [Next]_vars => LaunchInv'
<1> SUFFICES ASSUME TypeInv, TypeOK', LaunchInv, [Next]_vars PROVE LaunchInv'
  BY DEF TypeInv
<1>1. ASSUME UNCHANGED <<starter, launches, attempt, row, watchdog, pass, request, activeRuns>>,
             \A r \in Runs : creator'[r] = "off" => creator[r] = "off"
      PROVE  LaunchInv'
  <2>1. \A r \in Runs : creator'[r] = "off" => pass'.next # r
    BY <1>1 DEF LaunchInv, UntouchedBeforeCreate
  <2>2. QED
    BY <1>1, <2>1, QuietStep
<1>2. ASSUME NEW r \in Runs, PumpCreated(r) PROVE LaunchInv'
  BY <1>1, <1>2 DEF PumpCreated, TypeInv, TypeOK
<1>3. ASSUME NEW r \in Runs, EngineStarts(r) \/ EngineEnds(r) PROVE LaunchInv'
  BY <1>1, <1>3 DEF EngineStarts, EngineEnds, memory
<1>4. CASE UNCHANGED vars
  BY <1>1, <1>4 DEF vars
<1>5. ASSUME NEW r \in Runs, Create(r) PROVE LaunchInv'
  BY <1>5, CreateLaunches
<1>6. ASSUME NEW r \in Runs, WatchdogStep(r) PROVE LaunchInv'
  BY <1>6, WatchdogStepLaunches
<1>7. ASSUME NEW r \in Runs, NEW k \in Claims, StarterStep(r, k) \/ BreakStream(r, k)
      PROVE  LaunchInv'
  BY <1>7, StarterStepLaunches
<1>8. ASSUME NEW q \in Requests, RequestStep(q) \/ \E r \in Runs : Stop(q, r)
      PROVE  LaunchInv'
  BY <1>8, RequestStepLaunches
<1>9. CASE PumpStep
  BY <1>9, PumpStepLaunches
<1>10. QED
  BY <1>2, <1>3, <1>4, <1>5, <1>6, <1>7, <1>8, <1>9 DEF Next

LEMMA LaunchInvInit == Init => LaunchInv
<1>1. \A r \in Runs : r # NoRun
  BY RunsAssumption DEF NoRun
<1>2. QED
  BY <1>1 DEF Init, LaunchInv, UntouchedBeforeCreate, QueuedIsFresh, OneStarter, PastCheck,
    NotYetLaunched, NeverQueuedAgain, LaunchedOnce, NoRow, IdleStarter

(* startRun() calls execute() for a run at most once, whatever Stop        *)
(* requests do to its slot between a pass's query and its claim, and       *)
(* however often the POST of that one call is sent again.                  *)
THEOREM NeverLaunchedTwice == Spec => []LaunchedOnce
<1>1. Init => LaunchInv
  BY LaunchInvInit
<1>2. LaunchInv => LaunchedOnce
  BY DEF LaunchInv
<1>3. QED
  BY <1>1, <1>2, LaunchInvStep, TypeInvHolds, PTL DEF Spec

-----------------------------------------------------------------------------
(* A slot is free when a pass claims one, and every slot is counted.       *)
SlotsCounted ==
  /\ IsFiniteSet(activeRuns) /\ Cardinality(activeRuns) <= MaxConcurrent
  /\ pass.pc = "claim" => Cardinality(activeRuns) < MaxConcurrent

(* Runs are created in the order of their ids and created_at follows it, so *)
(* the run a query returned stays one of the oldest.                       *)
FoundIsOldest ==
  /\ \A r, s \in Runs : s < r /\ creator[r] # "off" => creator[s] # "off"
  /\ pass.next \in Runs => \A s \in Queued : CreatedAt[pass.next] <= CreatedAt[s]

OneClaim(r) ==
  \A j, k \in Claims :
    starter[<<r, j>>].pc # "off" /\ starter[<<r, k>>].pc # "off" => j = k
HoldsSlot(r) == r \notin activeRuns => \A k \in Claims : starter[<<r, k>>].pc = "off"
NotYetWatched(r) == row[r].status = "queued" => watchdog[r].pc = "off"

(* Who has read that a run is over is not outdated: without Stop only the  *)
(* watchdog writes beside startRun(), and it writes timed_out.             *)
Terminal(run) == IsTerminalExecution(run.status)
Undecided == {"prepare", "launch", "started", "open", "stream", "onStatus", "finalize",
              "conclude", "failing", "giveUp"}
LeftBehind(r) ==
  Stored(r) /\ row[r].status # "queued"
    /\ (\A k \in Claims : starter[<<r, k>>].pc \notin Undecided) => Terminal(row[r])
ReadIsTrue(r) ==
  \A k \in Claims :
    starter[<<r, k>>].pc \in {"conclude", "giveUp"} /\ Terminal(starter[<<r, k>>].run) =>
      Terminal(row[r])

AppliedIsRow(r) ==
  \A k \in Claims : starter[<<r, k>>].pc = "onStatus" => starter[<<r, k>>].run \in Rows

RunInv(r) ==
  /\ creator[r] # "off" <=> Stored(r)
  /\ r \in activeRuns => Stored(r)
  /\ OneClaim(r) /\ HoldsSlot(r) /\ NotYetWatched(r) /\ LeftBehind(r) /\ ReadIsTrue(r)
  /\ AppliedIsRow(r)
QueueInv == SlotsCounted /\ FoundIsOldest /\ \A r \in Runs : RunInv(r)

(* What a step must do to the queue: one of its moves, or nothing.         *)
Rests(r) == Stage(r)' = Stage(r)
Advances == Queue!Next \/ \A r \in Runs : Rests(r)

-----------------------------------------------------------------------------
LEMMA TerminalStatuses ==
  ASSUME NEW s \in ExecutionStatus
  PROVE  IsTerminalExecution(s) <=> s \notin {"queued", "preparing", "running", "stopping"}
  BY StatusNames DEF IsTerminalExecution, ExecutionTransitions

LEMMA RunUntouched ==
  ASSUME NEW r \in Runs, RunInv(r),
         row'[r] = row[r], creator'[r] = creator[r], watchdog'[r] = watchdog[r],
         \A k \in Claims : starter'[<<r, k>>] = starter[<<r, k>>],
         r \in activeRuns' <=> r \in activeRuns
  PROVE  RunInv(r)' /\ Rests(r)
<1>1. RunInv(r)'
  BY DEF RunInv, OneClaim, HoldsSlot, NotYetWatched, LeftBehind, ReadIsTrue, AppliedIsRow, Stored
<1>2. Rests(r)
  BY DEF Rests, Stage, Stored, Settled, Rechecked
<1>3. QED
  BY <1>1, <1>2

(* The same for every run, and for the pass.                               *)
LEMMA AllUntouched ==
  ASSUME QueueInv, UNCHANGED <<row, watchdog, starter, activeRuns, pass>>,
         \A r \in Runs : creator'[r] = "off" <=> creator[r] = "off"
  PROVE  QueueInv' /\ Advances
<1>1. ASSUME NEW r \in Runs PROVE RunInv(r)' /\ Rests(r)
  <2>1. RunInv(r)'
    BY DEF QueueInv, RunInv, OneClaim, HoldsSlot, NotYetWatched, LeftBehind, ReadIsTrue, AppliedIsRow, Stored
  <2>2. Rests(r)
    BY DEF Rests, Stage, Stored, Settled, Rechecked
  <2>3. QED
    BY <2>1, <2>2
<1>2. SlotsCounted' /\ FoundIsOldest'
  BY DEF QueueInv, SlotsCounted, FoundIsOldest, Queued
<1>3. QED
  BY <1>1, <1>2 DEF QueueInv, Advances

(* One run moves in the queue, the others rest.                            *)
LEMMA QueueMove ==
  ASSUME NEW r \in Runs, \A s \in Runs \ {r} : Rests(s),
         NEW from, NEW to, Stage(r) = from, Stage(r)' = to
  PROVE  Queue!Becomes(r, from, to)
<1>1. [s \in Runs |-> Stage(s)]' = [[s \in Runs |-> Stage(s)] EXCEPT ![r] = to]
  BY DEF Rests
<1>2. QED
  BY <1>1 DEF Queue!Becomes

(* The slots of the queue are those the service counts.                    *)
LEMMA SlotsAgree ==
  ASSUME TypeInv, QueueInv
  PROVE  Queue!Holding = activeRuns
<1>1. ASSUME NEW r \in Runs
      PROVE  Stage(r) \in {"busy", "again"} <=> r \in activeRuns
  BY DEF QueueInv, RunInv, Stage
<1>2. QED
  BY <1>1 DEF Queue!Holding, TypeInv, TypeOK

LEMMA WaitingAgree == Queue!Waiting \subseteq Queued
<1>1. ASSUME NEW r \in Runs, Stage(r) = "waiting" PROVE row[r].status = "queued"
  BY <1>1 DEF Stage
<1>2. QED
  BY <1>1 DEF Queue!Waiting, Queued

-----------------------------------------------------------------------------
LEMMA CreateQueue ==
  ASSUME TypeInv, LaunchInv, QueueInv, NEW r \in Runs, Create(r)
  PROVE  QueueInv' /\ Advances
<1>1. creator[r] = "off" /\ creator' = [creator EXCEPT ![r] = "saved"]
      /\ row' = [row EXCEPT ![r] = [status |-> "queued", metrics |-> NoMetrics]]
      /\ UNCHANGED <<starter, pass, watchdog, activeRuns>>
      /\ \A s \in Runs : s < r => creator[s] # "off"
  BY DEF Create, Save, memory
<1>2. row'[r].status = "queued" /\ creator'[r] # "off"
      /\ \A s \in Runs \ {r} : row'[s] = row[s] /\ creator'[s] = creator[s]
  BY <1>1 DEF TypeInv, TypeOK
<1>3. row[r] = NoRow /\ watchdog[r].pc = "off" /\ pass.next # r
      /\ \A k \in Claims : starter[<<r, k>>].pc = "off"
  BY <1>1 DEF LaunchInv, UntouchedBeforeCreate
<1>4. ~Stored(r) /\ r \notin activeRuns
  BY <1>1 DEF QueueInv, RunInv
<1>5. Stored(r)'
  BY <1>2 DEF Stored
<1>6. \A s \in Runs \ {r} : RunInv(s)' /\ Rests(s)
  BY <1>1, <1>2, RunUntouched DEF QueueInv
<1>7. RunInv(r)'
  BY <1>1, <1>2, <1>3, <1>4, <1>5
  DEF RunInv, OneClaim, HoldsSlot, NotYetWatched, LeftBehind, ReadIsTrue, AppliedIsRow
<1>8. FoundIsOldest'
  <2>1. \A s, t \in Runs : t < s /\ creator'[s] # "off" => creator'[t] # "off"
    BY <1>1, <1>2 DEF QueueInv, FoundIsOldest
  <2>2. ASSUME pass.next \in Runs PROVE CreatedAt[pass.next] <= CreatedAt[r]
    <3>1. creator[pass.next] # "off"
      BY <2>2 DEF LaunchInv, UntouchedBeforeCreate
    <3>2. ~(r < pass.next)
      BY <1>1, <2>2, <3>1 DEF QueueInv, FoundIsOldest
    <3>3. pass.next \in Nat /\ r \in Nat
      BY <2>2, RunsAssumption
    <3>4. pass.next = r \/ pass.next < r
      BY <3>2, <3>3
    <3>5. QED
      BY <2>2, <3>4, CreatedAtAssumption
  <2>3. Queued' \subseteq Queued \cup {r}
    BY <1>2 DEF Queued
  <2>4. QED
    BY <1>1, <2>1, <2>2, <2>3 DEF QueueInv, FoundIsOldest
<1>9. SlotsCounted'
  BY <1>1 DEF QueueInv, SlotsCounted
<1>10. Advances
  <2>1. Stage(r) = "absent"
    BY <1>4 DEF Stage
  <2>2. Stage(r)' = "waiting"
    BY <1>1, <1>2, <1>4, <1>5 DEF Stage
  <2>3. Queue!Arrive(r)
    BY <1>6, <2>1, <2>2, QueueMove DEF Queue!Arrive
  <2>4. QED
    BY <2>3 DEF Advances, Queue!Next
<1>11. QED
  BY <1>6, <1>7, <1>8, <1>9, <1>10 DEF QueueInv

LEMMA WatchdogQueue ==
  ASSUME TypeInv, LaunchInv, QueueInv, NEW r \in Runs, WatchdogStep(r)
  PROVE  QueueInv' /\ Advances
<1>1. watchdog[r].pc # "off" /\ UNCHANGED <<creator, starter, activeRuns, pass>>
  BY DEF WatchdogStep, Fire, ReadStalled, SaveTimedOut, AbortStalled, memory
<1>2. \A s \in Runs \ {r} : row'[s] = row[s] /\ watchdog'[s] = watchdog[s]
  BY DEF WatchdogStep, Fire, ReadStalled, SaveTimedOut, AbortStalled, Watch, Save, TypeInv,
         TypeOK
<1>3. row[r].status # "queued" /\ Stored(r)
  BY <1>1 DEF QueueInv, RunInv, NotYetWatched, LaunchInv, UntouchedBeforeCreate
<1>4. row'[r] = row[r] \/ row'[r].status = "timed_out"
  <2>1. CASE SaveTimedOut(r)
    <3>1. watchdog[r].run \in Rows \cup {NoRow}
      BY DEF TypeInv, TypeOK
    <3>2. WithStatus(watchdog[r].run, "timed_out").status = "timed_out"
      BY <3>1 DEF WithStatus, Rows, NoRow
    <3>3. QED
      BY <2>1, <3>2 DEF SaveTimedOut, Save, TypeInv, TypeOK
  <2>2. QED
    BY <2>1 DEF WatchdogStep, Fire, ReadStalled, AbortStalled
<1>5. /\ row'[r].status # "queued" /\ Stored(r)'
      /\ Terminal(row[r]) => Terminal(row'[r])
      /\ row'[r].status = "timed_out" => Terminal(row'[r])
  BY <1>3, <1>4, StatusNames, TerminalStatuses DEF Stored, Terminal
<1>6. \A s \in Runs \ {r} : RunInv(s)' /\ Rests(s)
  BY <1>1, <1>2, RunUntouched DEF QueueInv
<1>7. RunInv(r)
  BY DEF QueueInv
<1>8. RunInv(r)'
  BY <1>1, <1>3, <1>4, <1>5, <1>7
  DEF RunInv, OneClaim, HoldsSlot, NotYetWatched, LeftBehind, ReadIsTrue, AppliedIsRow
<1>9. Rests(r)
  <2>1. CASE r \in activeRuns
    BY <1>1, <1>3, <1>5, <2>1 DEF Rests, Stage, Rechecked
  <2>2. CASE r \notin activeRuns
    <3>1. \A k \in Claims : starter[<<r, k>>].pc \notin Undecided
      BY <1>7, <2>2 DEF RunInv, HoldsSlot, Undecided
    <3>2. Terminal(row[r])
      BY <1>3, <1>7, <3>1 DEF RunInv, LeftBehind
    <3>3. Stage(r) = "over"
      BY <1>3, <2>2, <3>2 DEF Stage, Settled, Terminal
    <3>4. Stage(r)' = "over"
      BY <1>1, <1>5, <2>2, <3>2 DEF Stage, Settled, Terminal
    <3>5. QED
      BY <3>3, <3>4 DEF Rests
  <2>3. QED
    BY <2>1, <2>2
<1>10. FoundIsOldest'
  <2>1. Queued' \subseteq Queued
    BY <1>2, <1>5 DEF Queued
  <2>2. QED
    BY <1>1, <2>1 DEF QueueInv, FoundIsOldest
<1>11. SlotsCounted'
  BY <1>1 DEF QueueInv, SlotsCounted
<1>12. QED
  BY <1>6, <1>8, <1>9, <1>10, <1>11 DEF QueueInv, Advances

LEMMA FindQueue ==
  ASSUME TypeInv, QueueInv, Find
  PROVE  QueueInv' /\ Advances
<1>1. UNCHANGED <<row, creator, activeRuns, starter, watchdog>>
  BY DEF Find
<1>2. \/ /\ Cardinality(activeRuns) < MaxConcurrent
         /\ pass'.pc = "claim" /\ pass'.next \in OldestQueued
      \/ pass'.pc = "idle" /\ pass'.next = NoRun
  BY DEF Find, EndPass
<1>3. pass'.next \in Runs => \A s \in Queued : CreatedAt[pass'.next] <= CreatedAt[s]
  BY <1>2, RunsAssumption DEF OldestQueued, NoRun
<1>4. \A s \in Runs : RunInv(s)' /\ Rests(s)
  BY <1>1, RunUntouched DEF QueueInv
<1>5. FoundIsOldest'
  BY <1>1, <1>3 DEF QueueInv, FoundIsOldest, Queued
<1>6. SlotsCounted'
  BY <1>1, <1>2 DEF QueueInv, SlotsCounted
<1>7. QED
  BY <1>4, <1>5, <1>6 DEF QueueInv, Advances

LEMMA NothingToClaimQueue ==
  ASSUME TypeInv, QueueInv, NothingToClaim
  PROVE  QueueInv' /\ Advances
<1>1. UNCHANGED <<row, creator, activeRuns, starter, watchdog>>
      /\ pass'.pc = "idle" /\ pass'.next = NoRun
  BY DEF NothingToClaim, EndPass
<1>2. \A s \in Runs : RunInv(s)' /\ Rests(s)
  BY <1>1, RunUntouched DEF QueueInv
<1>3. FoundIsOldest'
  BY <1>1, RunsAssumption DEF QueueInv, FoundIsOldest, NoRun
<1>4. SlotsCounted'
  BY <1>1 DEF QueueInv, SlotsCounted
<1>5. QED
  BY <1>2, <1>3, <1>4 DEF QueueInv, Advances

(* The one step that takes a slot: for the oldest run that waits, or again *)
(* for one that is over.                                                   *)
LEMMA ClaimQueue ==
  ASSUME TypeInv, LaunchInv, QueueInv, NEW k \in Claims, Claim(k)
  PROVE  QueueInv' /\ Advances
<1>0. PICK r \in Runs : r = pass.next
  BY DEF Claim
<1>1. /\ r \in Runs \ activeRuns /\ starter'[<<r, k>>].pc = "reread"
      /\ activeRuns' = activeRuns \cup {r} /\ pass'.next = NoRun
      /\ pass.pc = "claim"
      /\ pass'.pc \in {"idle", "find"}
      /\ UNCHANGED <<row, creator, watchdog>>
  BY <1>0, ClaimEffect DEF Claim, TypeInv
<1>2. \A s \in Runs \X Claims : s # <<r, k>> => starter'[s] = starter[s]
  BY <1>0, ClaimEffect DEF TypeInv
<1>3. creator[r] # "off"
  BY <1>0 DEF LaunchInv, UntouchedBeforeCreate
<1>4. \A s \in Queued : CreatedAt[r] <= CreatedAt[s]
  BY <1>0 DEF QueueInv, FoundIsOldest
<1>5. (\A s \in Runs \ {r}, j \in Claims : starter'[<<s, j>>] = starter[<<s, j>>])
      /\ \A j \in Claims \ {k} : starter'[<<r, j>>] = starter[<<r, j>>]
  BY <1>2
<1>6. Stored(r) /\ \A j \in Claims : starter[<<r, j>>].pc = "off"
  BY <1>1, <1>3 DEF QueueInv, RunInv, HoldsSlot
<1>7. row[r].status # "queued" => Terminal(row[r])
  BY <1>1, <1>6 DEF QueueInv, RunInv, LeftBehind, Undecided
<1>8. \A s \in Runs \ {r} : RunInv(s)' /\ Rests(s)
  BY <1>1, <1>5, RunUntouched DEF QueueInv
<1>9. RunInv(r)'
  <2>1. \A j \in Claims : starter'[<<r, j>>].pc = IF j = k THEN "reread" ELSE "off"
    BY <1>1, <1>5, <1>6
  <2>2. Stored(r)' /\ (creator'[r] # "off")
    BY <1>1, <1>3, <1>6 DEF Stored
  <2>3. NotYetWatched(r)'
    BY <1>1 DEF QueueInv, RunInv, NotYetWatched
  <2>4. OneClaim(r)' /\ HoldsSlot(r)'
    BY <1>1, <2>1 DEF OneClaim, HoldsSlot
  <2>5. LeftBehind(r)' /\ ReadIsTrue(r)' /\ AppliedIsRow(r)'
    BY <1>1, <1>7, <2>1 DEF LeftBehind, ReadIsTrue, AppliedIsRow
  <2>6. QED
    BY <1>1, <2>2, <2>3, <2>4, <2>5 DEF RunInv
<1>10. FoundIsOldest'
  BY <1>1, RunsAssumption DEF QueueInv, FoundIsOldest, NoRun
<1>11. Cardinality(activeRuns) < MaxConcurrent /\ IsFiniteSet(activeRuns)
  BY <1>1 DEF QueueInv, SlotsCounted
<1>12. SlotsCounted'
  <2>1. IsFiniteSet(activeRuns') /\ Cardinality(activeRuns') = Cardinality(activeRuns) + 1
    BY <1>1, <1>11, FS_AddElement
  <2>2. Cardinality(activeRuns) \in Nat
    BY <1>11, FS_CardinalityType
  <2>3. Cardinality(activeRuns') <= MaxConcurrent
    BY <1>11, <2>1, <2>2, LimitAssumption
  <2>4. QED
    BY <1>1, <2>1, <2>3 DEF SlotsCounted
<1>13. Queue!SlotIsFree
  <2>1. Queue!Holding = activeRuns
    BY SlotsAgree
  <2>2. QED
    BY <1>11, <2>1 DEF Queue!SlotIsFree, Queue!Cardinality, Cardinality
<1>14. CASE row[r].status = "queued"
  <2>1. Stage(r) = "waiting"
    BY <1>1, <1>6, <1>14 DEF Stage
  <2>2. Stage(r)' = "busy"
    BY <1>1, <1>6, <1>14 DEF Stage, Stored, Rechecked
  <2>3. Queue!Becomes(r, "waiting", "busy")
    BY <1>1, <1>8, <2>1, <2>2, QueueMove
  <2>4. \A s \in Queue!Waiting : CreatedAt[r] <= CreatedAt[s]
    BY <1>4, WaitingAgree
  <2>5. Queue!Start(r)
    BY <1>13, <2>3, <2>4 DEF Queue!Start
  <2>6. QED
    BY <1>1, <1>8, <1>9, <1>10, <1>12, <2>5 DEF QueueInv, Advances, Queue!Next
<1>15. CASE row[r].status # "queued"
  <2>1. Stage(r) = "over"
    BY <1>1, <1>6, <1>7, <1>15 DEF Stage, Settled, Terminal
  <2>2. Stage(r)' = "again"
    BY <1>1, <1>6, <1>15 DEF Stage, Stored, Rechecked
  <2>3. Queue!Becomes(r, "over", "again")
    BY <1>1, <1>8, <2>1, <2>2, QueueMove
  <2>4. Queue!TakeAgain(r)
    BY <1>13, <2>3 DEF Queue!TakeAgain
  <2>5. QED
    BY <1>1, <1>8, <1>9, <1>10, <1>12, <2>4 DEF QueueInv, Advances, Queue!Next
<1>16. QED
  BY <1>14, <1>15

-----------------------------------------------------------------------------
(* startRun() gives a slot back, at its check or at its end.               *)
LEMMA GiveBackQueue ==
  ASSUME TypeInv, QueueInv, NEW r \in Runs, NEW k \in Claims,
         starter[<<r, k>>].pc \in {"reread", "release"}, row[r].status # "queued",
         starter' = [starter EXCEPT ![<<r, k>>] = IdleStarter],
         activeRuns' = activeRuns \ {r},
         UNCHANGED <<row, creator, pass, watchdog>>
  PROVE  QueueInv' /\ Advances
<1>1. starter'[<<r, k>>].pc = "off"
      /\ \A s \in Runs \X Claims : s # <<r, k>> => starter'[s] = starter[s]
  BY DEF TypeInv, TypeOK, IdleStarter
<1>2. (\A s \in Runs \ {r}, j \in Claims : starter'[<<s, j>>] = starter[<<s, j>>])
      /\ \A j \in Claims \ {k} : starter'[<<r, j>>] = starter[<<r, j>>]
  BY <1>1
<1>3. RunInv(r)
  BY DEF QueueInv
<1>4. \A j \in Claims \ {k} : starter[<<r, j>>].pc = "off"
  BY <1>3 DEF RunInv, OneClaim
<1>5. r \in activeRuns /\ Stored(r)
  BY <1>3 DEF RunInv, HoldsSlot
<1>6. Terminal(row[r])
  BY <1>3, <1>4, <1>5 DEF RunInv, LeftBehind, Undecided
<1>7. \A j \in Claims : starter'[<<r, j>>].pc = "off"
  BY <1>1, <1>2, <1>4
<1>8. RunInv(r)'
  BY <1>3, <1>5, <1>6, <1>7
  DEF RunInv, OneClaim, HoldsSlot, NotYetWatched, LeftBehind, ReadIsTrue, AppliedIsRow, Stored
<1>9. \A s \in Runs \ {r} : RunInv(s)' /\ Rests(s)
  BY <1>2, RunUntouched DEF QueueInv
<1>10. FoundIsOldest'
  BY DEF QueueInv, FoundIsOldest, Queued
<1>11. SlotsCounted'
  <2>1. IsFiniteSet(activeRuns) /\ Cardinality(activeRuns) <= MaxConcurrent
        /\ Cardinality(activeRuns) \in Nat
        /\ (pass.pc = "claim" => Cardinality(activeRuns) < MaxConcurrent)
    BY FS_CardinalityType DEF QueueInv, SlotsCounted
  <2>2. IsFiniteSet(activeRuns') /\ Cardinality(activeRuns') = Cardinality(activeRuns) - 1
    BY <1>5, <2>1, FS_RemoveElement
  <2>3. Cardinality(activeRuns') <= MaxConcurrent
        /\ (pass.pc = "claim" => Cardinality(activeRuns') < MaxConcurrent)
    BY <2>1, <2>2, LimitAssumption
  <2>4. QED
    BY <2>2, <2>3 DEF SlotsCounted
<1>12. Stage(r)' = "over"
  BY <1>5, <1>6 DEF Stage, Stored, Settled, Terminal
<1>13. CASE starter[<<r, k>>].pc = "reread"
  <2>1. Stage(r) = "again"
    BY <1>5, <1>13 DEF Stage, Rechecked
  <2>2. Queue!GiveBack(r)
    BY <1>9, <1>12, <2>1, QueueMove DEF Queue!GiveBack
  <2>3. QED
    BY <1>8, <1>9, <1>10, <1>11, <2>2 DEF QueueInv, Advances, Queue!Next
<1>14. CASE starter[<<r, k>>].pc = "release"
  <2>1. Stage(r) = "busy"
    BY <1>4, <1>5, <1>14 DEF Stage, Rechecked
  <2>2. Queue!Finish(r)
    BY <1>9, <1>12, <2>1, QueueMove DEF Queue!Finish
  <2>3. QED
    BY <1>8, <1>9, <1>10, <1>11, <2>2 DEF QueueInv, Advances, Queue!Next
<1>15. QED
  BY <1>13, <1>14

(* A run that was found queued is worked on: it is busy before and after.  *)
LEMMA WorkQueue ==
  ASSUME TypeInv, TypeOK', QueueInv, NEW r \in Runs, NEW k \in Claims,
         starter[<<r, k>>].pc # "off",
         starter[<<r, k>>].pc = "reread" => row[r].status = "queued",
         \A s \in Runs \X Claims : s # <<r, k>> => starter'[s] = starter[s],
         starter'[<<r, k>>].pc \in Undecided \cup {"release"},
         \A s \in Runs \ {r} : row'[s] = row[s] /\ watchdog'[s] = watchdog[s],
         row'[r] = row[r] \/ row'[r].status \notin {"queued", "absent"},
         row'[r].status = "queued" => watchdog'[r] = watchdog[r],
         starter'[<<r, k>>].pc = "release" => Terminal(row'[r]),
         starter'[<<r, k>>].pc \in {"conclude", "giveUp"}
           /\ Terminal(starter'[<<r, k>>].run) => Terminal(row'[r]),
         starter'[<<r, k>>].pc = "onStatus" => starter'[<<r, k>>].run \in Rows,
         UNCHANGED <<creator, pass, activeRuns>>
  PROVE  QueueInv' /\ Advances
<1>1. (\A s \in Runs \ {r}, j \in Claims : starter'[<<s, j>>] = starter[<<s, j>>])
      /\ \A j \in Claims \ {k} : starter'[<<r, j>>] = starter[<<r, j>>]
  OBVIOUS
<1>2. RunInv(r)
  BY DEF QueueInv
<1>3. \A j \in Claims \ {k} : starter'[<<r, j>>].pc = "off"
  BY <1>1, <1>2 DEF RunInv, OneClaim
<1>4. r \in activeRuns /\ Stored(r) /\ Stored(r)'
  BY <1>2 DEF RunInv, HoldsSlot, Stored
<1>5. RunInv(r)'
  <2>1. OneClaim(r)' /\ HoldsSlot(r)'
    BY <1>3, <1>4 DEF OneClaim, HoldsSlot
  <2>2. NotYetWatched(r)'
    BY <1>2 DEF RunInv, NotYetWatched
  <2>3. LeftBehind(r)' /\ ReadIsTrue(r)' /\ AppliedIsRow(r)'
    BY <1>3 DEF LeftBehind, ReadIsTrue, AppliedIsRow
  <2>4. QED
    BY <1>2, <1>4, <2>1, <2>2, <2>3 DEF RunInv
<1>6. \A s \in Runs \ {r} : RunInv(s)' /\ Rests(s)
  BY <1>1, RunUntouched DEF QueueInv
<1>7. Rests(r)
  <2>1. Stage(r) = "busy"
    BY <1>2, <1>4 DEF Stage, Rechecked, RunInv, OneClaim
  <2>2. Stage(r)' = "busy"
    BY <1>3, <1>4 DEF Stage, Rechecked, Undecided
  <2>3. QED
    BY <2>1, <2>2 DEF Rests
<1>8. FoundIsOldest'
  <2>1. Queued' \subseteq Queued
    BY DEF Queued
  <2>2. QED
    BY <2>1 DEF QueueInv, FoundIsOldest
<1>9. SlotsCounted'
  BY DEF QueueInv, SlotsCounted
<1>10. QED
  BY <1>5, <1>6, <1>7, <1>8, <1>9 DEF QueueInv, Advances

(* The steps of startRun() and consumeStream(), one by one.                *)
LEMMA Moved ==
  ASSUME TypeInv, NEW r \in Runs, NEW k \in Claims, NEW pc, NEW run, Move(r, k, pc, run)
  PROVE  /\ starter'[<<r, k>>].pc = pc /\ starter'[<<r, k>>].run = run
         /\ \A s \in Runs \X Claims : s # <<r, k>> => starter'[s] = starter[s]
  BY DEF Move, TypeInv, TypeOK

LEMMA SavedRow ==
  ASSUME TypeInv, NEW r \in Runs, NEW saved, Save(r, saved)
  PROVE  row'[r] = saved /\ \A s \in Runs \ {r} : row'[s] = row[s]
  BY DEF Save, TypeInv, TypeOK

(* A move that saves nothing, or a row whose status is one of a run that   *)
(* has left the queue.                                                     *)
LEMMA MoveQueue ==
  ASSUME TypeInv, TypeOK', LaunchInv, QueueInv, NEW r \in Runs, NEW k \in Claims,
         PastCheck(r, k), starter[<<r, k>>].pc # "prepare",
         NEW pc, NEW run, Move(r, k, pc, run),
         pc \in {"started", "open", "stream", "onStatus", "finalize", "failing"},
         pc = "onStatus" => run \in Rows,
         row' = row \/ \E saved : Save(r, saved) /\ saved.status \notin {"queued", "absent"},
         \A s \in Runs \ {r} : watchdog'[s] = watchdog[s],
         UNCHANGED <<creator, pass, activeRuns>>
  PROVE  QueueInv' /\ Advances
<1>1. row[r].status # "queued"
  BY DEF LaunchInv, QueuedIsFresh, PastCheck
<1>2. /\ row'[r] = row[r] \/ row'[r].status \notin {"queued", "absent"}
      /\ \A s \in Runs \ {r} : row'[s] = row[s]
  <2>1. CASE row' = row
    BY <2>1
  <2>2. CASE \E saved : Save(r, saved) /\ saved.status \notin {"queued", "absent"}
    BY <2>2, SavedRow
  <2>3. QED
    BY <2>1, <2>2
<1>3. starter'[<<r, k>>].pc = pc /\ starter'[<<r, k>>].run = run
      /\ \A s \in Runs \X Claims : s # <<r, k>> => starter'[s] = starter[s]
  BY Moved
<1>4. QED
  BY <1>1, <1>2, <1>3, WorkQueue DEF PastCheck, Undecided

(* A handler reads the row it will settle.                                 *)
LEMMA ReadQueue ==
  ASSUME TypeInv, TypeOK', LaunchInv, QueueInv, NEW r \in Runs, NEW k \in Claims,
         PastCheck(r, k), starter[<<r, k>>].pc # "prepare",
         Move(r, k, "conclude", row[r]) \/ Move(r, k, "giveUp", row[r]),
         UNCHANGED <<row, creator, pass, activeRuns, watchdog>>
  PROVE  QueueInv' /\ Advances
<1>1. /\ starter'[<<r, k>>].pc \in {"conclude", "giveUp"}
      /\ starter'[<<r, k>>].run = row[r]
      /\ \A s \in Runs \X Claims : s # <<r, k>> => starter'[s] = starter[s]
  BY Moved
<1>2. QED
  BY <1>1, WorkQueue DEF PastCheck, Undecided

LEMMA PrepareQueue ==
  ASSUME TypeInv, TypeOK', LaunchInv, QueueInv, NEW r \in Runs, NEW k \in Claims,
         Prepare(r, k)
  PROVE  QueueInv' /\ Advances
<1>1. starter[<<r, k>>].pc = "prepare" /\ Held(r, k).status = "queued"
  BY DEF Prepare, At, LaunchInv, NotYetLaunched, Held
<1>2. CanTransition(ExecutionTransitions, Held(r, k).status, "preparing")
  BY <1>1 DEF CanTransition, ExecutionTransitions
<1>3. Save(r, WithStatus(Held(r, k), "preparing"))
      /\ Move(r, k, "launch", WithStatus(Held(r, k), "preparing"))
      /\ UNCHANGED <<creator, activeRuns, pass, watchdog>>
  BY <1>2 DEF Prepare, SetStatus, memory
<1>4. WithStatus(Held(r, k), "preparing").status = "preparing"
  BY DEF TypeInv, TypeOK, Held, WithStatus, Rows, NoRow
<1>5. row'[r].status = "preparing" /\ \A s \in Runs \ {r} : row'[s] = row[s]
  BY <1>3, <1>4, SavedRow
<1>6. starter'[<<r, k>>].pc = "launch"
      /\ \A s \in Runs \X Claims : s # <<r, k>> => starter'[s] = starter[s]
  BY <1>3, Moved
<1>7. QED
  BY <1>1, <1>3, <1>5, <1>6, WorkQueue DEF Undecided

LEMMA RereadQueue ==
  ASSUME TypeInv, TypeOK', LaunchInv, QueueInv, NEW r \in Runs, NEW k \in Claims,
         Reread(r, k)
  PROVE  QueueInv' /\ Advances
<1>1. starter[<<r, k>>].pc = "reread" /\ UNCHANGED <<row, creator, pass, watchdog>>
  BY DEF Reread, At
<1>2. CASE row[r].status = "queued"
  <2>1. Move(r, k, "prepare", row[r]) /\ UNCHANGED activeRuns
    BY <1>2 DEF Reread
  <2>2. starter'[<<r, k>>].pc = "prepare"
        /\ \A s \in Runs \X Claims : s # <<r, k>> => starter'[s] = starter[s]
    BY <2>1, Moved
  <2>3. QED
    BY <1>1, <1>2, <2>1, <2>2, WorkQueue DEF Undecided
<1>3. CASE row[r].status # "queued"
  BY <1>1, <1>3, GiveBackQueue DEF Reread
<1>4. QED
  BY <1>2, <1>3

LEMMA ReleaseQueue ==
  ASSUME TypeInv, LaunchInv, QueueInv, NEW r \in Runs, NEW k \in Claims, Release(r, k)
  PROVE  QueueInv' /\ Advances
<1>1. /\ starter[<<r, k>>].pc = "release"
      /\ starter' = [starter EXCEPT ![<<r, k>>] = IdleStarter]
      /\ activeRuns' = activeRuns \ {r}
      /\ UNCHANGED <<row, creator, pass, watchdog>>
  BY DEF Release, At
<1>2. row[r].status # "queued"
  BY <1>1 DEF LaunchInv, QueuedIsFresh
<1>3. QED
  BY <1>1, <1>2, GiveBackQueue

(* Both saves that end a run keep a terminal row and else write one.       *)
LEMMA ConcludeQueue ==
  ASSUME TypeInv, TypeOK', LaunchInv, QueueInv, NEW r \in Runs, NEW k \in Claims,
         NEW settled, settled.status \in ExecutionStatus, Terminal(settled),
         starter[<<r, k>>].pc \in {"conclude", "giveUp"},
         SaveUnlessTerminal(r, k, settled), GoTo(r, k, "release"),
         UNCHANGED <<creator, pass, activeRuns, watchdog>>
  PROVE  QueueInv' /\ Advances
<1>1. RunInv(r) /\ PastCheck(r, k) /\ row[r].status # "queued"
  BY DEF QueueInv, PastCheck, LaunchInv, QueuedIsFresh
<1>2. Stored(r) /\ creator[r] # "off"
  BY <1>1 DEF LaunchInv, UntouchedBeforeCreate, RunInv
<1>3. settled.status \notin {"queued", "absent"}
  BY StatusNames, TerminalStatuses DEF Terminal
<1>4. Terminal(row'[r]) /\ row'[r].status \notin {"queued", "absent"}
      /\ \A s \in Runs \ {r} : row'[s] = row[s]
  <2>1. CASE Terminal(Held(r, k))
    <3>1. UNCHANGED row
      BY <2>1 DEF SaveUnlessTerminal, Terminal
    <3>2. Terminal(row[r])
      BY <1>1, <2>1 DEF RunInv, ReadIsTrue, Held
    <3>3. QED
      BY <1>1, <1>2, <3>1, <3>2 DEF Stored
  <2>2. CASE ~Terminal(Held(r, k))
    <3>1. Save(r, settled)
      BY <2>2 DEF SaveUnlessTerminal, Terminal
    <3>2. QED
      BY <1>3, <3>1, SavedRow
  <2>3. QED
    BY <2>1, <2>2
<1>5. starter'[<<r, k>>].pc = "release"
      /\ \A s \in Runs \X Claims : s # <<r, k>> => starter'[s] = starter[s]
  BY Moved DEF GoTo
<1>6. QED
  BY <1>1, <1>4, <1>5, WorkQueue DEF PastCheck

LEMMA StarterQueue ==
  ASSUME TypeInv, TypeOK', LaunchInv, QueueInv, NEW r \in Runs, NEW k \in Claims,
         StarterStep(r, k) \/ BreakStream(r, k)
  PROVE  QueueInv' /\ Advances
<1>a. Held(r, k) \in Rows \cup {NoRow} /\ row[r] \in Rows \cup {NoRow}
  BY DEF TypeInv, TypeOK, Held
<1>b. \A s \in ExecutionStatus : WithStatus(Held(r, k), s).status = s
  BY <1>a DEF WithStatus, Rows, NoRow
<1>1. CASE Reread(r, k)
  BY <1>1, RereadQueue
<1>2. CASE Prepare(r, k)
  BY <1>2, PrepareQueue
<1>3. CASE Launch(r, k)
  <2>1. PastCheck(r, k) /\ starter[<<r, k>>].pc # "prepare"
    BY <1>3 DEF Launch, At, PastCheck
  <2>2. ASSUME NEW pc \in {"started", "failing"}, GoTo(r, k, pc)
        PROVE  QueueInv' /\ Advances
    <3>1. Move(r, k, pc, Held(r, k))
      BY <2>2 DEF GoTo
    <3>2. QED
      BY <1>3, <2>1, <2>2, <3>1, MoveQueue DEF Launch, memory
  <2>3. CASE UNCHANGED starter
    BY <1>3, <2>3, AllUntouched DEF Launch, memory
  <2>4. QED
    BY <1>3, <2>2, <2>3, LaunchMoves
<1>4. CASE Release(r, k)
  BY <1>4, ReleaseQueue
<1>6. CASE MarkRunning(r, k)
  <2>1. PastCheck(r, k) /\ starter[<<r, k>>].pc # "prepare"
    BY <1>6 DEF MarkRunning, At, PastCheck
  <2>2. CASE CanTransition(ExecutionTransitions, Held(r, k).status, "running")
    <3>1. Save(r, WithStatus(Held(r, k), "running"))
          /\ Move(r, k, "open", WithStatus(Held(r, k), "running"))
      BY <1>6, <2>2 DEF MarkRunning, SetStatus
    <3>2. WithStatus(Held(r, k), "running").status = "running"
      BY <1>b, StatusNames
    <3>3. QED
      BY <1>6, <2>1, <3>1, <3>2, MoveQueue DEF MarkRunning, SetStatus, memory
  <2>3. CASE ~CanTransition(ExecutionTransitions, Held(r, k).status, "running")
    <3>1. Move(r, k, "failing", Held(r, k)) /\ row' = row
      BY <1>6, <2>3 DEF MarkRunning, SetStatus, GoTo
    <3>2. QED
      BY <1>6, <2>1, <3>1, MoveQueue DEF MarkRunning, SetStatus, memory
  <2>4. QED
    BY <2>2, <2>3
<1>7. CASE OpenStream(r, k)
  <2>1. PastCheck(r, k) /\ starter[<<r, k>>].pc # "prepare"
    BY <1>7 DEF OpenStream, At, PastCheck
  <2>2. Move(r, k, "stream", Held(r, k))
    BY <1>7 DEF OpenStream, GoTo
  <2>3. \A s \in Runs \ {r} : watchdog'[s] = watchdog[s]
    BY <1>7 DEF OpenStream, TypeInv, TypeOK
  <2>4. QED
    BY <1>7, <2>1, <2>2, <2>3, MoveQueue DEF OpenStream
<1>8. CASE HandleEvent(r, k)
  <2>1. PastCheck(r, k) /\ starter[<<r, k>>].pc # "prepare"
    BY <1>8 DEF HandleEvent, At, PastCheck
  <2>2. CASE Ignored(Head(events[r]), row[r])
    <3>1. UNCHANGED <<starter, row, creator, activeRuns, pass, watchdog>>
      BY <1>8, <2>2 DEF HandleEvent, memory
    <3>2. QED
      BY <3>1, AllUntouched
  <2>3. CASE ~Ignored(Head(events[r]), row[r])
    <3>1. Move(r, k, "onStatus", Applied(Head(events[r]), row[r]))
      BY <1>8, <2>3 DEF HandleEvent
    <3>2. Head(events[r]) \in EventSet
      BY <1>8 DEF HandleEvent, TypeInv, TypeOK
    <3>3. Applied(Head(events[r]), row[r]) \in Rows
      BY <1>a, <3>2, AppliedType
    <3>4. QED
      BY <1>8, <2>1, <3>1, <3>3, MoveQueue DEF HandleEvent, memory
  <2>4. QED
    BY <2>2, <2>3
<1>9. CASE SaveEvent(r, k)
  <2>1. PastCheck(r, k) /\ starter[<<r, k>>].pc # "prepare" /\ Held(r, k).status # "queued"
    BY <1>9 DEF SaveEvent, At, Held, PastCheck, LaunchInv, NeverQueuedAgain
  <2>2. Move(r, k, "stream", Held(r, k)) /\ Save(r, Held(r, k))
    BY <1>9 DEF SaveEvent, GoTo
  <2>3. Held(r, k) \in Rows
    BY <1>9 DEF SaveEvent, At, Held, QueueInv, RunInv, AppliedIsRow
  <2>4. Held(r, k).status # "absent"
    BY <2>3, StatusNames DEF Rows
  <2>5. QED
    BY <1>9, <2>1, <2>2, <2>4, MoveQueue DEF SaveEvent, memory
<1>10. CASE EndStream(r, k) \/ BreakStream(r, k)
  <2>1. CloseStream(r, k)
    BY <1>10 DEF EndStream, BreakStream
  <2>2. PastCheck(r, k) /\ starter[<<r, k>>].pc # "prepare"
    BY <2>1 DEF CloseStream, At, PastCheck
  <2>3. Move(r, k, "finalize", Held(r, k))
    BY <2>1 DEF CloseStream, GoTo
  <2>4. \A s \in Runs \ {r} : watchdog'[s] = watchdog[s]
    BY <2>1 DEF CloseStream, TypeInv, TypeOK
  <2>5. QED
    BY <2>1, <2>2, <2>3, <2>4, MoveQueue DEF CloseStream
<1>11. CASE Finalize(r, k)
  <2>1. PastCheck(r, k) /\ starter[<<r, k>>].pc # "prepare"
    BY <1>11 DEF Finalize, At, PastCheck
  <2>2. Move(r, k, "conclude", row[r]) /\ UNCHANGED <<row, creator, pass, activeRuns, watchdog>>
    BY <1>11 DEF Finalize, memory
  <2>3. QED
    BY <2>1, <2>2, ReadQueue
<1>12. CASE Conclude(r, k)
  <2> DEFINE settled == WithStatus(Held(r, k), FinalStatus(Held(r, k)))
  <2>1. settled.status = FinalStatus(Held(r, k))
    BY <1>b, FinalStatusType
  <2>2. FinalStatus(Held(r, k)) \in {"passed", "partially_passed", "failed", "cancelled"}
    BY OutcomeType DEF FinalStatus
  <2>3. settled.status \in ExecutionStatus /\ Terminal(settled)
    BY <2>1, <2>2, StatusNames, TerminalStatuses DEF Terminal
  <2>4. SaveUnlessTerminal(r, k, settled) /\ GoTo(r, k, "release")
    BY <1>12 DEF Conclude
  <2>5. QED
    BY <1>12, <2>3, <2>4, ConcludeQueue DEF Conclude, At, memory
<1>13. CASE Failing(r, k)
  <2>1. PastCheck(r, k) /\ starter[<<r, k>>].pc # "prepare"
    BY <1>13 DEF Failing, At, PastCheck
  <2>2. Move(r, k, "giveUp", row[r]) /\ UNCHANGED <<row, creator, pass, activeRuns, watchdog>>
    BY <1>13 DEF Failing, memory
  <2>3. QED
    BY <2>1, <2>2, ReadQueue
<1>14. CASE GiveUp(r, k)
  <2> DEFINE settled == [status |-> "failed", metrics |-> NoMetrics]
  <2>1. settled.status \in ExecutionStatus /\ Terminal(settled)
    BY StatusNames, TerminalStatuses DEF Terminal
  <2>2. SaveUnlessTerminal(r, k, settled) /\ GoTo(r, k, "release")
    BY <1>14 DEF GiveUp
  <2>3. QED
    BY <1>14, <2>1, <2>2, ConcludeQueue DEF GiveUp, At, memory
<1>15. QED
  BY <1>1, <1>2, <1>3, <1>4, <1>6, <1>7, <1>8, <1>9, <1>10, <1>11, <1>12, <1>13,
     <1>14
  DEF StarterStep

LEMMA QueueInvStep ==
  ASSUME Requests = {}
  PROVE  TypeInv /\ TypeInv' /\ LaunchInv /\ QueueInv /\ [Next]_vars => QueueInv' /\ Advances
<1> SUFFICES ASSUME TypeInv, TypeOK', LaunchInv, QueueInv, [Next]_vars
             PROVE  QueueInv' /\ Advances
  BY DEF TypeInv
<1>1. ASSUME NEW r \in Runs, PumpCreated(r) PROVE QueueInv' /\ Advances
  BY <1>1, AllUntouched DEF PumpCreated, TypeInv, TypeOK
<1>2. ASSUME NEW r \in Runs, EngineStarts(r) \/ EngineEnds(r) PROVE QueueInv' /\ Advances
  BY <1>2, AllUntouched DEF EngineStarts, EngineEnds, memory
<1>3. CASE UNCHANGED vars
  BY <1>3, AllUntouched DEF vars
<1>4. ASSUME NEW r \in Runs, Create(r) PROVE QueueInv' /\ Advances
  BY <1>4, CreateQueue
<1>5. ASSUME NEW r \in Runs, WatchdogStep(r) PROVE QueueInv' /\ Advances
  BY <1>5, WatchdogQueue
<1>6. ASSUME NEW r \in Runs, NEW k \in Claims, StarterStep(r, k) \/ BreakStream(r, k)
      PROVE  QueueInv' /\ Advances
  BY <1>6, StarterQueue
<1>7. CASE PumpStep
  BY <1>7, FindQueue, NothingToClaimQueue, ClaimQueue DEF PumpStep
<1>8. QED
  BY <1>1, <1>2, <1>3, <1>4, <1>5, <1>6, <1>7 DEF Next

LEMMA QueueInvInit == Init => QueueInv
<1> SUFFICES ASSUME Init PROVE QueueInv
  OBVIOUS
<1>1. SlotsCounted
  <2>1. IsFiniteSet({}) /\ Cardinality({}) = 0
    BY FS_EmptySet
  <2>2. QED
    BY <2>1, LimitAssumption DEF Init, SlotsCounted
<1>2. FoundIsOldest
  BY RunsAssumption DEF Init, FoundIsOldest, NoRun
<1>3. \A r \in Runs : RunInv(r)
  BY DEF Init, RunInv, OneClaim, HoldsSlot, NotYetWatched, LeftBehind, ReadIsTrue, AppliedIsRow, Stored,
         NoRow, IdleStarter
<1>4. QED
  BY <1>1, <1>2, <1>3 DEF QueueInv

LEMMA QueueInit == Init => Queue!Init
  BY DEF Init, Queue!Init, Stage, Stored, NoRow

LEMMA QueueNext == Advances => [Queue!Next]_[r \in Runs |-> Stage(r)]
  BY DEF Advances, Rests

(* Without Stop requests the service implements the queue, for every limit *)
(* and any number of runs, whatever stalls, breaks or times out.           *)
THEOREM ServiceIsAQueue == ASSUME Requests = {} PROVE Spec => QueueContract
<1>1. TypeInv /\ TypeInv' /\ LaunchInv /\ QueueInv /\ [Next]_vars => QueueInv'
  BY QueueInvStep
<1>2. TypeInv /\ TypeInv' /\ LaunchInv /\ QueueInv /\ [Next]_vars
        => [Queue!Next]_[r \in Runs |-> Stage(r)]
  BY QueueInvStep, QueueNext
<1>3. QED
  BY <1>1, <1>2, QueueInvInit, QueueInit, LaunchInvInit, LaunchInvStep, TypeInvHolds, PTL
  DEF Spec, QueueContract, Queue!Spec

(* Without Stop requests there are never more slots taken than the limit,  *)
(* and a run that is being started or streamed holds one.                  *)
THEOREM SlotsAreHeld == ASSUME Requests = {} PROVE Spec => []SlotsHeld
<1>1. TypeInv /\ TypeInv' /\ LaunchInv /\ QueueInv /\ [Next]_vars => QueueInv'
  BY QueueInvStep
<1>2. QueueInv => SlotsHeld
  BY DEF QueueInv, SlotsCounted, RunInv, HoldsSlot, SlotsHeld
<1>3. QED
  BY <1>1, <1>2, QueueInvInit, LaunchInvInit, LaunchInvStep, TypeInvHolds, PTL DEF Spec
=============================================================================
