----------------------------- MODULE SequenceAllocator --------------------------
(***************************************************************************)
(* The per-project number allocator of the backend, SequencesService       *)
(* (modules/sequences/sequences.service.ts).  One row of the table         *)
(* project_sequences is modelled: rows are independent and a row is never  *)
(* deleted.  A call is one invocation of next() or raiseTo(); calls run as *)
(* interleaved asynchronous tasks (or in several backend processes) whose  *)
(* only shared state is the row.  Every database round trip is a step.     *)
(***************************************************************************)
EXTENDS Integers, FiniteSets

CONSTANTS
  Calls,        \* the concurrent invocations
  Counts,       \* block sizes asked of next()
  Minima,       \* bounds asked of raiseTo()
  MaxAttempts   \* SequencesService.MAX_ATTEMPTS (25 in the code)

ASSUME CountsAssumption == Counts \subseteq Nat
ASSUME MinimaAssumption == Minima \subseteq Nat
ASSUME AttemptsAssumption == MaxAttempts \in Nat \ {0}

VARIABLES
  nextValue,  \* the row's nextValue, NoRow while the row does not exist
  pc,         \* where a call stands
  op,         \* which method it is
  arg,        \* its count or minimum
  seen,       \* the nextValue its last findOne returned
  attempt,    \* finished loop iterations
  first       \* what next() returned

vars == <<nextValue, pc, op, arg, seen, attempt, first>>

NoRow == 0    \* every stored nextValue is at least 1

Returned == {"granted", "raised"}

TypeOK ==
  /\ nextValue \in Nat
  /\ pc \in [Calls -> {"idle", "read", "write", "conflict"} \cup Returned]
  /\ op \in [Calls -> {"next", "raiseTo"}]
  /\ arg \in [Calls -> Nat]
  /\ seen \in [Calls -> Nat]
  /\ attempt \in [Calls -> 0..MaxAttempts]
  /\ first \in [Calls -> Nat]

Init ==
  /\ nextValue = NoRow
  /\ pc = [c \in Calls |-> "idle"]
  /\ op = [c \in Calls |-> "next"]
  /\ arg = [c \in Calls |-> 0]
  /\ seen = [c \in Calls |-> NoRow]
  /\ attempt = [c \in Calls |-> 0]
  /\ first = [c \in Calls |-> 0]

(* next(projectId, name, n): a count below 1 throws before touching the row. *)
CallNext(c, n) ==
  /\ pc[c] = "idle"
  /\ n >= 1
  /\ pc' = [pc EXCEPT ![c] = "read"]
  /\ op' = [op EXCEPT ![c] = "next"]
  /\ arg' = [arg EXCEPT ![c] = n]
  /\ UNCHANGED <<nextValue, seen, attempt, first>>

CallRaiseTo(c, m) ==
  /\ pc[c] = "idle"
  /\ pc' = [pc EXCEPT ![c] = "read"]
  /\ op' = [op EXCEPT ![c] = "raiseTo"]
  /\ arg' = [arg EXCEPT ![c] = m]
  /\ UNCHANGED <<nextValue, seen, attempt, first>>

(* Mutant: raiseTo does not look at the row before writing. *)
HighEnough_Never(c) == FALSE

(* findOne; raiseTo returns here when the row is already high enough. *)
HighEnough(c) == op[c] = "raiseTo" /\ nextValue # NoRow /\ nextValue > arg[c]

Read(c) ==
  /\ pc[c] = "read"
  /\ attempt[c] < MaxAttempts
  /\ seen' = [seen EXCEPT ![c] = nextValue]
  /\ pc' = [pc EXCEPT ![c] = IF HighEnough(c) THEN "raised" ELSE "write"]
  /\ UNCHANGED <<nextValue, op, arg, attempt, first>>

Answer(c) == IF op[c] = "next" THEN "granted" ELSE "raised"

(* Mutant: the row is read once, before the loop. *)
Retry_StaleRead(c) ==
  /\ pc' = [pc EXCEPT ![c] = IF attempt[c] + 1 < MaxAttempts THEN "write" ELSE "read"]
  /\ attempt' = [attempt EXCEPT ![c] = @ + 1]
  /\ UNCHANGED <<nextValue, op, arg, seen, first>>

(* A lost race: the loop goes round for a fresh read. *)
Retry(c) ==
  /\ pc' = [pc EXCEPT ![c] = "read"]
  /\ attempt' = [attempt EXCEPT ![c] = @ + 1]
  /\ UNCHANGED <<nextValue, op, arg, seen, first>>

(* The write won: the row moves to `value` and the call returns `from`. *)
Won(c, value, from) ==
  /\ nextValue' = value
  /\ pc' = [pc EXCEPT ![c] = Answer(c)]
  /\ first' = [first EXCEPT ![c] = from]
  /\ UNCHANGED <<op, arg, seen, attempt>>

(* insert(...) of a missing row; the unique index (projectId, name) rejects *)
(* it when another writer created the row first.                            *)
Insert(c) ==
  /\ pc[c] = "write" /\ seen[c] = NoRow
  /\ IF nextValue = NoRow
     THEN Won(c, arg[c] + 1, IF op[c] = "next" THEN 1 ELSE 0)
     ELSE Retry(c)

(* Mutant: raiseTo stores the minimum itself. *)
NewValue_AtMinimum(c) == IF op[c] = "next" THEN seen[c] + arg[c] ELSE arg[c]

NewValue(c) == IF op[c] = "next" THEN seen[c] + arg[c] ELSE arg[c] + 1

(* Mutant: a plain UPDATE, without the expected value in its condition. *)
Swap_Blind(c) ==
  /\ pc[c] = "write" /\ seen[c] # NoRow
  /\ Won(c, NewValue(c), IF op[c] = "next" THEN seen[c] ELSE 0)

(* update({id, nextValue: row.nextValue}, ...): affects the row only while  *)
(* it still holds the value that was read.                                  *)
Swap(c) ==
  /\ pc[c] = "write" /\ seen[c] # NoRow
  /\ IF nextValue = seen[c]
     THEN Won(c, NewValue(c), IF op[c] = "next" THEN seen[c] ELSE 0)
     ELSE Retry(c)

(* Mutant: the loop has no exit when its attempts are used up. *)
Exhausted_Never(c) == FALSE /\ UNCHANGED vars

(* Mutant: a loop that ran out goes round once more. *)
Exhausted_GoesOn(c) ==
  /\ pc[c] = "read"
  /\ attempt[c] = MaxAttempts
  /\ pc' = [pc EXCEPT ![c] = "write"]
  /\ attempt' = [attempt EXCEPT ![c] = @ + 1]
  /\ UNCHANGED <<nextValue, op, arg, seen, first>>

(* The loop ran out: next() throws sequence_contention, raiseTo() falls off *)
(* its end and returns like a success.                                      *)
Exhausted(c) ==
  /\ pc[c] = "read"
  /\ attempt[c] = MaxAttempts
  /\ pc' = [pc EXCEPT ![c] = IF op[c] = "next" THEN "conflict" ELSE "raised"]
  /\ UNCHANGED <<nextValue, op, arg, seen, attempt, first>>

Step(c) == Read(c) \/ Insert(c) \/ Swap(c) \/ Exhausted(c)

Next ==
  \E c \in Calls :
    \/ \E n \in Counts : CallNext(c, n)
    \/ \E m \in Minima : CallRaiseTo(c, m)
    \/ Step(c)

Spec == Init /\ [][Next]_vars

(* Every database call answers, so a call that started keeps going. *)
Fairness == \A c \in Calls : WF_vars(Step(c))

FairSpec == Spec /\ Fairness

-----------------------------------------------------------------------------
(* The numbers a next() call handed to its caller. *)
Block(c) == first[c] .. (first[c] + arg[c] - 1)

Granted(c) == pc[c] = "granted"

(* "Parallel generation or import jobs can never receive overlapping       *)
(* ranges" (sequences.service.ts:10): the blocks of two finished next()    *)
(* calls are disjoint, whatever raiseTo() calls run beside them.           *)
DisjointBlocks ==
  \A c, d \in Calls :
    c # d /\ Granted(c) /\ Granted(d) => Block(c) \cap Block(d) = {}

(* What makes the compare-and-swap argument inductive: no loop iteration   *)
(* starts beyond MaxAttempts, every value read is one the row has held,    *)
(* every block handed out lies below the row, and blocks are disjoint.     *)
AttemptLeft == \A c \in Calls : pc[c] = "write" => attempt[c] < MaxAttempts
ReadsArePast == \A c \in Calls : seen[c] <= nextValue
PositiveCount == \A c \in Calls : pc[c] # "idle" /\ op[c] = "next" => arg[c] >= 1
RaiseStillNeeded ==
  \A c \in Calls : pc[c] = "write" /\ op[c] = "raiseTo" => seen[c] <= arg[c]
BlocksBelowRow == \A c \in Calls : Granted(c) => first[c] + arg[c] <= nextValue

GrantedByNext == \A c \in Calls : Granted(c) => op[c] = "next"

LoopInv == AttemptLeft /\ ReadsArePast /\ PositiveCount /\ RaiseStillNeeded
BlocksInv == GrantedByNext /\ BlocksBelowRow /\ DisjointBlocks
AllocatorInv == LoopInv /\ BlocksInv

(* The row never moves backwards, so a number once below it stays taken:   *)
(* raiseTo() may not lower a sequence that concurrent next() calls moved   *)
(* past its minimum between its read and its write.                        *)
NeverRetreats == [][nextValue' >= nextValue]_vars

(* raiseTo() "ensures the sequence will hand out values strictly above     *)
(* `minimum`" (sequences.service.ts:53): once it has returned, the row is  *)
(* above the minimum for good, unless it had run out of attempts, which it *)
(* does not report.                                                        *)
RaisedUnlessExhausted ==
  \A c \in Calls :
    pc[c] = "raised" /\ attempt[c] < MaxAttempts => nextValue > arg[c]

(* Lost races are never for nothing: a call has gone round at most as many *)
(* times as other calls returned, so contention among fewer than           *)
(* MaxAttempts writers cannot surface as sequence_contention.              *)
RetriesPaidByOthers ==
  \A c \in Calls :
    attempt[c] <= Cardinality({d \in Calls \ {c} : pc[d] \in Returned})

(* Every call that started returns or throws: the retry loop of next() and *)
(* raiseTo() is bounded.                                                   *)
EveryCallReturns ==
  \A c \in Calls : pc[c] = "read" ~> pc[c] \in Returned \cup {"conflict"}
=============================================================================
