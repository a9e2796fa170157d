------------------------------ MODULE RunQueue ------------------------------
(***************************************************************************)
(* What the execution queue promises (FR-V3-EXE-012,                       *)
(* executions.service.ts:432 and 493): a run waits until a slot is free,   *)
(* runs are started in the order they were created (two runs of the same   *)
(* instant in either order), each of them once, at most MaxConcurrent      *)
(* slots are held, and the run that gives its slot back is over.           *)
(*                                                                         *)
(* With more than one slot a pass may find a run that is still starting    *)
(* (its row says queued until setStatus(preparing)) and claim it when it   *)
(* is over: the run holds a slot again, for nothing, until startRun() has  *)
(* read its row.                                                           *)
(***************************************************************************)
EXTENDS Naturals, FiniteSets

CONSTANTS Runs, MaxConcurrent, CreatedAt

VARIABLE stage

Stages == {"absent", "waiting", "busy", "over", "again"}

Waiting == {r \in Runs : stage[r] = "waiting"}
Holding == {r \in Runs : stage[r] \in {"busy", "again"}}
SlotIsFree == Cardinality(Holding) < MaxConcurrent

Becomes(r, from, to) == stage[r] = from /\ stage' = [stage EXCEPT ![r] = to]

Init == stage = [r \in Runs |-> "absent"]

Arrive(r) == Becomes(r, "absent", "waiting")

Start(r) ==
  /\ SlotIsFree
  /\ \A s \in Waiting : CreatedAt[r] <= CreatedAt[s]
  /\ Becomes(r, "waiting", "busy")

Finish(r) == Becomes(r, "busy", "over")

TakeAgain(r) == SlotIsFree /\ Becomes(r, "over", "again")
GiveBack(r) == Becomes(r, "again", "over")

Next == \E r \in Runs :
  Arrive(r) \/ Start(r) \/ Finish(r) \/ TakeAgain(r) \/ GiveBack(r)

Spec == Init /\ [][Next]_stage
=============================================================================
