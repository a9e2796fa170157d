------------------------------- MODULE Queries -------------------------------
(***************************************************************************)
(* A query of the frontend (@tanstack/react-query with the defaults of     *)
(* main.tsx): what a page shows of a set that the backend keeps, and the   *)
(* request that is under way for it.  The retries of a request are part of *)
(* losing it.                                                              *)
(***************************************************************************)
CONSTANT Elements      \* what the sets are made of

Query ==
  [known : BOOLEAN,                              \* it has been answered
   data : SUBSET Elements,                       \* what is shown
   fetch : {"idle", "asked", "answered"},
   answer : SUBSET Elements,                     \* what is on its way
   invalid : BOOLEAN,                            \* isInvalidated, without a request
   error : BOOLEAN,                              \* the last answer was lost
   joined : BOOLEAN]                             \* history: an invalidation asked for nothing

Unasked ==
  [known |-> FALSE, data |-> {}, fetch |-> "idle", answer |-> {},
   invalid |-> FALSE, error |-> FALSE, joined |-> FALSE]

Ask(q) ==
  [q EXCEPT !.fetch = "asked", !.answer = {}, !.error = @ /\ q.known, !.joined = FALSE]

(* An interval joins the request that is under way.                        *)
AskIfIdle(q) == IF q.fetch = "idle" THEN Ask(q) ELSE q

(* Mutant: an invalidation leaves what is under way to it. *)
Invalidated_Joins(q, enabled) == AskIfIdle(q)

(* invalidateQueries(): a request under way starts over, but not the first *)
(* one of a query, nor that of a query nobody looks at.                    *)
Invalidated(q, enabled) ==
  IF enabled /\ (q.fetch = "idle" \/ q.known)
  THEN Ask(q)
  ELSE [q EXCEPT !.invalid = TRUE, !.joined = @ \/ q.fetch # "idle"]

Serve(q, answer) == [q EXCEPT !.fetch = "answered", !.answer = answer]

Receive(q) ==
  [q EXCEPT !.known = TRUE, !.data = q.answer, !.fetch = "idle", !.answer = {}, !.invalid = FALSE,
            !.error = FALSE]

Lose(q) == [q EXCEPT !.fetch = "idle", !.answer = {}, !.error = TRUE]

(* Nothing has been asked in vain.                                         *)
Settled(q) == q.known /\ q.fetch = "idle" /\ ~q.error /\ ~q.joined
=============================================================================
