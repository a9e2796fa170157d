------------------------------ MODULE LivePage ------------------------------
(***************************************************************************)
(* The page that follows one run (ExecutionLivePage): the query of the run *)
(* with its interval, the Stop button and the refetch after its answer.    *)
(* The timeline and the logs of the page are LiveFeed's; Restart leaves    *)
(* the page for that of another run.                                       *)
(***************************************************************************)
EXTENDS StateMachines

VARIABLES
  status,     \* the stored status of the run, which others change
  live        \* the query, and whether Stop waits for its answer

(* The page tells the runs that may change from the others.                *)
Active == {"queued", "preparing", "running", "stopping"}
Seen(s) == IF s \in Active THEN "active" ELSE "over"

LiveTypeOK ==
  live \in [shown : {"nothing", "active", "over"},
            fetch : {"idle", "asked", "active", "over"}, stopping : BOOLEAN]

LiveInit == live = [shown |-> "nothing", fetch |-> "asked", stopping |-> FALSE]

-----------------------------------------------------------------------------
(* refetchInterval: not before the run is known.                           *)
Interval == live.shown = "active"

PollRun ==
  /\ Interval /\ live.fetch = "idle"
  /\ live' = [live EXCEPT !.fetch = "asked"]

ServeRun ==
  /\ live.fetch = "asked"
  /\ live' = [live EXCEPT !.fetch = Seen(status)]

Answered == live.fetch \in {"active", "over"}

ReceiveRun ==
  /\ Answered
  /\ live' = [live EXCEPT !.shown = live.fetch, !.fetch = "idle"]

LoseRun ==
  /\ Answered
  /\ live' = [live EXCEPT !.fetch = "idle"]

(* The button is there while the run is not known to be over.              *)
PressStop ==
  /\ live.shown # "over" /\ ~live.stopping
  /\ live' = [live EXCEPT !.stopping = TRUE]

(* onSuccess: a request under way starts over, but not the first.          *)
StopDone ==
  /\ live.stopping
  /\ live' = [live EXCEPT !.stopping = FALSE,
                          !.fetch = IF live.shown = "nothing" /\ @ # "idle" THEN @ ELSE "asked"]

(* 409, or the answer is lost.                                             *)
StopRefused ==
  /\ live.stopping
  /\ live' = [live EXCEPT !.stopping = FALSE]

LiveStep == PollRun \/ ServeRun \/ ReceiveRun \/ LoseRun
=============================================================================
