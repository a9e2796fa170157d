------------------------------ MODULE MCSettles ------------------------------
(***************************************************************************)
(* TLC instances of a started run, composed with the page that follows it  *)
(* and sends its Stop requests; and of the notifications that runs and     *)
(* jobs leave to their user.  The bell shares no state with the run, so    *)
(* each behaviour moves the run with its page or the bell, its focus; or,  *)
(* without the page, a run of a service with two slots, where it can be    *)
(* claimed twice, and whose POST to the engine may be sent again.          *)
(***************************************************************************)
EXTENDS MCExecutions, Notifications

VARIABLES
  focus,                        \* what moves
  live                          \* the page of the run

TheRun == 1
Live == INSTANCE LivePage WITH status <- row[TheRun].status
TwoSlots == INSTANCE Executions WITH MaxConcurrent <- 2, MaxAttempts <- 2,
                                     Stalls <- FALSE

(* A request that is sent waits for its answer; it may give up.            *)
Sent == {q \in Requests : request[q].pc # "off"}
Answered(pc) == \E q \in Sent : request[q].pc = pc

MCInit == focus \in {"run", "slots", "bell"} /\ Init /\ Live!LiveInit /\ NoteInit

RunAndPage ==
  \/ Next /\ UNCHANGED live /\ Sent' = Sent
  \/ Stored(TheRun) /\ Live!LiveStep /\ UNCHANGED vars
  \/ Live!PressStop /\ \E q \in Requests : Stop(q, TheRun)
  \/ Answered("done") /\ Live!StopDone /\ UNCHANGED vars
  \/ (Answered("done") \/ Answered("refused")) /\ Live!StopRefused /\ UNCHANGED vars

MCNext ==
  \/ focus = "run" /\ RunAndPage /\ UNCHANGED <<focus, noteVars>>
  \/ focus = "slots" /\ TwoSlots!Next /\ UNCHANGED <<focus, live, noteVars>>
  \/ focus = "bell" /\ NoteNext /\ UNCHANGED <<focus, vars, live>>

(* The interval of a query fires again and again and the backend answers;  *)
(* not every answer is lost.  The bell's interval is due for ever, so its  *)
(* fairness speaks of the behaviours that move it.                         *)
PageFairness ==
  /\ WF_live(focus = "run" /\ Stored(TheRun) /\ Live!PollRun)
  /\ WF_live(focus = "run" /\ Stored(TheRun) /\ Live!ServeRun)
  /\ WF_noteVars(focus = "bell" /\ PollCount)
  /\ WF_noteVars(focus = "bell" /\ ServeCount)
  /\ SF_<<live, noteVars>>(\/ focus = "run" /\ Stored(TheRun) /\ Live!ReceiveRun /\ UNCHANGED noteVars
                           \/ focus = "bell" /\ ReceiveCount /\ UNCHANGED live)

MCSpec ==
  /\ MCInit /\ [][MCNext]_<<focus, vars, live, noteVars>>
  /\ Fairness /\ PageFairness

-----------------------------------------------------------------------------
(* A page that has seen its run comes to see it end, once the run has left *)
(* the queue: whatever the engine, the stream and a Stop request do to it, *)
(* the service settles it, and whichever answers are lost, the interval of *)
(* ExecutionLivePage asks again (refetchInterval).  Not a page whose first *)
(* request was lost: it never asks again.                                  *)
EndIsShown ==
  live.shown = "active" /\ row[TheRun].status # "queued" ~> live.shown = "over"
=============================================================================
