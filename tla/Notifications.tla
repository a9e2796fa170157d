---------------------------- MODULE Notifications ----------------------------
(***************************************************************************)
(* The notifications of one user: the jobs and runs that leave them        *)
(* (modules/notifications, its callers), the bell with its badge and its   *)
(* panel (NotificationBell), and the requests that mark them as read.      *)
(***************************************************************************)
EXTENDS Naturals, FiniteSets, FiniteSetsExt

CONSTANTS
  Sources,       \* jobs and runs that the user has started
  MaxNotes,      \* bound: notifications that are stored
  MaxMarks,      \* bound: requests to mark that are under way together
  ListLimit      \* length of the list; 50 in the code

VARIABLES
  source,        \* jobs and runs: notifications they have still to leave
  note,          \* notifications, in the order they were stored
  count, panel,  \* the queries: the unread notifications they have counted or shown
  open,          \* the panel is open
  mark,          \* the requests to mark one, or all
  acked          \* history: notifications whose mark was answered
noteVars == <<source, note, count, panel, open, mark, acked>>

Notes == 1..MaxNotes
AllNotes == 0
Marks == Notes \cup {AllNotes}

Q == INSTANCE Queries WITH Elements <- Notes

NoteTypeOK ==
  /\ \A s \in Sources : source[s].state \in {"active", "telling", "emitting", "done"}
                        /\ source[s].left \in 0..2
  /\ note \in [Notes -> {"absent", "unread", "read"}]
  /\ count \in Q!Query /\ panel \in Q!Query
  /\ open \in BOOLEAN
  /\ mark \in [Marks -> {"idle", "asked", "answered"}]
  /\ acked \subseteq Notes

NoteInit ==
  /\ source = [s \in Sources |-> [state |-> "active", left |-> 0]]
  /\ note = [n \in Notes |-> "absent"]
  /\ count = Q!Ask(Q!Unasked) /\ panel = Q!Unasked
  /\ open = FALSE
  /\ mark = [m \in Marks |-> "idle"]
  /\ acked = {}

-----------------------------------------------------------------------------
Unread == {n \in Notes : note[n] = "unread"}
StoredNotes == {n \in Notes : note[n] # "absent"}
Free == Notes \ StoredNotes

(* What the list shows: the newest.                                        *)
Newest == {n \in StoredNotes : Cardinality({m \in StoredNotes : m > n}) < ListLimit}

SourceIs(s, state, left) == source' = [source EXCEPT ![s] = [state |-> state, left |-> left]]

(* notifyFinished(), finalize(): a failure leaves one notification, as     *)
(* does a run; what is generated leaves a second one, for its approval; a  *)
(* cancelled job leaves none.                                              *)
Finish(s) ==
  /\ source[s].state = "active"
  /\ \/ \E left \in 1..2 : SourceIs(s, "telling", left)
     \/ SourceIs(s, "done", 0)
  /\ UNCHANGED <<note, count, panel, open, mark, acked>>

Told(s) ==
  LET left == source[s].left - 1 IN
  IF left = 0 THEN SourceIs(s, "done", 0) ELSE SourceIs(s, "telling", left)

(* notify() never fails: what cannot be stored is passed over.             *)
Notify(s) ==
  /\ source[s].state = "telling"
  /\ \/ /\ Free # {}
        /\ note' = [note EXCEPT ![Min(Free)] = "unread"]
        /\ SourceIs(s, "emitting", source[s].left)
     \/ Told(s) /\ UNCHANGED note
  /\ UNCHANGED <<count, panel, open, mark, acked>>

Invalidate ==
  /\ count' = Q!Invalidated(count, TRUE)
  /\ panel' = Q!Invalidated(panel, open)

(* The envelope reaches the sockets of the user that are connected, if one *)
(* of them belongs to a page that listens.                                 *)
EmitNotification(s) ==
  /\ source[s].state = "emitting"
  /\ Invalidate \/ UNCHANGED <<count, panel>>
  /\ Told(s)
  /\ UNCHANGED <<note, open, mark, acked>>

-----------------------------------------------------------------------------
(* The bell.                                                               *)
(* Mutant: only the first count is asked for. *)
PollDue_UntilKnown == ~count.known

PollDue == TRUE

PollCount ==
  /\ PollDue /\ count.fetch = "idle"
  /\ count' = Q!AskIfIdle(count)
  /\ UNCHANGED <<source, note, panel, open, mark, acked>>

ServeCount ==
  /\ count.fetch = "asked"
  /\ count' = Q!Serve(count, Unread)
  /\ UNCHANGED <<source, note, panel, open, mark, acked>>

ReceiveCount ==
  /\ count.fetch = "answered"
  /\ count' = Q!Receive(count)
  /\ UNCHANGED <<source, note, panel, open, mark, acked>>

LoseCount ==
  /\ count.fetch = "answered"
  /\ count' = Q!Lose(count)
  /\ UNCHANGED <<source, note, panel, open, mark, acked>>

(* The list is enabled: it is asked for unless it is known and young, and  *)
(* no invalidation is without its answer.                                  *)
OpenPanel ==
  /\ ~open /\ open' = TRUE
  /\ \/ panel' = Q!AskIfIdle(panel)
     \/ panel.known /\ ~panel.invalid /\ ~panel.error /\ UNCHANGED panel
  /\ UNCHANGED <<source, note, count, mark, acked>>

ClosePanel ==
  /\ open /\ open' = FALSE
  /\ UNCHANGED <<source, note, count, panel, mark, acked>>

ServePanel ==
  /\ panel.fetch = "asked"
  /\ panel' = Q!Serve(panel, Newest \cap Unread)
  /\ UNCHANGED <<source, note, count, open, mark, acked>>

ReceivePanel ==
  /\ panel.fetch = "answered"
  /\ panel' = Q!Receive(panel)
  /\ UNCHANGED <<source, note, count, open, mark, acked>>

LosePanel ==
  /\ panel.fetch = "answered"
  /\ panel' = Q!Lose(panel)
  /\ UNCHANGED <<source, note, count, open, mark, acked>>

-----------------------------------------------------------------------------
(* Marks.                                                                  *)
Pressable(m) == mark[m] = "idle" /\ Cardinality({x \in Marks : mark[x] # "idle"}) < MaxMarks

MarkIs(m, pc) == mark' = [mark EXCEPT ![m] = pc]

PressRead(n) ==
  /\ open /\ n \in panel.data /\ Pressable(n)
  /\ MarkIs(n, "asked")
  /\ UNCHANGED <<source, note, count, panel, open, acked>>

PressAll ==
  /\ open /\ count.data # {} /\ Pressable(AllNotes)
  /\ MarkIs(AllNotes, "asked")
  /\ UNCHANGED <<source, note, count, panel, open, acked>>

MarkRead(n) ==
  /\ mark[n] = "asked"
  /\ note' = [note EXCEPT ![n] = "read"]
  /\ MarkIs(n, "answered")
  /\ UNCHANGED <<source, count, panel, open, acked>>

(* What has been stored since the panel was drawn is marked, too.          *)
MarkAllRead ==
  /\ mark[AllNotes] = "asked"
  /\ note' = [n \in Notes |-> IF n \in Unread THEN "read" ELSE note[n]]
  /\ MarkIs(AllNotes, "answered")
  /\ UNCHANGED <<source, count, panel, open, acked>>

(* Mutant: a mark refreshes the badge only. *)
Refresh_Badge == count' = Q!Invalidated(count, TRUE) /\ UNCHANGED panel

Refresh == Invalidate

Marked(m) ==
  /\ mark[m] = "answered"
  /\ MarkIs(m, "idle")
  /\ acked' = {n \in Notes : note[n] = "read"}
  /\ Refresh
  /\ UNCHANGED <<source, note, open>>

LoseMark(m) ==
  /\ mark[m] = "answered"
  /\ MarkIs(m, "idle")
  /\ UNCHANGED <<source, note, count, panel, open, acked>>

NoteNext ==
  \/ \E s \in Sources : Finish(s) \/ Notify(s) \/ EmitNotification(s)
  \/ PollCount \/ ServeCount \/ ReceiveCount \/ LoseCount
  \/ OpenPanel \/ ClosePanel \/ ServePanel \/ ReceivePanel \/ LosePanel
  \/ \E n \in Notes : PressRead(n) \/ MarkRead(n)
  \/ PressAll \/ MarkAllRead
  \/ \E m \in Marks : Marked(m) \/ LoseMark(m)

(* The interval of the badge goes on and the backend answers; not every    *)
(* answer is lost.                                                         *)
NoteFairness == WF_noteVars(PollCount) /\ WF_noteVars(ServeCount) /\ SF_noteVars(ReceiveCount)

NoteSpec == NoteInit /\ [][NoteNext]_noteVars /\ NoteFairness

-----------------------------------------------------------------------------
(* What is marked as read is neither counted nor shown as unread any more  *)
(* when the refetch that the mark has asked for is answered, whichever     *)
(* polls and envelopes it races (onSuccess of the mutations).              *)
MarksAreSeen ==
  /\ Q!Settled(count) => count.data \cap acked = {}
  /\ open /\ Q!Settled(panel) => panel.data \cap acked = {}

(* "the bell also polls as a fallback" (NotificationBell.tsx:4-5): again   *)
(* and again the badge counts every notification that nobody has read,     *)
(* although envelopes and any number of answers are lost.                  *)
UnreadIsSeen == []<>(Unread \subseteq count.data)
=============================================================================
