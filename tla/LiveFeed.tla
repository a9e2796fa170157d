------------------------------ MODULE LiveFeed ------------------------------
(***************************************************************************)
(* A live stream of numbered lines, from the service that writes them to   *)
(* the console that shows them.  The three streams of the system share the *)
(* protocol and differ in its order, its numbers and its replay:           *)
(*                                                                         *)
(*   log       ExecutionLoggerService -> ExecutionLogConsole               *)
(*   timeline  consumeStream, EventsService -> useExecutionEvents          *)
(*   job       JobsService.log -> LiveJobConsole                           *)
(*                                                                         *)
(* A console replays the stored lines when it is opened and when its       *)
(* socket connects again, and appends what the socket brings in between.   *)
(* The socket is in the room of the run some time after it has connected   *)
(* (EventsGateway.handleConnection awaits the membership check).           *)
(***************************************************************************)
EXTENDS Naturals, FiniteSets, FiniteSetsExt

CONSTANTS
  Writers,      \* code that writes lines of one run: its stream, Stop requests
  MaxLines,     \* bound: lines written
  MaxAsks,      \* bound: replays a console waits for at a time
  Page          \* lines of an answer at most (5000 or 2000 in the code)

VARIABLES
  feed,         \* which of the three streams
  counter,      \* the number given last, in memory
  seeded,       \* log: the counter was read from the table
  seeding,      \* log: the writer whose read of the table the others wait for
  writer,       \* the write in progress of each writer
  lines,        \* lines written; a line is identified by its turn
  storedLines,  \* the table
  over,         \* the run has ended
  socket,       \* the socket of the console
  feedPage,     \* what the console holds
  asks,         \* replays under way
  delivered,    \* history: lines that have reached this console
  resumed,      \* history: a replay read in the room has arrived: whole or a tail
  unsafe        \* history: a line was not stored, or a counter dropped in between

serverVars == <<feed, counter, seeded, seeding, writer, lines, storedLines, over>>
pageVars == <<socket, feedPage, asks, delivered, resumed>>
feedVars == <<serverVars, pageVars, unsafe>>

NumberedLine == [seq : Nat \ {0}, line : 1..MaxLines]
(* joined: the socket has been in the room since the replay was read, and  *)
(* nothing was left out of the answer.                                     *)
Ask == [from : Nat, read : BOOLEAN, joined : BOOLEAN, rows : SUBSET NumberedLine]

NotWriting == [pc |-> "idle", on |-> {}, base |-> 0, seq |-> 0, line |-> 0]
Opened == [rows |-> {}, lastSeq |-> 0, connectedOnce |-> FALSE]
AskFrom(from) == [from |-> from, read |-> FALSE, joined |-> FALSE, rows |-> {}]

FeedTypeOK ==
  /\ feed \in {"log", "timeline", "job"}
  /\ counter \in Nat /\ seeded \in BOOLEAN
  /\ seeding \subseteq Writers /\ Cardinality(seeding) <= 1
  /\ \A w \in Writers : /\ writer[w].pc \in {"idle", "read", "seed", "wait", "take", "save", "emit"}
                        /\ writer[w].on \subseteq Writers
                        /\ writer[w].base \in Nat /\ writer[w].seq \in Nat
                        /\ writer[w].line \in 0..MaxLines
  /\ lines \in 0..MaxLines
  /\ storedLines \subseteq NumberedLine
  /\ over \in BOOLEAN
  /\ socket \in {"off", "connected", "joined", "closed"}
  /\ feedPage.rows \subseteq NumberedLine
  /\ feedPage.lastSeq \in Nat /\ feedPage.connectedOnce \in BOOLEAN
  /\ asks \subseteq Ask
  /\ delivered \subseteq 1..MaxLines
  /\ resumed \in {"no", "tail", "whole"}
  /\ unsafe \in BOOLEAN

FeedInit ==
  /\ feed \in {"log", "timeline", "job"}
  /\ counter = 0 /\ seeded = FALSE /\ seeding = {}
  /\ writer = [w \in Writers |-> NotWriting]
  /\ lines = 0
  /\ storedLines = {}
  /\ over = FALSE
  /\ socket = "off" /\ feedPage = Opened /\ asks = {AskFrom(0)}
  /\ delivered = {} /\ resumed = "no"
  /\ unsafe = FALSE

-----------------------------------------------------------------------------
WriterAt(w, pc) == writer[w].pc = pc
WriterIs(w, r) == writer' = [writer EXCEPT ![w] = r]
WriterGoes(w, pc) == WriterIs(w, IF pc = "idle" THEN NotWriting ELSE [writer[w] EXCEPT !.pc = pc])
SeqsOf(rows) == {r.seq : r \in rows}
HighestOf(rows) == IF rows = {} THEN 0 ELSE Max(SeqsOf(rows))
InFlight == {w \in Writers : ~WriterAt(w, "idle")}

(* Mutant: a line behind the newest one is taken for a repetition. *)
Fresh_NewerOnly(rows) == {r \in rows : r.seq > feedPage.lastSeq}

(* A number that a log has is not shown again; the timeline replaces it.   *)
Fresh(rows) ==
  IF feed = "timeline" THEN rows
  ELSE {r \in rows : r.seq \notin SeqsOf(feedPage.rows)}

(* Mutant: a replay takes the place of what is shown. *)
AppendRows_Replaces(rows) ==
  /\ feedPage' = [feedPage EXCEPT !.rows = rows, !.lastSeq = HighestOf(rows)]
  /\ delivered' = delivered \cup {r.line : r \in rows}

AppendRows(rows) ==
  LET fresh == Fresh(rows)
      kept == {r \in feedPage.rows : r.seq \notin SeqsOf(fresh)}
  IN  /\ feedPage' = [feedPage EXCEPT !.rows = kept \cup fresh,
                              !.lastSeq = Max({feedPage.lastSeq} \cup SeqsOf(fresh))]
      /\ delivered' = delivered \cup {r.line : r \in rows}

(* EventsService.emit and EventsGateway.broadcast reach sockets in a room. *)
Broadcast(seq, line) ==
  IF socket = "joined"
  THEN AppendRows({[seq |-> seq, line |-> line]})
  ELSE UNCHANGED <<feedPage, delivered>>

-----------------------------------------------------------------------------
(* The server writes a line.                                               *)

(* log: the counter is read from the table by the first write; writes that *)
(* come meanwhile wait for that read.                                      *)
StartWrite(w) ==
  /\ WriterAt(w, "idle") /\ lines + Cardinality(InFlight) < MaxLines
  /\ \/ /\ feed # "log" \/ seeded
        /\ WriterGoes(w, "take")
        /\ UNCHANGED seeding
     \/ /\ feed = "log" /\ ~seeded
        /\ WriterIs(w, [NotWriting EXCEPT !.pc = IF seeding = {} THEN "read" ELSE "wait",
                                          !.on = seeding])
        /\ seeding' = IF seeding = {} THEN {w} ELSE seeding
  /\ UNCHANGED <<feed, counter, seeded, lines, storedLines, over, pageVars, unsafe>>

ReadHighest(w) ==
  /\ WriterAt(w, "read")
  /\ WriterIs(w, [NotWriting EXCEPT !.pc = "seed", !.base = HighestOf(storedLines)])
  /\ UNCHANGED <<feed, counter, seeded, seeding, lines, storedLines, over, pageVars, unsafe>>

Waiting(w) == {v \in Writers : v = w \/ w \in writer[v].on}

(* Mutant: the counter is not read from the table. *)
SeededCounter_Kept(w) == counter

SeededCounter(w) == Max({counter, writer[w].base})

Seed(w) ==
  /\ WriterAt(w, "seed")
  /\ counter' = SeededCounter(w)
  /\ seeded' = TRUE /\ seeding' = {}
  /\ writer' = [v \in Writers |-> IF v \in Waiting(w) THEN [NotWriting EXCEPT !.pc = "take"]
                                  ELSE writer[v]]
  /\ UNCHANGED <<feed, lines, storedLines, over, pageVars, unsafe>>

(* The read fails, and the writes that waited for it; the next write takes *)
(* the counter as it is.                                                   *)
FailSeed(w) ==
  /\ WriterAt(w, "read")
  /\ seeded' = TRUE /\ seeding' = {}
  /\ writer' = [v \in Writers |-> IF v \in Waiting(w) THEN NotWriting ELSE writer[v]]
  /\ unsafe' = TRUE
  /\ UNCHANGED <<feed, counter, lines, storedLines, over, pageVars>>

(* Mutant: the line is sent before it is stored. *)
TakeNumber_Sends(w) ==
  /\ feed # "timeline" /\ WriterAt(w, "take")
  /\ counter' = counter + 1
  /\ lines' = lines + 1
  /\ Broadcast(counter', lines')
  /\ WriterIs(w, [NotWriting EXCEPT !.pc = "save", !.seq = counter', !.line = lines'])
  /\ UNCHANGED <<feed, seeded, seeding, storedLines, over, socket, asks, resumed, unsafe>>

(* log, job: the line is numbered, stored, then sent.                      *)
TakeNumber(w) ==
  /\ feed # "timeline" /\ WriterAt(w, "take")
  /\ counter' = counter + 1
  /\ lines' = lines + 1
  /\ WriterIs(w, [NotWriting EXCEPT !.pc = "save", !.seq = counter', !.line = lines'])
  /\ UNCHANGED <<feed, seeded, seeding, storedLines, over, pageVars, unsafe>>

(* timeline: events.emit() numbers and sends the event, then it is stored. *)
EmitEvent(w) ==
  /\ feed = "timeline" /\ WriterAt(w, "take")
  /\ counter' = counter + 1
  /\ lines' = lines + 1
  /\ Broadcast(counter', lines')
  /\ WriterIs(w, [NotWriting EXCEPT !.pc = "save", !.seq = counter', !.line = lines'])
  /\ UNCHANGED <<feed, seeded, seeding, storedLines, over, socket, asks, resumed, unsafe>>

AfterSave == IF feed = "timeline" THEN "idle" ELSE "emit"

SaveLine(w) ==
  /\ WriterAt(w, "save")
  /\ storedLines' = storedLines \cup {[seq |-> writer[w].seq, line |-> writer[w].line]}
  /\ WriterGoes(w, AfterSave)
  /\ UNCHANGED <<feed, counter, seeded, seeding, lines, over, pageVars, unsafe>>

(* A line that cannot be stored is sent all the same; a Stop request sends *)
(* status events that are not stored at all.                               *)
LoseLine(w) ==
  /\ WriterAt(w, "save")
  /\ unsafe' = TRUE
  /\ WriterGoes(w, AfterSave)
  /\ UNCHANGED <<feed, counter, seeded, seeding, lines, storedLines, over, pageVars>>

EmitLine(w) ==
  /\ WriterAt(w, "emit")
  /\ Broadcast(writer[w].seq, writer[w].line)
  /\ WriterGoes(w, "idle")
  /\ UNCHANGED <<feed, counter, seeded, seeding, lines, storedLines, over, socket, asks, resumed,
                 unsafe>>

(* onStatusEvent(): the row says so before finalize() writes its lines.    *)
EndRun ==
  /\ ~over
  /\ over' = TRUE
  /\ UNCHANGED <<feed, counter, seeded, seeding, writer, lines, storedLines, pageVars, unsafe>>

(* release() at the end of finalize(), the end of execute(): other writers *)
(* may still write.  The numbers of the events are not released.           *)
Release ==
  /\ feed # "timeline" /\ over /\ counter > 0
  /\ counter' = 0 /\ seeded' = FALSE /\ seeding' = {}
  /\ unsafe' = (unsafe \/ feed = "job" \/ InFlight # {})
  /\ UNCHANGED <<feed, writer, lines, storedLines, over, pageVars>>

LeaveRoom(asked) ==
  /\ asks' = {[a EXCEPT !.joined = FALSE] : a \in asked}
  /\ resumed' = "no"

(* The backend restarts.  Only the execution log finds its numbers again,  *)
(* a timeline when a console happens to read from it.                      *)
Restart ==
  /\ counter > 0
  /\ counter' = 0 /\ seeded' = FALSE /\ seeding' = {}
  /\ writer' = [w \in Writers |-> NotWriting]
  /\ socket' = IF socket = "closed" THEN "closed" ELSE "off"
  /\ LeaveRoom({})
  /\ unsafe' = (unsafe \/ feed # "log" \/ InFlight # {})
  /\ UNCHANGED <<feed, lines, storedLines, over, feedPage, delivered>>

-----------------------------------------------------------------------------
(* The console.                                                            *)

(* job: everything is replayed; log and timeline continue after lastSeq.   *)
ReplayFrom == IF feed = "job" THEN 0 ELSE feedPage.lastSeq

(* useSocket: the first connection replays nothing, the mount did.         *)
Connect ==
  /\ socket = "off" /\ Cardinality(asks) < MaxAsks
  /\ socket' = "connected"
  /\ feedPage' = [feedPage EXCEPT !.connectedOnce = TRUE]
  /\ asks' = IF feedPage.connectedOnce THEN asks \cup {AskFrom(ReplayFrom)} ELSE asks
  /\ UNCHANGED <<serverVars, delivered, resumed, unsafe>>

Join ==
  /\ socket = "connected"
  /\ socket' = "joined"
  /\ UNCHANGED <<serverVars, feedPage, asks, delivered, resumed, unsafe>>

Disconnect ==
  /\ socket \in {"connected", "joined"}
  /\ socket' = "off"
  /\ LeaveRoom(asks)
  /\ UNCHANGED <<serverVars, feedPage, delivered, unsafe>>

(* useExecutionEvents: the project of the run becomes known, a new socket. *)
Resubscribe ==
  /\ feed = "timeline" /\ socket \in {"connected", "joined"}
  /\ socket' = "off"
  /\ feedPage' = [feedPage EXCEPT !.connectedOnce = FALSE]
  /\ LeaveRoom(asks)
  /\ UNCHANGED <<serverVars, delivered, unsafe>>

Reload ==
  /\ feedPage # Opened
  /\ socket' = "off" /\ feedPage' = Opened /\ asks' = {AskFrom(0)}
  /\ delivered' = {} /\ resumed' = "no"
  /\ UNCHANGED <<serverVars, unsafe>>

(* ExecutionLivePage polls the run and closes its sockets when it is over. *)
PollRun ==
  /\ feed # "job" /\ over /\ socket # "closed"
  /\ socket' = "closed"
  /\ LeaveRoom(asks)
  /\ UNCHANGED <<serverVars, feedPage, delivered, unsafe>>

(* fetch(), getEvents(), getLogs(): the oldest lines after from, one page. *)
LinesAfter(from) == {r \in storedLines : r.seq > from}
AnswerTo(from) ==
  {r \in LinesAfter(from) : Cardinality({q \in LinesAfter(from) : q.seq < r.seq}) < Page}

(* getEvents() primes the counter with the last event it returns.          *)
Primed(rows) == IF feed = "timeline" THEN Max({counter, HighestOf(rows)}) ELSE counter

ReadStored(a) ==
  /\ ~a.read
  /\ LET rows == AnswerTo(a.from)
         whole == rows = LinesAfter(a.from)
     IN  /\ asks' = (asks \ {a}) \cup
                    {[a EXCEPT !.read = TRUE, !.joined = socket = "joined" /\ whole, !.rows = rows]}
         /\ counter' = Primed(rows)
  /\ UNCHANGED <<feed, seeded, seeding, writer, lines, storedLines, over, socket, feedPage,
                 delivered, resumed, unsafe>>

ReceiveReplay(a) ==
  /\ a.read
  /\ asks' = asks \ {a}
  /\ AppendRows(a.rows)
  /\ resumed' = IF ~a.joined \/ resumed = "whole" THEN resumed
                ELSE IF a.from = 0 THEN "whole" ELSE "tail"
  /\ UNCHANGED <<serverVars, socket, unsafe>>

(* "Replay is best-effort".                                                *)
FailReplay(a) ==
  /\ asks' = asks \ {a}
  /\ UNCHANGED <<serverVars, socket, feedPage, delivered, resumed, unsafe>>

Writer(w) ==
  \/ StartWrite(w) \/ ReadHighest(w) \/ Seed(w) \/ FailSeed(w) \/ TakeNumber(w)
  \/ EmitEvent(w) \/ SaveLine(w) \/ LoseLine(w) \/ EmitLine(w)

Server == EndRun \/ Release \/ Restart

Console ==
  \/ Connect \/ Join \/ Disconnect \/ Resubscribe \/ Reload \/ PollRun
  \/ \E a \in asks : ReadStored(a) \/ ReceiveReplay(a) \/ FailReplay(a)

FeedNext == (\E w \in Writers : Writer(w)) \/ Server \/ Console

FeedSpec == FeedInit /\ [][FeedNext]_feedVars

-----------------------------------------------------------------------------
(* No two lines have one number, also after a restart of the backend or    *)
(* the end of a run, unless a line was not stored, its number was forgotten *)
(* while it was written, or the stream has no memory of its numbers.       *)
NumbersUnique ==
  LET numbered == storedLines \cup feedPage.rows \cup
        {[seq |-> writer[w].seq, line |-> writer[w].line] :
           w \in {v \in Writers : writer[v].line > 0}}
  IN  ~unsafe => \A r, q \in numbered : r.seq = q.seq => r = q

(* What has reached the console is shown: neither a replay nor the removal *)
(* of repetitions drops a line, whatever the order it arrives in.          *)
DeliveredIsShown ==
  ~unsafe => delivered = {r.line : r \in feedPage.rows}

(* "a refresh/reconnect resumes" (ExecutionLogConsole.tsx:6): what a log   *)
(* shows can be read again.                                                *)
ShownIsStored ==
  feed # "timeline" /\ ~unsafe => feedPage.rows \subseteq storedLines

(* A log that was read from its start by a console in the room is shown    *)
(* without a gap while the socket stays there: a line is in the answer or  *)
(* still to be sent.                                                       *)
WholeReplayHasNoGap ==
  feed # "timeline" /\ resumed = "whole" /\ ~unsafe =>
    \A r \in storedLines :
      r \in feedPage.rows \/ \E w \in Writers : WriterAt(w, "emit") /\ writer[w].line = r.line

(* "on WS reconnect, refetches events from `lastSeq` to close any gap"     *)
(* (useExecutionEvents.ts:5): the console of a timeline that is in its     *)
(* room and has read there what it missed misses nothing that is stored.   *)
GapIsClosed ==
  feed = "timeline" /\ resumed = "tail" /\ InFlight = {} /\ asks = {} /\ ~unsafe =>
    storedLines \subseteq feedPage.rows
=============================================================================
