---------------------------- MODULE ArtefactsProofs ----------------------------
(***************************************************************************)
(* Theorems about Artefacts: verdicts and approvals of automation speak of *)
(* its content and of its test case, whatever handlers interleave, and the *)
(* approvals table agrees with the rows; and about Inbox: the lists show   *)
(* what was decided in them.                                               *)
(*                                                                         *)
(* Every operation of Artefacts is a step of one of six kinds (Moves): a   *)
(* handler begins to generate, takes a copy of a row, saves its copy,      *)
(* lists what is downstream of a case, takes one of these in hand, or goes *)
(* on without a copy.  The invariants are proved for the kinds.            *)
(***************************************************************************)
EXTENDS Artefacts, Inbox, TLAPS

Todos == UNION {[D -> Row] : D \in SUBSET Automation}
Handlers == [pc : PC, of : SUBSET Resources, row : Row, sent : Nat, decision : Decisions,
             todo : Todos]
Typed == ArtefactTypeOK /\ slot \in [Slots -> Handlers]

-----------------------------------------------------------------------------
(* The parts of a handler after a step, and what a save stores.            *)
LEMMA OfIs == ASSUME NEW s, NEW x, slot[s].of = {x} PROVE Of(s) = x
  BY DEF Of

LEMMA RowFields ==
  ASSUME NEW r \in Row
  PROVE  /\ [r EXCEPT !.content = 1] \in Row
         /\ \A n \in Nat : /\ [r EXCEPT !.content = n] \in Row
                           /\ [r EXCEPT !.content = n, !.validation = "pending"] \in Row
  BY DEF Row

LEMMA NoContentRow == NoContent \in Row
  BY DEF NoContent, Row

LEMMA NoTodo == [a \in {} |-> NoContent] \in Todos /\ DOMAIN [a \in {} |-> NoContent] = {}
<1>1. [a \in {} |-> NoContent] \in [{} -> Row]
  OBVIOUS
<1>2. QED
  BY <1>1 DEF Todos

LEMMA IdleHandler == Idle \in Handlers /\ DOMAIN Idle.todo = {}
<1> DEFINE none == [a \in {} |-> NoContent]
<1>1. none \in Todos /\ DOMAIN none = {}
  BY NoTodo
<1>2. Idle = [pc |-> "idle", of |-> {}, row |-> NoContent, sent |-> 0,
              decision |-> "approved", todo |-> none]
  BY DEF Idle
<1> HIDE DEF none
<1>3. QED
  BY <1>1, <1>2, NoContentRow DEF Handlers, PC, Decisions

(* A handler that begins. *)
LEMMA StartEffect ==
  ASSUME Typed, NEW s \in Slots, NEW of \in SUBSET Resources, NEW h \in Handlers,
         DOMAIN h.todo = {}, Start(s, of, h)
  PROVE  /\ slot[s].pc = "idle" /\ slot'[s] \in Handlers
         /\ slot'[s].pc = h.pc /\ slot'[s].of = of /\ slot'[s].row = h.row
         /\ slot'[s].decision = h.decision
         /\ DOMAIN slot'[s].todo = {}
         /\ \A t \in Slots \ {s} : slot'[t] = slot[t]
         /\ slot' \in [Slots -> Handlers] /\ calls' \in 0..MaxCalls
<1>1. [h EXCEPT !.of = of] \in Handlers
  BY DEF Handlers
<1> DEFINE g == [h EXCEPT !.of = of]
<1>2. g.pc = h.pc /\ g.of = of /\ g.row = h.row /\ g.decision = h.decision /\ g.todo = h.todo
  BY DEF Handlers
<1>3. slot' = [slot EXCEPT ![s] = g] /\ g \in Handlers
  BY <1>1 DEF Start
<1> HIDE DEF g
<1>4. slot[s].pc = "idle" /\ calls' \in 0..MaxCalls
  BY BoundsAssumption DEF Start, At, Typed, ArtefactTypeOK
<1>5. slot'[s] = g /\ (\A t \in Slots \ {s} : slot'[t] = slot[t]) /\ slot' \in [Slots -> Handlers]
  BY <1>3 DEF Typed
<1>6. QED
  BY <1>2, <1>3, <1>4, <1>5

LEMMA BeginEffect ==
  ASSUME Typed, NEW s \in Slots, NEW pc \in PC, NEW x \in Resources, NEW r \in Row,
         Begin(s, pc, x, r)
  PROVE  /\ slot[s].pc = "idle" /\ slot'[s] \in Handlers
         /\ slot'[s].pc = pc /\ slot'[s].of = {x} /\ slot'[s].row = r
         /\ DOMAIN slot'[s].todo = {}
         /\ \A t \in Slots \ {s} : slot'[t] = slot[t]
         /\ slot' \in [Slots -> Handlers] /\ calls' \in 0..MaxCalls
<1> DEFINE h == [Idle EXCEPT !.pc = pc, !.row = r]
<1>1. h \in Handlers /\ h.pc = pc /\ h.row = r /\ h.todo = Idle.todo
  BY IdleHandler DEF Handlers
<1>2. Start(s, {x}, h)
  BY DEF Begin
<1> HIDE DEF h
<1>3. DOMAIN h.todo = {}
  BY <1>1, IdleHandler
<1>4. QED
  BY <1>1, <1>2, <1>3, StartEffect

LEMMA BecomeEffect ==
  ASSUME Typed, NEW s \in Slots, NEW h \in Handlers, Become(s, h)
  PROVE  /\ slot'[s] = h /\ (\A t \in Slots \ {s} : slot'[t] = slot[t])
         /\ slot' \in [Slots -> Handlers] /\ calls' = calls
  BY DEF Become, Typed

LEMMA GoWithEffect ==
  ASSUME Typed, NEW s \in Slots, NEW pc \in PC, NEW r \in Row, GoWith(s, pc, r)
  PROVE  /\ slot'[s].pc = pc /\ slot'[s].of = slot[s].of /\ slot'[s].row = r
         /\ slot'[s].sent = slot[s].sent /\ slot'[s].decision = slot[s].decision
         /\ slot'[s].todo = slot[s].todo
         /\ \A t \in Slots \ {s} : slot'[t] = slot[t]
         /\ slot' \in [Slots -> Handlers] /\ calls' = calls
<1> DEFINE h == [slot[s] EXCEPT !.pc = pc, !.row = r]
<1>1. /\ h \in Handlers /\ h.pc = pc /\ h.row = r /\ h.of = slot[s].of
      /\ h.sent = slot[s].sent /\ h.decision = slot[s].decision /\ h.todo = slot[s].todo
  BY DEF Typed, Handlers
<1>2. Become(s, h)
  BY DEF GoWith
<1> HIDE DEF h
<1>3. QED
  BY <1>1, <1>2, BecomeEffect

LEMMA GoEffect ==
  ASSUME Typed, NEW s \in Slots, NEW pc \in PC, Go(s, pc)
  PROVE  /\ slot'[s].pc = pc /\ slot'[s].of = slot[s].of /\ slot'[s].row = slot[s].row
         /\ slot'[s].todo = slot[s].todo
         /\ \A t \in Slots \ {s} : slot'[t] = slot[t]
         /\ slot' \in [Slots -> Handlers] /\ calls' = calls
<1> DEFINE h == [slot[s] EXCEPT !.pc = pc]
<1>1. /\ h \in Handlers /\ h.pc = pc /\ h.row = slot[s].row /\ h.of = slot[s].of
      /\ h.todo = slot[s].todo
  BY DEF Typed, Handlers
<1>2. Become(s, h)
  BY DEF Go
<1> HIDE DEF h
<1>3. QED
  BY <1>1, <1>2, BecomeEffect

LEMMA EndEffect ==
  ASSUME Typed, NEW s \in Slots, End(s)
  PROVE  /\ slot'[s].pc = "idle" /\ slot'[s].of = {} /\ slot'[s].row = NoContent
         /\ DOMAIN slot'[s].todo = {}
         /\ \A t \in Slots \ {s} : slot'[t] = slot[t]
         /\ slot' \in [Slots -> Handlers] /\ calls' = calls
<1>1. slot'[s] = Idle /\ (\A t \in Slots \ {s} : slot'[t] = slot[t])
      /\ slot' \in [Slots -> Handlers] /\ calls' = calls
  BY IdleHandler, BecomeEffect DEF End
<1>2. Idle.pc = "idle" /\ Idle.of = {} /\ Idle.row = NoContent
  BY DEF Idle
<1>3. QED
  BY <1>1, <1>2, IdleHandler

LEMMA NoteEffect ==
  ASSUME Typed, NEW x \in Resources, NEW found \in SUBSET Races, Note(x, found)
  PROVE  /\ races' \in [Resources -> SUBSET Races]
         /\ \A y \in Resources : races[y] \subseteq races'[y]
         /\ found \subseteq races'[x]
  BY DEF Note, Typed, ArtefactTypeOK

LEMMA LoadEffect ==
  ASSUME Typed, NEW s \in Slots, NEW x \in Resources, Load(s, x)
  PROVE  /\ races' \in [Resources -> SUBSET Races]
         /\ \A y \in Resources : races[y] \subseteq races'[y]
         /\ Others(s, x, {"reopen", "mark"}) # {} => "glimpsed" \in races'[x]
<1> DEFINE found == If(Others(s, x, {"reopen", "mark"}) # {}, "glimpsed")
<1>1. Note(x, found)
  BY DEF Load
<1>2. found \in SUBSET Races /\ (Others(s, x, {"reopen", "mark"}) # {} => "glimpsed" \in found)
  BY DEF If, Races
<1> HIDE DEF found
<1>3. QED
  BY <1>1, <1>2, NoteEffect

LEMMA SaveEffect ==
  ASSUME Typed, NEW s \in Slots, NEW x \in Resources, NEW r \in Row, Save(s, x, r)
  PROVE  /\ row' \in [Resources -> Row] /\ row'[x] = r
         /\ \A y \in Resources \ {x} : row'[y] = row[y]
         /\ races' \in [Resources -> SUBSET Races]
         /\ \A y \in Resources : races[y] \subseteq races'[y]
         /\ Holders(s, x) # {} => "crossed" \in races'[x]
         /\ r.content # row[x].content /\ Others(s, x, {"engine"}) # {} =>
              "overtaken" \in races'[x]
<1> DEFINE crossed == If(Holders(s, x) # {}, "crossed")
           overtaken == If(r.content # row[x].content /\ Others(s, x, {"engine"}) # {}, "overtaken")
           found == crossed \cup overtaken
<1>1. Note(x, found) /\ row' = [row EXCEPT ![x] = r]
  BY DEF Save
<1>2. /\ found \in SUBSET Races
      /\ Holders(s, x) # {} => "crossed" \in found
      /\ r.content # row[x].content /\ Others(s, x, {"engine"}) # {} => "overtaken" \in found
  BY DEF If, Races
<1> HIDE DEF found
<1>3. /\ row' \in [Resources -> Row] /\ row'[x] = r
      /\ \A y \in Resources \ {x} : row'[y] = row[y]
  BY <1>1 DEF Typed, ArtefactTypeOK
<1>4. QED
  BY <1>1, <1>2, <1>3, NoteEffect

-----------------------------------------------------------------------------
(* Where a resource comes from, and which handlers hold what.              *)
Copies == {"edit", "mark", "validate", "verdict", "override", "decide"}

Origins ==
  /\ \A a \in Automation : Exists(a) => Exists(Source[a])
  /\ \A x \in Resources : ~Exists(x) => row[x].approval = "pending"

Named(s) ==
  /\ At(s, "idle") => slot[s].of = {}
  /\ slot[s].pc \notin {"idle", "queued"} => \E x \in Resources : slot[s].of = {x}
  /\ slot[s].pc \in {"validate", "engine", "verdict", "override"} =>
       slot[s].of \subseteq Automation
  /\ slot[s].pc \in {"downstream", "loop"} => slot[s].of \subseteq Cases
  /\ ~At(s, "generate") => \A x \in slot[s].of : Exists(x)

NewIsUnique(s) ==
  At(s, "generate") =>
    \A x \in slot[s].of :
      /\ ~Exists(x)
      /\ x \in Automation => Exists(Source[x])
      /\ \A t \in Slots \ {s} : x \notin slot[t].of

HoldsCopy(s) ==
  /\ slot[s].pc \in Copies \cup {"generate"} => slot[s].row.content > 0
  /\ slot[s].pc \notin Copies \cup {"generate"} => slot[s].row = NoContent
  /\ At(s, "generate") => slot[s].row = [NoContent EXCEPT !.content = 1]
  /\ \A a \in DOMAIN slot[s].todo :
       /\ At(s, "loop") /\ slot[s].of = {Source[a]}
       /\ Exists(a) /\ slot[s].todo[a].content > 0

Base == Origins /\ \A s \in Slots : Named(s) /\ NewIsUnique(s) /\ HoldsCopy(s)

(* The kinds of steps.  In each of them one handler moves.                 *)
OnlyMoves(s) ==
  /\ \A t \in Slots \ {s} : slot'[t] = slot[t]
  /\ \A x \in Resources : races[x] \subseteq races'[x]
  /\ Typed'

(* A handler begins to generate a resource.                                *)
Generates(s, x) ==
  /\ Fresh(x) /\ (x \in Automation => Exists(Source[x]))
  /\ UNCHANGED row
  /\ At(s, "idle") /\ slot'[s].pc = "generate" /\ slot'[s].of = {x}
  /\ slot'[s].row = [NoContent EXCEPT !.content = 1] /\ DOMAIN slot'[s].todo = {}

Outdated(r) == Approved(r) /\ r.agreed # r.content
Undermined(a, r) == Approved(r) /\ r.basis # row[Source[a]].content

(* A handler takes a copy of a row, changed in one of six ways.            *)
Copied(s, x) ==
  /\ Exists(x) /\ UNCHANGED row
  /\ slot[s].pc \in {"idle", "engine", "load", "reopen"}
  /\ At(s, "idle") \/ slot[s].of = {x}
  /\ slot'[s].pc \in Copies /\ slot'[s].of = {x} /\ DOMAIN slot'[s].todo = {}
  /\ At(s, "reopen") => slot'[s].pc = "mark" /\ ~Approved(slot'[s].row)
  /\ slot'[s].pc \in {"validate", "verdict", "override"} => x \in Automation
  /\ slot'[s].row.content > 0
  /\ slot'[s].pc # "edit" => slot'[s].row.content = row[x].content
  /\ x \in Automation /\ Validated(slot'[s].row) =>
       \/ slot'[s].row.checked = slot'[s].row.content
       \/ Validated(row[x]) /\ slot'[s].row.checked = row[x].checked
       \/ At(s, "engine") /\ slot'[s].row.checked = slot[s].sent
  /\ x \in Automation /\ Validated(slot'[s].row) => slot'[s].pc # "edit"
  /\ x \in Automation /\ Outdated(slot'[s].row) =>
       \/ slot'[s].pc = "edit"
       \/ /\ Outdated(row[x])
          /\ Others(s, x, {"reopen", "mark"}) # {} => "glimpsed" \in races'[x]
  /\ x \in Automation /\ Undermined(x, slot'[s].row) => Undermined(x, row[x])

(* A handler saves its copy.                                               *)
Saved(s, x) ==
  /\ slot[s].of = {x} /\ slot[s].pc \in Copies \cup {"generate"}
  /\ row'[x] = slot[s].row /\ \A y \in Resources \ {x} : row'[y] = row[y]
  /\ Holders(s, x) # {} => "crossed" \in races'[x]
  /\ row'[x].content # row[x].content /\ Others(s, x, {"engine"}) # {} =>
       "overtaken" \in races'[x]
  /\ slot'[s].row = NoContent /\ DOMAIN slot'[s].todo = {}
  /\ \/ At(s, "edit") /\ slot'[s].pc = "reopen" /\ slot'[s].of = {x}
     \/ At(s, "mark") /\ x \in Cases /\ slot'[s].pc = "downstream" /\ slot'[s].of = {x}
     \/ /\ At(s, "validate") /\ slot'[s].pc = "engine" /\ slot'[s].of = {x}
        /\ slot'[s].sent = row'[x].content
     \/ At(s, "decide") /\ slot'[s].pc = "record" /\ slot'[s].of = {x}
     \/ /\ slot[s].pc \in {"generate", "mark", "verdict", "override"}
        /\ At(s, "mark") => x \notin Cases
        /\ slot'[s].pc = "idle" /\ slot'[s].of = {}

(* invalidateDownstream(): what is downstream is loaded ...                *)
Lists(s, c) ==
  /\ c \in Cases /\ UNCHANGED row
  /\ At(s, "downstream") /\ slot[s].of = {c}
  /\ slot'[s].pc = "loop" /\ slot'[s].of = {c} /\ slot'[s].row = slot[s].row
  /\ slot'[s].todo = [a \in Affected(c) |-> row[a]]
  /\ \A a \in Affected(c) : Holders(s, a) # {} => "crossed" \in races'[a]

(* ... and taken in hand one by one.                                       *)
Handles(s, a) ==
  /\ At(s, "loop") /\ a \in DOMAIN slot[s].todo
  /\ slot'[s].pc = "loop" /\ slot'[s].of = slot[s].of /\ slot'[s].row = slot[s].row
  /\ DOMAIN slot'[s].todo = DOMAIN slot[s].todo \ {a}
  /\ \A b \in DOMAIN slot'[s].todo : slot'[s].todo[b] = slot[s].todo[b]
  /\ \/ ~Approved(slot[s].todo[a]) /\ UNCHANGED row
     \/ /\ \A y \in Resources \ {a} : row'[y] = row[y]
        /\ row'[a].approval = "pending" /\ row'[a].validation = "pending"
        /\ row'[a].content = slot[s].todo[a].content
        /\ Holders(s, a) # {} => "crossed" \in races'[a]
        /\ row'[a].content # row[a].content /\ Others(s, a, {"engine"}) # {} =>
             "overtaken" \in races'[a]

(* A handler goes on without a copy, or ends.  A change of a case that is  *)
(* being carried through goes on unless the handler breaks off.            *)
Proceeds(s) ==
  /\ UNCHANGED row
  /\ slot'[s].row = NoContent /\ DOMAIN slot'[s].todo = {}
  /\ \/ slot'[s].pc = "idle" /\ slot'[s].of = {}
     \/ /\ At(s, "idle") /\ slot'[s].pc = "load"
        /\ \E x \in Resources : slot'[s].of = {x} /\ Exists(x)
     \/ At(s, "idle") /\ slot'[s].pc = "queued" /\ \A x \in slot'[s].of : Exists(x)
     \/ /\ slot[s].pc \in {"reopen", "record"} /\ slot'[s].pc = "downstream"
        /\ slot'[s].of = slot[s].of /\ slot'[s].of \subseteq Cases
  /\ \A x \in Resources :
       slot[s].of = {x} /\ slot[s].pc \in {"reopen", "mark", "downstream", "loop"} =>
         \/ "abandoned" \in races'[x]
         \/ /\ At(s, "reopen") /\ ~Approved(row[x])
            /\ x \in Cases => slot'[s].pc = "downstream"
         \/ At(s, "loop") /\ DOMAIN slot[s].todo = {}

Moves(s) ==
  /\ OnlyMoves(s)
  /\ \/ \E x \in Resources : Generates(s, x) \/ Copied(s, x) \/ Saved(s, x)
     \/ \E c \in Cases : Lists(s, c)
     \/ \E a \in Automation : Handles(s, a)
     \/ Proceeds(s)

LEMMA TypedNext ==
  ASSUME row' \in [Resources -> Row],
         record' \in [Resources -> [decision : Decisions \cup {"none"}, invalidated : BOOLEAN]],
         last' \in [Resources -> 0..MaxContent], slot' \in [Slots -> Handlers],
         calls' \in 0..MaxCalls, races' \in [Resources -> SUBSET Races]
  PROVE  Typed'
<1>1. \A s \in Slots :
        /\ slot'[s].pc \in PC /\ slot'[s].of \subseteq Resources /\ slot'[s].row \in Row
        /\ slot'[s].decision \in Decisions /\ DOMAIN slot'[s].todo \subseteq Automation
  BY DEF Handlers, Todos
<1>2. QED
  BY <1>1 DEF Typed, ArtefactTypeOK

LEMMA MarkType ==
  ASSUME Typed, NEW x \in Resources
  PROVE  Mark(x) \in [Resources -> [decision : Decisions \cup {"none"}, invalidated : BOOLEAN]]
<1>1. [record[x] EXCEPT !.invalidated = TRUE]
        \in [decision : Decisions \cup {"none"}, invalidated : BOOLEAN]
  BY DEF Typed, ArtefactTypeOK
<1>2. [record EXCEPT ![x].invalidated = TRUE]
        = [record EXCEPT ![x] = [record[x] EXCEPT !.invalidated = TRUE]]
  OBVIOUS
<1>3. QED
  BY <1>1, <1>2 DEF Typed, ArtefactTypeOK, Mark

(* The copies the handlers make of a row.                                  *)
LEMMA FreshRow ==
  /\ [NoContent EXCEPT !.content = 1] \in Row
  /\ [NoContent EXCEPT !.content = 1].content = 1
  /\ [NoContent EXCEPT !.content = 1].approval = "pending"
  /\ NoContent.content = 0 /\ NoContent.approval = "pending"
  /\ NoContent.validation = "pending" /\ [NoContent EXCEPT !.content = 1].validation = "pending"
  BY DEF NoContent, Row

LEMMA ReopenedRow ==
  ASSUME NEW r \in Row
  PROVE  /\ Reopened(r) \in Row /\ [Reopened(r) EXCEPT !.validation = "pending"] \in Row
         /\ Reopened(r).approval = "pending" /\ Reopened(r).content = r.content
         /\ Reopened(r).validation = r.validation /\ Reopened(r).checked = r.checked
         /\ [Reopened(r) EXCEPT !.validation = "pending"].approval = "pending"
         /\ [Reopened(r) EXCEPT !.validation = "pending"].validation = "pending"
         /\ [Reopened(r) EXCEPT !.validation = "pending"].content = r.content
  BY DEF Reopened, Row

LEMMA EditedRow ==
  ASSUME Typed, NEW x \in Resources
  PROVE  /\ Edited(x) \in Row /\ Edited(x).content = last[x] + 1
         /\ Edited(x).content > 0
         /\ Edited(x).approval = row[x].approval /\ Edited(x).basis = row[x].basis
         /\ x \in Automation => Edited(x).validation = "pending"
<1>1. row[x] \in Row /\ last[x] \in Nat
  BY BoundsAssumption DEF Typed, ArtefactTypeOK
<1>2. PICK n \in Nat : n = last[x] + 1
  BY <1>1
<1>3. n > 0
  BY <1>1, <1>2
<1>4. PICK r \in Row : r = row[x]
  BY <1>1
<1>5. Edited(x) = IF x \in Automation THEN [r EXCEPT !.content = n, !.validation = "pending"]
                  ELSE [r EXCEPT !.content = n]
  BY <1>2, <1>4 DEF Edited
<1>6. /\ Edited(x) \in Row /\ Edited(x).content = n
      /\ Edited(x).approval = r.approval /\ Edited(x).basis = r.basis
      /\ x \in Automation => Edited(x).validation = "pending"
  BY <1>5 DEF Row
<1>7. QED
  BY <1>2, <1>3, <1>4, <1>6

LEMMA DecidedRow ==
  ASSUME Typed, NEW x \in Resources, NEW d \in Decisions
  PROVE  /\ Decided(x, d) \in Row /\ Decided(x, d).content = row[x].content
         /\ Decided(x, d).validation = row[x].validation
         /\ Decided(x, d).checked = row[x].checked
         /\ Approved(Decided(x, d)) =>
              /\ Decided(x, d).agreed = row[x].content
              /\ x \in Automation => Decided(x, d).basis = row[Source[x]].content
<1>1. row[x] \in Row /\ (x \in Automation => row[Source[x]] \in Row)
  BY ResourcesAssumption DEF Typed, ArtefactTypeOK, Resources
<1>2. NextStatus(d) \in {"pending", "approved", "rejected"}
      /\ (NextStatus(d) = "approved" => d = "approved")
  BY DEF NextStatus, Decisions
<1>3. QED
  BY <1>1, <1>2 DEF Decided, Row, Approved

LEMMA RunningRow ==
  ASSUME NEW r \in Row
  PROVE  /\ [r EXCEPT !.validation = "running"] \in Row
         /\ [r EXCEPT !.validation = "running"].content = r.content
         /\ [r EXCEPT !.validation = "running"].validation = "running"
         /\ [r EXCEPT !.validation = "running"].approval = r.approval
         /\ [r EXCEPT !.validation = "running"].agreed = r.agreed
         /\ [r EXCEPT !.validation = "running"].basis = r.basis
  BY DEF Row

LEMMA JudgedRow ==
  ASSUME NEW r \in Row, NEW v \in {"overridden"} \cup Verdicts, NEW n \in Nat
  PROVE  /\ [r EXCEPT !.validation = v, !.checked = n] \in Row
         /\ [r EXCEPT !.validation = v, !.checked = n].content = r.content
         /\ [r EXCEPT !.validation = v, !.checked = n].validation = v
         /\ [r EXCEPT !.validation = v, !.checked = n].checked = n
         /\ [r EXCEPT !.validation = v, !.checked = n].approval = r.approval
         /\ [r EXCEPT !.validation = v, !.checked = n].agreed = r.agreed
         /\ [r EXCEPT !.validation = v, !.checked = n].basis = r.basis
  BY DEF Row

-----------------------------------------------------------------------------
(* Every operation is a step of one of the kinds.                          *)
LEMMA GenerateMoves ==
  ASSUME Typed, Base, NEW s \in Slots, NEW x \in Resources, Fresh(x),
         x \in Automation => Exists(Source[x]),
         Begin(s, "generate", x, [NoContent EXCEPT !.content = 1]),
         UNCHANGED <<row, record, last, races>>
  PROVE  Moves(s)
<1>1. /\ slot[s].pc = "idle" /\ slot'[s].pc = "generate" /\ slot'[s].of = {x}
      /\ slot'[s].row = [NoContent EXCEPT !.content = 1] /\ DOMAIN slot'[s].todo = {}
      /\ \A t \in Slots \ {s} : slot'[t] = slot[t]
      /\ slot' \in [Slots -> Handlers] /\ calls' \in 0..MaxCalls
  BY FreshRow, BeginEffect DEF PC
<1>2. Typed'
  BY <1>1, TypedNext DEF Typed, ArtefactTypeOK
<1>3. Generates(s, x) /\ OnlyMoves(s)
  BY <1>1, <1>2 DEF Generates, OnlyMoves, At
<1>4. QED
  BY <1>3 DEF Moves

LEMMA UpdateMoves ==
  ASSUME Typed, Base, NEW s \in Slots, NEW x \in Resources, Update(s, x)
  PROVE  Moves(s)
<1>1. /\ slot[s].pc = "idle" /\ slot'[s].pc = "edit" /\ slot'[s].of = {x}
      /\ slot'[s].row = Edited(x) /\ DOMAIN slot'[s].todo = {}
      /\ \A t \in Slots \ {s} : slot'[t] = slot[t]
      /\ slot' \in [Slots -> Handlers] /\ calls' \in 0..MaxCalls
  BY EditedRow, BeginEffect DEF Update, PC
<1>2. /\ last' \in [Resources -> 0..MaxContent] /\ Exists(x)
      /\ UNCHANGED <<row, record, races>>
  BY BoundsAssumption DEF Update, Typed, ArtefactTypeOK
<1>3. Typed'
  BY <1>1, <1>2, TypedNext DEF Typed, ArtefactTypeOK
<1>4. Copied(s, x)
  BY <1>1, <1>2, EditedRow
  DEF Copied, At, Copies, Validated, Executable, Outdated, Undermined, Approved
<1>5. OnlyMoves(s)
  BY <1>1, <1>2, <1>3 DEF OnlyMoves
<1>6. QED
  BY <1>4, <1>5 DEF Moves

(* validate() and overrideValidation() differ in what they write.          *)
LEMMA ValidateMoves ==
  ASSUME Typed, Base, NEW s \in Slots, NEW a \in Automation, Validate(s, a) \/ Override(s, a)
  PROVE  Moves(s)
<1>1. a \in Resources /\ row[a] \in Row /\ Exists(a) /\ row[a].content \in Nat
  BY DEF Resources, Typed, ArtefactTypeOK, Validate, Override, Row
<1>2. PICK r \in Row, pc \in {"validate", "override"} :
        /\ Begin(s, pc, a, r)
        /\ r.content = row[a].content /\ r.approval = row[a].approval
        /\ r.agreed = row[a].agreed /\ r.basis = row[a].basis
        /\ r.validation = "running" \/ r.checked = r.content
  <2>1. CASE Validate(s, a)
    <3> DEFINE r == [row[a] EXCEPT !.validation = "running"]
    <3>1. /\ r \in Row /\ r.content = row[a].content /\ r.approval = row[a].approval
          /\ r.agreed = row[a].agreed /\ r.basis = row[a].basis /\ r.validation = "running"
      BY <1>1, RunningRow
    <3>2. Begin(s, "validate", a, r)
      BY <2>1 DEF Validate
    <3> HIDE DEF r
    <3>3. QED
      BY <3>1, <3>2
  <2>2. CASE Override(s, a)
    <3> DEFINE r == [row[a] EXCEPT !.validation = "overridden", !.checked = row[a].content]
    <3>1. /\ r \in Row /\ r.content = row[a].content /\ r.approval = row[a].approval
          /\ r.agreed = row[a].agreed /\ r.basis = row[a].basis
          /\ r.checked = row[a].content
      BY <1>1 DEF Row
    <3>2. Begin(s, "override", a, r)
      BY <2>2 DEF Override
    <3> HIDE DEF r
    <3>3. QED
      BY <3>1, <3>2
  <2>3. QED
    BY <2>1, <2>2
<1>3. UNCHANGED <<row, record, last>> /\ Load(s, a)
  BY DEF Validate, Override
<1>4. /\ races' \in [Resources -> SUBSET Races]
      /\ \A y \in Resources : races[y] \subseteq races'[y]
      /\ Others(s, a, {"reopen", "mark"}) # {} => "glimpsed" \in races'[a]
  BY <1>1, <1>3, LoadEffect
<1>5. /\ slot[s].pc = "idle" /\ slot'[s].pc = pc /\ slot'[s].of = {a} /\ slot'[s].row = r
      /\ DOMAIN slot'[s].todo = {}
      /\ \A t \in Slots \ {s} : slot'[t] = slot[t]
      /\ slot' \in [Slots -> Handlers] /\ calls' \in 0..MaxCalls
  BY <1>1, <1>2, BeginEffect DEF PC
<1>6. Typed'
  BY <1>3, <1>4, <1>5, TypedNext DEF Typed, ArtefactTypeOK
<1>7. Copied(s, a)
  BY <1>1, <1>2, <1>3, <1>4, <1>5
  DEF Copied, At, Copies, Validated, Executable, Outdated, Undermined, Approved, Exists
<1>8. OnlyMoves(s)
  BY <1>4, <1>5, <1>6 DEF OnlyMoves
<1>9. QED
  BY <1>1, <1>7, <1>8 DEF Moves

LEMMA ApproveMoves ==
  ASSUME Typed, Base, NEW s \in Slots, NEW x \in Resources, NEW d \in Decisions, Approve(s, x, d)
  PROVE  Moves(s)
<1> DEFINE h == [Idle EXCEPT !.pc = "load", !.decision = d]
<1>1. h \in Handlers /\ h.pc = "load" /\ h.row = NoContent /\ h.todo = Idle.todo
  BY IdleHandler DEF Handlers, PC, Idle
<1>2. Start(s, {x}, h) /\ Exists(x) /\ UNCHANGED <<row, record, last, races>>
  BY DEF Approve
<1> HIDE DEF h
<1>3. DOMAIN h.todo = {} /\ {x} \in SUBSET Resources
  BY <1>1, IdleHandler
<1>4. /\ slot[s].pc = "idle" /\ slot'[s].pc = "load" /\ slot'[s].of = {x}
      /\ slot'[s].row = NoContent /\ DOMAIN slot'[s].todo = {}
      /\ \A t \in Slots \ {s} : slot'[t] = slot[t]
      /\ slot' \in [Slots -> Handlers] /\ calls' \in 0..MaxCalls
  <2>1. PICK g \in Handlers :
          Start(s, {x}, g) /\ DOMAIN g.todo = {} /\ g.pc = "load" /\ g.row = NoContent
    BY <1>1, <1>2, <1>3
  <2>2. PICK of \in SUBSET Resources : of = {x} /\ Start(s, of, g)
    BY <1>3, <2>1
  <2>3. /\ slot[s].pc = "idle" /\ slot'[s].pc = g.pc /\ slot'[s].of = of
        /\ slot'[s].row = g.row /\ DOMAIN slot'[s].todo = {}
        /\ \A t \in Slots \ {s} : slot'[t] = slot[t]
        /\ slot' \in [Slots -> Handlers] /\ calls' \in 0..MaxCalls
    BY <2>1, <2>2, StartEffect
  <2>4. QED
    BY <2>1, <2>2, <2>3
<1>5. Typed'
  BY <1>2, <1>4, TypedNext DEF Typed, ArtefactTypeOK
<1>6. Proceeds(s) /\ OnlyMoves(s)
  BY <1>2, <1>4, <1>5 DEF Proceeds, OnlyMoves, At
<1>7. QED
  BY <1>6 DEF Moves

LEMMA CreateRunMoves ==
  ASSUME Typed, Base, NEW s \in Slots, NEW arts \in SUBSET Automation, CreateRun(s, arts)
  PROVE  Moves(s)
<1> DEFINE h == [Idle EXCEPT !.pc = "queued"]
<1>1. h \in Handlers /\ h.pc = "queued" /\ h.row = NoContent /\ h.todo = Idle.todo
  BY IdleHandler DEF Handlers, PC, Idle
<1>2. Start(s, arts, h) /\ (\A a \in arts : Exists(a)) /\ UNCHANGED <<row, record, last, races>>
  BY DEF CreateRun
<1> HIDE DEF h
<1>3. DOMAIN h.todo = {} /\ arts \in SUBSET Resources
  BY <1>1, IdleHandler DEF Resources
<1>4. /\ slot[s].pc = "idle" /\ slot'[s].pc = "queued" /\ slot'[s].of = arts
      /\ slot'[s].row = NoContent /\ DOMAIN slot'[s].todo = {}
      /\ \A t \in Slots \ {s} : slot'[t] = slot[t]
      /\ slot' \in [Slots -> Handlers] /\ calls' \in 0..MaxCalls
  <2>1. PICK g \in Handlers :
          Start(s, arts, g) /\ DOMAIN g.todo = {} /\ g.pc = "queued" /\ g.row = NoContent
    BY <1>1, <1>2, <1>3
  <2>2. PICK of \in SUBSET Resources : of = arts /\ Start(s, of, g)
    BY <1>3, <2>1
  <2>3. /\ slot[s].pc = "idle" /\ slot'[s].pc = g.pc /\ slot'[s].of = of
        /\ slot'[s].row = g.row /\ DOMAIN slot'[s].todo = {}
        /\ \A t \in Slots \ {s} : slot'[t] = slot[t]
        /\ slot' \in [Slots -> Handlers] /\ calls' \in 0..MaxCalls
    BY <2>1, <2>2, StartEffect
  <2>4. QED
    BY <2>1, <2>2, <2>3
<1>5. Typed'
  BY <1>2, <1>4, TypedNext DEF Typed, ArtefactTypeOK
<1>6. Proceeds(s) /\ OnlyMoves(s)
  BY <1>2, <1>4, <1>5 DEF Proceeds, OnlyMoves, At
<1>7. QED
  BY <1>6 DEF Moves

(* What a handler works on, and what it holds.                             *)
LEMMA WorksOn ==
  ASSUME Base, NEW s \in Slots, slot[s].pc \notin {"idle", "queued"}
  PROVE  /\ Of(s) \in Resources /\ slot[s].of = {Of(s)}
         /\ ~At(s, "generate") => Exists(Of(s))
<1>1. PICK x \in Resources : slot[s].of = {x}
  BY DEF Base, Named
<1>2. Of(s) = x
  BY <1>1, OfIs
<1>3. QED
  BY <1>1, <1>2 DEF Base, Named, At

LEMMA NothingListed ==
  ASSUME Base, NEW s \in Slots, ~At(s, "loop")
  PROVE  DOMAIN slot[s].todo = {}
  BY DEF Base, HoldsCopy

LEMMA NothingHeld ==
  ASSUME Base, NEW s \in Slots, slot[s].pc \notin Copies \cup {"generate"}
  PROVE  slot[s].row = NoContent
  BY DEF Base, HoldsCopy

(* A save with what becomes of the handler and the other tables.           *)
LEMMA SaveMoves ==
  ASSUME Typed, Base, NEW s \in Slots, slot[s].pc \in Copies \cup {"generate"},
         Save(s, Of(s), slot[s].row),
         \A t \in Slots \ {s} : slot'[t] = slot[t],
         slot' \in [Slots -> Handlers], calls' = calls,
         last' \in [Resources -> 0..MaxContent],
         record' \in [Resources -> [decision : Decisions \cup {"none"}, invalidated : BOOLEAN]],
         slot'[s].row = NoContent, DOMAIN slot'[s].todo = {},
         \/ At(s, "edit") /\ slot'[s].pc = "reopen" /\ slot'[s].of = slot[s].of
         \/ /\ At(s, "mark") /\ Of(s) \in Cases /\ slot'[s].pc = "downstream"
            /\ slot'[s].of = slot[s].of
         \/ /\ At(s, "validate") /\ slot'[s].pc = "engine" /\ slot'[s].of = slot[s].of
            /\ slot'[s].sent = slot[s].row.content
         \/ At(s, "decide") /\ slot'[s].pc = "record" /\ slot'[s].of = slot[s].of
         \/ /\ slot[s].pc \in {"generate", "mark", "verdict", "override"}
            /\ At(s, "mark") => Of(s) \notin Cases
            /\ slot'[s].pc = "idle" /\ slot'[s].of = {}
  PROVE  Moves(s)
<1>1. Of(s) \in Resources /\ slot[s].of = {Of(s)}
  BY WorksOn DEF Copies
<1>2. PICK x \in Resources : x = Of(s)
  BY <1>1
<1>3. slot[s].row \in Row
  BY DEF Typed, Handlers
<1>4. /\ row' \in [Resources -> Row] /\ row'[x] = slot[s].row
      /\ \A y \in Resources \ {x} : row'[y] = row[y]
      /\ races' \in [Resources -> SUBSET Races]
      /\ \A y \in Resources : races[y] \subseteq races'[y]
      /\ Holders(s, x) # {} => "crossed" \in races'[x]
      /\ slot[s].row.content # row[x].content /\ Others(s, x, {"engine"}) # {} =>
           "overtaken" \in races'[x]
  BY <1>2, <1>3, SaveEffect
<1>5. Typed'
  BY <1>4, TypedNext DEF Typed, ArtefactTypeOK
<1>6. Saved(s, x)
  BY <1>1, <1>2, <1>4 DEF Saved
<1>7. OnlyMoves(s)
  BY <1>4, <1>5 DEF OnlyMoves
<1>8. QED
  BY <1>6, <1>7 DEF Moves

LEMMA RecordKept ==
  Typed => record \in [Resources -> [decision : Decisions \cup {"none"}, invalidated : BOOLEAN]]
           /\ last \in [Resources -> 0..MaxContent]
  BY DEF Typed, ArtefactTypeOK

LEMMA SaveGeneratedMoves ==
  ASSUME Typed, Base, NEW s \in Slots, NEW x \in Resources, SaveGenerated(s, x)
  PROVE  Moves(s)
<1>1. At(s, "generate") /\ Of(s) = x /\ Save(s, Of(s), slot[s].row) /\ End(s)
      /\ UNCHANGED record
  BY OfIs DEF SaveGenerated
<1>2. last' \in [Resources -> 0..MaxContent]
  BY BoundsAssumption DEF SaveGenerated, Typed, ArtefactTypeOK
<1>3. QED
  BY <1>1, <1>2, EndEffect, RecordKept, SaveMoves DEF At

LEMMA SaveEditMoves ==
  ASSUME Typed, Base, NEW s \in Slots, SaveEdit(s)
  PROVE  Moves(s)
<1>1. At(s, "edit") /\ Save(s, Of(s), slot[s].row) /\ GoWith(s, "reopen", NoContent)
      /\ UNCHANGED <<record, last>>
  BY DEF SaveEdit
<1>2. /\ slot'[s].pc = "reopen" /\ slot'[s].of = slot[s].of /\ slot'[s].row = NoContent
      /\ slot'[s].todo = slot[s].todo
      /\ \A t \in Slots \ {s} : slot'[t] = slot[t]
      /\ slot' \in [Slots -> Handlers] /\ calls' = calls
  BY <1>1, NoContentRow, GoWithEffect DEF PC
<1>3. DOMAIN slot'[s].todo = {}
  BY <1>1, <1>2, NothingListed DEF At
<1>4. QED
  BY <1>1, <1>2, <1>3, RecordKept, SaveMoves DEF At, Copies

LEMMA SaveReopenedMoves ==
  ASSUME Typed, Base, NEW s \in Slots, SaveReopened(s)
  PROVE  Moves(s)
<1>1. At(s, "mark") /\ Save(s, Of(s), slot[s].row) /\ record' = Mark(Of(s)) /\ UNCHANGED last
  BY DEF SaveReopened
<1>2. record' \in [Resources -> [decision : Decisions \cup {"none"}, invalidated : BOOLEAN]]
  BY <1>1, WorksOn, MarkType DEF At
<1>3. CASE Of(s) \in Cases
  <2>1. GoWith(s, "downstream", NoContent)
    BY <1>3 DEF SaveReopened
  <2>2. /\ slot'[s].pc = "downstream" /\ slot'[s].of = slot[s].of /\ slot'[s].row = NoContent
        /\ slot'[s].todo = slot[s].todo
        /\ \A t \in Slots \ {s} : slot'[t] = slot[t]
        /\ slot' \in [Slots -> Handlers] /\ calls' = calls
    BY <2>1, NoContentRow, GoWithEffect DEF PC
  <2>3. DOMAIN slot'[s].todo = {}
    BY <1>1, <2>2, NothingListed DEF At
  <2>4. QED
    BY <1>1, <1>2, <1>3, <2>2, <2>3, RecordKept, SaveMoves DEF At, Copies
<1>4. CASE Of(s) \notin Cases
  <2>1. End(s)
    BY <1>4 DEF SaveReopened
  <2>2. QED
    BY <1>1, <1>2, <1>4, <2>1, EndEffect, RecordKept, SaveMoves DEF At, Copies
<1>5. QED
  BY <1>3, <1>4

LEMMA StartValidationMoves ==
  ASSUME Typed, Base, NEW s \in Slots, StartValidation(s)
  PROVE  Moves(s)
<1> DEFINE h == [slot[s] EXCEPT !.pc = "engine", !.sent = slot[s].row.content, !.row = NoContent]
<1>1. At(s, "validate") /\ Save(s, Of(s), slot[s].row) /\ Become(s, h)
      /\ UNCHANGED <<record, last>>
  BY DEF StartValidation
<1>2. slot[s].row.content \in Nat
  BY DEF Typed, Handlers, Row
<1>3. /\ h \in Handlers /\ h.pc = "engine" /\ h.of = slot[s].of /\ h.row = NoContent
      /\ h.sent = slot[s].row.content /\ h.todo = slot[s].todo
  BY <1>2, NoContentRow DEF Typed, Handlers, PC
<1> HIDE DEF h
<1>4. DOMAIN h.todo = {}
  BY <1>1, <1>3, NothingListed DEF At
<1>5. slot'[s] = h /\ (\A t \in Slots \ {s} : slot'[t] = slot[t])
      /\ slot' \in [Slots -> Handlers] /\ calls' = calls
  BY <1>1, <1>3, BecomeEffect
<1>6. QED
  BY <1>1, <1>3, <1>4, <1>5, RecordKept, SaveMoves DEF At, Copies

LEMMA SaveDecisionMoves ==
  ASSUME Typed, Base, NEW s \in Slots, SaveDecision(s)
  PROVE  Moves(s)
<1>1. At(s, "decide") /\ Save(s, Of(s), slot[s].row) /\ GoWith(s, "record", NoContent)
      /\ UNCHANGED <<record, last>>
  BY DEF SaveDecision
<1>2. /\ slot'[s].pc = "record" /\ slot'[s].of = slot[s].of /\ slot'[s].row = NoContent
      /\ slot'[s].todo = slot[s].todo
      /\ \A t \in Slots \ {s} : slot'[t] = slot[t]
      /\ slot' \in [Slots -> Handlers] /\ calls' = calls
  BY <1>1, NoContentRow, GoWithEffect DEF PC
<1>3. DOMAIN slot'[s].todo = {}
  BY <1>1, <1>2, NothingListed DEF At
<1>4. QED
  BY <1>1, <1>2, <1>3, RecordKept, SaveMoves DEF At, Copies

LEMMA StoreMoves ==
  ASSUME Typed, Base, NEW s \in Slots, StoreVerdict(s) \/ SaveOverride(s)
  PROVE  Moves(s)
<1>1. slot[s].pc \in {"verdict", "override"} /\ Save(s, Of(s), slot[s].row) /\ End(s)
      /\ UNCHANGED <<record, last>>
  BY DEF StoreVerdict, SaveOverride, At
<1>2. QED
  BY <1>1, EndEffect, RecordKept, SaveMoves DEF At, Copies

(* A step after which the row is the same and the handler holds a copy.    *)
LEMMA OnUpstreamModifiedMoves ==
  ASSUME Typed, Base, NEW s \in Slots, OnUpstreamModified(s)
  PROVE  Moves(s)
<1>1. At(s, "reopen") /\ UNCHANGED <<row, record, last, races>>
  BY DEF OnUpstreamModified
<1>2. PICK x \in Resources : x = Of(s) /\ slot[s].of = {x} /\ Exists(x)
  BY <1>1, WorksOn DEF At
<1>3. row[x] \in Row /\ slot[s].row = NoContent /\ DOMAIN slot[s].todo = {}
  BY <1>1, NothingHeld, NothingListed DEF At, Copies, Typed, ArtefactTypeOK
<1>4. CASE Approved(row[x])
  <2>1. PICK r \in Row : r = Reopened(row[x])
    BY <1>3, ReopenedRow
  <2>2. /\ r.approval = "pending" /\ r.content = row[x].content
        /\ r.validation = row[x].validation /\ r.checked = row[x].checked
    BY <1>3, <2>1, ReopenedRow
  <2>3. GoWith(s, "mark", r)
    BY <1>2, <1>4, <2>1 DEF OnUpstreamModified
  <2>4. /\ slot'[s].pc = "mark" /\ slot'[s].of = slot[s].of /\ slot'[s].row = r
        /\ slot'[s].todo = slot[s].todo
        /\ \A t \in Slots \ {s} : slot'[t] = slot[t]
        /\ slot' \in [Slots -> Handlers] /\ calls' = calls
    BY <2>3, GoWithEffect DEF PC
  <2>5. Typed'
    BY <1>1, <2>4, TypedNext DEF Typed, ArtefactTypeOK
  <2>6. Copied(s, x)
    BY <1>1, <1>2, <1>3, <2>2, <2>4
    DEF Copied, At, Copies, Validated, Outdated, Undermined, Approved, Exists
  <2>7. OnlyMoves(s)
    BY <1>1, <2>4, <2>5 DEF OnlyMoves
  <2>8. QED
    BY <2>6, <2>7 DEF Moves
<1>5. CASE ~Approved(row[x])
  <2>1. IF x \in Cases THEN Go(s, "downstream") ELSE End(s)
    BY <1>2, <1>5 DEF OnUpstreamModified
  <2>2. /\ \A t \in Slots \ {s} : slot'[t] = slot[t]
        /\ slot' \in [Slots -> Handlers] /\ calls' = calls
        /\ slot'[s].row = NoContent /\ DOMAIN slot'[s].todo = {}
        /\ IF x \in Cases THEN slot'[s].pc = "downstream" /\ slot'[s].of = {x}
           ELSE slot'[s].pc = "idle" /\ slot'[s].of = {}
    <3>1. CASE x \in Cases
      BY <1>2, <1>3, <2>1, <3>1, GoEffect DEF PC
    <3>2. CASE x \notin Cases
      BY <2>1, <3>2, EndEffect
    <3>3. QED
      BY <3>1, <3>2
  <2>3. Typed'
    BY <1>1, <2>2, TypedNext DEF Typed, ArtefactTypeOK
  <2>4. Proceeds(s)
    BY <1>1, <1>2, <1>5, <2>2 DEF Proceeds, At
  <2>5. OnlyMoves(s)
    BY <1>1, <2>2, <2>3 DEF OnlyMoves
  <2>6. QED
    BY <2>4, <2>5 DEF Moves
<1>6. QED
  BY <1>4, <1>5

LEMMA AnswerValidationMoves ==
  ASSUME Typed, Base, NEW s \in Slots, NEW v \in Verdicts, AnswerValidation(s, v)
  PROVE  Moves(s)
<1>1. At(s, "engine") /\ UNCHANGED <<row, record, last>> /\ Load(s, Of(s))
  BY DEF AnswerValidation
<1>2. PICK x \in Resources : x = Of(s) /\ slot[s].of = {x} /\ Exists(x)
  BY <1>1, WorksOn DEF At
<1>3. x \in Automation /\ row[x] \in Row /\ DOMAIN slot[s].todo = {} /\ slot[s].sent \in Nat
  BY <1>1, <1>2, NothingListed DEF At, Base, Named, Typed, ArtefactTypeOK, Handlers
<1>4. PICK r \in Row :
        /\ GoWith(s, "verdict", r)
        /\ r.content = row[x].content /\ r.checked = slot[s].sent
        /\ r.approval = row[x].approval /\ r.agreed = row[x].agreed /\ r.basis = row[x].basis
  <2> DEFINE r == [row[x] EXCEPT !.validation = v, !.checked = slot[s].sent]
  <2>1. /\ r \in Row /\ r.content = row[x].content /\ r.checked = slot[s].sent
        /\ r.approval = row[x].approval /\ r.agreed = row[x].agreed /\ r.basis = row[x].basis
    BY <1>3 DEF Row, Verdicts
  <2>2. GoWith(s, "verdict", r)
    BY <1>2 DEF AnswerValidation
  <2> HIDE DEF r
  <2>3. QED
    BY <2>1, <2>2
<1>5. /\ slot'[s].pc = "verdict" /\ slot'[s].of = slot[s].of /\ slot'[s].row = r
      /\ slot'[s].todo = slot[s].todo
      /\ \A t \in Slots \ {s} : slot'[t] = slot[t]
      /\ slot' \in [Slots -> Handlers] /\ calls' = calls
  BY <1>4, GoWithEffect DEF PC
<1>6. /\ races' \in [Resources -> SUBSET Races]
      /\ \A y \in Resources : races[y] \subseteq races'[y]
      /\ Others(s, x, {"reopen", "mark"}) # {} => "glimpsed" \in races'[x]
  BY <1>1, <1>2, LoadEffect
<1>7. Typed'
  BY <1>1, <1>5, <1>6, TypedNext DEF Typed, ArtefactTypeOK
<1>8. Copied(s, x)
  BY <1>1, <1>2, <1>3, <1>4, <1>5, <1>6
  DEF Copied, At, Copies, Outdated, Undermined, Approved, Exists
<1>9. OnlyMoves(s)
  BY <1>5, <1>6, <1>7 DEF OnlyMoves
<1>10. QED
  BY <1>8, <1>9 DEF Moves

LEMMA DecideMoves ==
  ASSUME Typed, Base, NEW s \in Slots, Decide(s)
  PROVE  Moves(s)
<1>1. At(s, "load") /\ UNCHANGED <<row, record, last, races>>
  BY DEF Decide
<1>2. PICK x \in Resources : x = Of(s) /\ slot[s].of = {x} /\ Exists(x)
  BY <1>1, WorksOn DEF At
<1>3. row[x] \in Row /\ DOMAIN slot[s].todo = {} /\ slot[s].decision \in Decisions
  BY <1>1, NothingListed DEF At, Typed, ArtefactTypeOK, Handlers
<1>4. PICK r \in Row : r = Decided(x, slot[s].decision)
  BY <1>3, DecidedRow
<1>5. /\ r.content = row[x].content /\ r.validation = row[x].validation
      /\ r.checked = row[x].checked
      /\ Approved(r) => /\ r.agreed = row[x].content
                        /\ x \in Automation => r.basis = row[Source[x]].content
  BY <1>3, <1>4, DecidedRow
<1>6. GoWith(s, "decide", r)
  BY <1>2, <1>4 DEF Decide
<1>7. /\ slot'[s].pc = "decide" /\ slot'[s].of = slot[s].of /\ slot'[s].row = r
      /\ slot'[s].todo = slot[s].todo
      /\ \A t \in Slots \ {s} : slot'[t] = slot[t]
      /\ slot' \in [Slots -> Handlers] /\ calls' = calls
  BY <1>6, GoWithEffect DEF PC
<1>8. Typed'
  BY <1>1, <1>7, TypedNext DEF Typed, ArtefactTypeOK
<1>9. Copied(s, x)
  BY <1>1, <1>2, <1>3, <1>5, <1>7
  DEF Copied, At, Copies, Validated, Outdated, Undermined, Exists
<1>10. OnlyMoves(s)
  BY <1>1, <1>7, <1>8 DEF OnlyMoves
<1>11. QED
  BY <1>9, <1>10 DEF Moves

(* invalidateDownstream() loads what is downstream.                        *)
LEMMA InvalidateDownstreamMoves ==
  ASSUME Typed, Base, NEW s \in Slots, InvalidateDownstream(s)
  PROVE  Moves(s)
<1>1. At(s, "downstream") /\ UNCHANGED <<row, record, last>>
  BY DEF InvalidateDownstream
<1>2. PICK c \in Cases : c = Of(s) /\ slot[s].of = {c}
  <2>1. Of(s) \in Resources /\ slot[s].of = {Of(s)}
    BY <1>1, WorksOn DEF At
  <2>2. slot[s].of \subseteq Cases
    BY <1>1 DEF At, Base, Named
  <2>3. QED
    BY <2>1, <2>2
<1>3. PICK todo \in Todos : todo = [a \in Affected(c) |-> row[a]]
  <2>1. Affected(c) \in SUBSET Automation
    BY DEF Affected
  <2>2. \A a \in Affected(c) : row[a] \in Row
    BY <2>1 DEF Typed, ArtefactTypeOK, Resources
  <2>3. [a \in Affected(c) |-> row[a]] \in [Affected(c) -> Row]
    BY <2>2
  <2>4. QED
    BY <2>1, <2>3 DEF Todos
<1>4. PICK h \in Handlers :
        /\ Become(s, h)
        /\ h.pc = "loop" /\ h.of = slot[s].of /\ h.row = slot[s].row /\ h.todo = todo
  <2> DEFINE h == [slot[s] EXCEPT !.pc = "loop", !.todo = todo]
  <2>1. /\ h \in Handlers
        /\ h.pc = "loop" /\ h.of = slot[s].of /\ h.row = slot[s].row /\ h.todo = todo
    BY DEF Typed, Handlers, PC
  <2>2. Become(s, h)
    BY <1>2, <1>3 DEF InvalidateDownstream
  <2> HIDE DEF h
  <2>3. QED
    BY <2>1, <2>2
<1>5. /\ slot'[s] = h /\ (\A t \in Slots \ {s} : slot'[t] = slot[t])
      /\ slot' \in [Slots -> Handlers] /\ calls' = calls
  BY <1>4, BecomeEffect
<1>6. /\ races' \in [Resources -> SUBSET Races]
      /\ \A x \in Resources : races[x] \subseteq races'[x]
      /\ \A a \in Affected(c) : Holders(s, a) # {} => "crossed" \in races'[a]
  <2>1. races' = [x \in Resources |->
          races[x] \cup If(x \in Affected(c) /\ Holders(s, x) # {}, "crossed")]
    BY <1>2 DEF InvalidateDownstream
  <2>2. \A x \in Resources : races[x] \subseteq Races
    BY DEF Typed, ArtefactTypeOK
  <2>3. QED
    BY <2>1, <2>2 DEF If, Races, Affected, Resources
<1>7. Typed'
  BY <1>1, <1>5, <1>6, TypedNext DEF Typed, ArtefactTypeOK
<1>8. Lists(s, c)
  BY <1>1, <1>2, <1>3, <1>4, <1>5, <1>6 DEF Lists, At
<1>9. OnlyMoves(s)
  BY <1>5, <1>6, <1>7 DEF OnlyMoves
<1>10. QED
  BY <1>8, <1>9 DEF Moves

LEMMA InvalidateOneMoves ==
  ASSUME Typed, Base, NEW s \in Slots, NEW a \in Automation, InvalidateOne(s, a)
  PROVE  Moves(s)
<1>1. At(s, "loop") /\ a \in DOMAIN slot[s].todo /\ a \in Resources /\ UNCHANGED last
  BY DEF InvalidateOne, Resources
<1>2. PICK D \in SUBSET Automation : slot[s].todo \in [D -> Row]
  BY DEF Typed, Handlers, Todos
<1>3. PICK r \in Row : r = slot[s].todo[a]
  BY <1>1, <1>2
<1>4. PICK todo \in Todos :
        /\ todo = [b \in DOMAIN slot[s].todo \ {a} |-> slot[s].todo[b]]
        /\ DOMAIN todo = DOMAIN slot[s].todo \ {a}
        /\ \A b \in DOMAIN todo : todo[b] = slot[s].todo[b]
  <2> DEFINE rest == [b \in D \ {a} |-> slot[s].todo[b]]
  <2>1. rest \in [D \ {a} -> Row] /\ D \ {a} \in SUBSET Automation
    BY <1>2
  <2>2. rest \in Todos
    BY <2>1 DEF Todos
  <2>3. DOMAIN slot[s].todo = D
    BY <1>2
  <2>4. QED
    BY <2>2, <2>3
<1>5. PICK h \in Handlers :
        /\ Become(s, h)
        /\ h.pc = "loop" /\ h.of = slot[s].of /\ h.row = slot[s].row /\ h.todo = todo
  <2> DEFINE h == [slot[s] EXCEPT !.todo = todo]
  <2>1. /\ h \in Handlers
        /\ h.pc = "loop" /\ h.of = slot[s].of /\ h.row = slot[s].row /\ h.todo = todo
    BY <1>1 DEF Typed, Handlers, At
  <2>2. Become(s, h)
    BY <1>4 DEF InvalidateOne
  <2> HIDE DEF h
  <2>3. QED
    BY <2>1, <2>2
<1>6. /\ slot'[s] = h /\ (\A t \in Slots \ {s} : slot'[t] = slot[t])
      /\ slot' \in [Slots -> Handlers] /\ calls' = calls
  BY <1>5, BecomeEffect
<1>7. CASE Untrusted(r)
  <2>1. PICK q \in Row :
          q.approval = "pending" /\ q.validation = "pending" /\ q.content = r.content
          /\ q = [Reopened(r) EXCEPT !.validation = "pending"]
    BY ReopenedRow
  <2>2. Save(s, a, q) /\ record' = Mark(a)
    BY <1>3, <1>7, <2>1 DEF InvalidateOne
  <2>3. /\ row' \in [Resources -> Row] /\ row'[a] = q
        /\ \A y \in Resources \ {a} : row'[y] = row[y]
        /\ races' \in [Resources -> SUBSET Races]
        /\ \A y \in Resources : races[y] \subseteq races'[y]
        /\ Holders(s, a) # {} => "crossed" \in races'[a]
        /\ q.content # row[a].content /\ Others(s, a, {"engine"}) # {} =>
             "overtaken" \in races'[a]
    BY <1>1, <2>2, SaveEffect
  <2>4. Typed'
    BY <1>1, <1>6, <2>2, <2>3, MarkType, RecordKept, TypedNext DEF Typed, ArtefactTypeOK
  <2>5. Handles(s, a)
    BY <1>1, <1>3, <1>4, <1>5, <1>6, <2>1, <2>3 DEF Handles
  <2>6. QED
    BY <1>6, <2>3, <2>4, <2>5 DEF Moves, OnlyMoves
<1>8. CASE ~Untrusted(r)
  <2>1. UNCHANGED <<row, record, races>>
    BY <1>3, <1>8 DEF InvalidateOne
  <2>2. Typed'
    BY <1>1, <1>6, <2>1, TypedNext DEF Typed, ArtefactTypeOK
  <2>3. Handles(s, a)
    BY <1>1, <1>3, <1>4, <1>5, <1>6, <1>8, <2>1 DEF Handles, Untrusted
  <2>4. QED
    BY <1>6, <2>1, <2>2, <2>3 DEF Moves, OnlyMoves
<1>9. QED
  BY <1>7, <1>8

(* A handler that ends.                                                    *)
LEMMA EndMoves ==
  ASSUME Typed, Base, NEW s \in Slots, End(s), UNCHANGED <<row, record, last>>,
         races' \in [Resources -> SUBSET Races],
         \A x \in Resources : races[x] \subseteq races'[x],
         \A x \in Resources :
           slot[s].of = {x} /\ slot[s].pc \in {"reopen", "mark", "downstream", "loop"} =>
             \/ "abandoned" \in races'[x]
             \/ At(s, "loop") /\ DOMAIN slot[s].todo = {}
  PROVE  Moves(s)
<1>1. /\ slot'[s].pc = "idle" /\ slot'[s].of = {} /\ slot'[s].row = NoContent
      /\ DOMAIN slot'[s].todo = {}
      /\ \A t \in Slots \ {s} : slot'[t] = slot[t]
      /\ slot' \in [Slots -> Handlers] /\ calls' = calls
  BY EndEffect
<1>2. Typed'
  BY <1>1, TypedNext DEF Typed, ArtefactTypeOK
<1>3. Proceeds(s)
  BY <1>1 DEF Proceeds
<1>4. OnlyMoves(s)
  BY <1>1, <1>2 DEF OnlyMoves
<1>5. QED
  BY <1>3, <1>4 DEF Moves

LEMMA RacesKept ==
  Typed => races \in [Resources -> SUBSET Races]
  BY DEF Typed, ArtefactTypeOK

LEMMA EndingMoves ==
  ASSUME Typed, Base, NEW s \in Slots, InvalidationDone(s) \/ Materialise(s)
  PROVE  Moves(s)
<1>1. /\ End(s) /\ UNCHANGED <<row, record, last, races>>
      /\ \/ At(s, "loop") /\ DOMAIN slot[s].todo = {}
         \/ At(s, "queued")
  BY DEF InvalidationDone, Materialise
<1>2. QED
  BY <1>1, RacesKept, EndMoves DEF At

LEMMA AbandonMoves ==
  ASSUME Typed, Base, NEW s \in Slots, Abandon(s)
  PROVE  Moves(s)
<1>1. End(s) /\ UNCHANGED <<row, record, last>>
  BY DEF Abandon
<1>2. CASE slot[s].pc \in {"reopen", "mark", "downstream", "loop", "record"}
  <2>1. PICK x \in Resources : x = Of(s) /\ slot[s].of = {x}
    BY <1>2, WorksOn
  <2>2. Note(x, {"abandoned"})
    BY <1>2, <2>1 DEF Abandon
  <2>3. /\ races' \in [Resources -> SUBSET Races]
        /\ \A y \in Resources : races[y] \subseteq races'[y]
        /\ {"abandoned"} \subseteq races'[x]
    <3>1. {"abandoned"} \in SUBSET Races
      BY DEF Races
    <3>2. QED
      BY <2>2, <3>1, NoteEffect
  <2>4. "abandoned" \in races'[x]
    BY <2>3
  <2>5. \A y \in Resources : slot[s].of = {y} => y = x
    BY <2>1
  <2>6. \A y \in Resources : slot[s].of = {y} => "abandoned" \in races'[y]
    BY <2>4, <2>5
  <2>7. \A y \in Resources :
          slot[s].of = {y} /\ slot[s].pc \in {"reopen", "mark", "downstream", "loop"} =>
            \/ "abandoned" \in races'[y]
            \/ At(s, "loop") /\ DOMAIN slot[s].todo = {}
    BY <2>6
  <2>8. QED
    BY <1>1, <2>3, <2>7, EndMoves
<1>3. CASE slot[s].pc \notin {"reopen", "mark", "downstream", "loop", "record"}
  BY <1>1, <1>3, RacesKept, EndMoves DEF Abandon
<1>4. QED
  BY <1>2, <1>3

LEMMA RecordMoves ==
  ASSUME Typed, Base, NEW s \in Slots, Record(s)
  PROVE  Moves(s)
<1>1. At(s, "record") /\ UNCHANGED <<row, last, races>>
  BY DEF Record
<1>2. PICK x \in Resources : x = Of(s) /\ slot[s].of = {x}
  BY <1>1, WorksOn DEF At
<1>3. slot[s].row = NoContent /\ DOMAIN slot[s].todo = {} /\ slot[s].decision \in Decisions
  BY <1>1, NothingHeld, NothingListed DEF At, Copies, Typed, Handlers
<1>4. record' \in [Resources -> [decision : Decisions \cup {"none"}, invalidated : BOOLEAN]]
  <2>1. record' = [record EXCEPT ![x] = [decision |-> slot[s].decision, invalidated |-> FALSE]]
    BY <1>2 DEF Record
  <2>2. QED
    BY <1>3, <2>1, RecordKept
<1>5. \/ x \in Cases /\ Go(s, "downstream")
      \/ End(s)
  BY <1>2 DEF Record
<1>6. /\ \A t \in Slots \ {s} : slot'[t] = slot[t]
      /\ slot' \in [Slots -> Handlers] /\ calls' = calls
      /\ slot'[s].row = NoContent /\ DOMAIN slot'[s].todo = {}
      /\ \/ x \in Cases /\ slot'[s].pc = "downstream" /\ slot'[s].of = {x}
         \/ slot'[s].pc = "idle" /\ slot'[s].of = {}
  <2>1. CASE x \in Cases /\ Go(s, "downstream")
    BY <1>2, <1>3, <2>1, GoEffect DEF PC
  <2>2. CASE End(s)
    BY <2>2, EndEffect
  <2>3. QED
    BY <1>5, <2>1, <2>2
<1>7. Typed'
  BY <1>1, <1>4, <1>6, TypedNext DEF Typed, ArtefactTypeOK
<1>8. Proceeds(s)
  BY <1>1, <1>2, <1>6 DEF Proceeds, At
<1>9. OnlyMoves(s)
  BY <1>1, <1>6, <1>7 DEF OnlyMoves
<1>10. QED
  BY <1>8, <1>9 DEF Moves

LEMMA HandlerMoves ==
  ASSUME Typed, Base, NEW s \in Slots, Handler(s)
  PROVE  Moves(s)
<1>1. ASSUME NEW c \in Cases, GenerateCase(s, c) PROVE Moves(s)
  BY <1>1, GenerateMoves, ResourcesAssumption DEF GenerateCase, Resources
<1>2. ASSUME NEW a \in Automation, NEW draft, GenerateAutomation(s, a, draft) PROVE Moves(s)
  BY <1>2, GenerateMoves DEF GenerateAutomation, Resources
<1>3. ASSUME GeneratedCase(s) \/ GeneratedAutomation(s) PROVE Moves(s)
  BY <1>3, SaveGeneratedMoves DEF GeneratedCase, GeneratedAutomation, Resources
<1>4. ASSUME NEW x \in Resources, Update(s, x) PROVE Moves(s)
  BY <1>4, UpdateMoves
<1>5. ASSUME SaveEdit(s) \/ OnUpstreamModified(s) \/ SaveReopened(s) PROVE Moves(s)
  BY <1>5, SaveEditMoves, OnUpstreamModifiedMoves, SaveReopenedMoves
<1>6. ASSUME InvalidateDownstream(s) \/ InvalidationDone(s) PROVE Moves(s)
  BY <1>6, InvalidateDownstreamMoves, EndingMoves
<1>7. ASSUME NEW a \in Automation, InvalidateOne(s, a) PROVE Moves(s)
  BY <1>7, InvalidateOneMoves
<1>8. ASSUME NEW a \in Automation, Validate(s, a) \/ Override(s, a) PROVE Moves(s)
  BY <1>8, ValidateMoves
<1>9. ASSUME StartValidation(s) \/ StoreVerdict(s) \/ SaveOverride(s) PROVE Moves(s)
  BY <1>9, StartValidationMoves, StoreMoves
<1>10. ASSUME NEW v \in Verdicts, AnswerValidation(s, v) PROVE Moves(s)
  BY <1>10, AnswerValidationMoves
<1>11. ASSUME NEW x \in Resources, NEW d \in Decisions, Approve(s, x, d) PROVE Moves(s)
  BY <1>11, ApproveMoves
<1>12. ASSUME Decide(s) \/ SaveDecision(s) \/ Record(s) PROVE Moves(s)
  BY <1>12, DecideMoves, SaveDecisionMoves, RecordMoves
<1>13. ASSUME NEW arts \in SUBSET Automation, CreateRun(s, arts) PROVE Moves(s)
  BY <1>13, CreateRunMoves
<1>14. ASSUME Materialise(s) \/ Abandon(s) PROVE Moves(s)
  BY <1>14, EndingMoves, AbandonMoves
<1>15. QED
  BY <1>1, <1>2, <1>3, <1>4, <1>5, <1>6, <1>7, <1>8, <1>9, <1>10, <1>11, <1>12, <1>13, <1>14
  DEF Handler

-----------------------------------------------------------------------------
(* Where things come from, and which handlers hold what, stays true.       *)

(* A row that is there stays; only a generation adds one.                  *)
LEMMA RowsGrow ==
  ASSUME Typed, Base, NEW s \in Slots, Moves(s)
  PROVE  /\ \A y \in Resources : Exists(y) => Exists(y)'
         /\ \A y \in Resources : ~Exists(y)' => row'[y] = row[y]
         /\ \A y \in Resources : Exists(y)' /\ ~Exists(y) =>
              At(s, "generate") /\ slot[s].of = {y} /\ slot'[s].of = {}
<1>1. CASE UNCHANGED row
  BY <1>1 DEF Exists
<1>2. ASSUME NEW x \in Resources, Saved(s, x)
      PROVE  /\ row'[x].content > 0 /\ \A y \in Resources \ {x} : row'[y] = row[y]
             /\ \/ Exists(x)
                \/ At(s, "generate") /\ slot[s].of = {x} /\ slot'[s].of = {}
  <2>1. slot[s].row.content > 0
    BY <1>2 DEF Saved, Base, HoldsCopy
  <2>2. slot[s].of = {x} /\ (At(s, "generate") \/ Exists(x))
    BY <1>2 DEF Saved, Base, Named
  <2>3. At(s, "generate") => slot'[s].of = {}
    BY <1>2 DEF Saved, At
  <2>4. QED
    BY <1>2, <2>1, <2>2, <2>3 DEF Saved
<1>3. ASSUME NEW a \in Automation, Handles(s, a), ~UNCHANGED row
      PROVE  /\ a \in Resources /\ Exists(a)
             /\ row'[a].content > 0 /\ \A y \in Resources \ {a} : row'[y] = row[y]
  BY <1>3 DEF Handles, Base, HoldsCopy, Resources
<1>4. \/ UNCHANGED row
      \/ \E x \in Resources : Saved(s, x)
      \/ \E a \in Automation : Handles(s, a)
  BY DEF Moves, Generates, Copied, Lists, Proceeds
<1>5. QED
  BY <1>1, <1>2, <1>3, <1>4 DEF Exists

(* A handler does not go over to a resource another one is generating.     *)
LEMMA WorkIsTaken ==
  ASSUME Base, NEW s \in Slots, Moves(s)
  PROVE  \A y \in slot'[s].of : y \in slot[s].of \/ Exists(y) \/ Fresh(y)
<1>1. ASSUME NEW x \in Resources, Generates(s, x) \/ Copied(s, x) \/ Saved(s, x)
      PROVE  \A y \in slot'[s].of : y \in slot[s].of \/ Exists(y) \/ Fresh(y)
  BY <1>1 DEF Generates, Copied, Saved
<1>2. ASSUME NEW c \in Cases, Lists(s, c)
      PROVE  \A y \in slot'[s].of : y \in slot[s].of
  BY <1>2 DEF Lists
<1>3. ASSUME NEW a \in Automation, Handles(s, a)
      PROVE  \A y \in slot'[s].of : y \in slot[s].of
  BY <1>3 DEF Handles
<1>4. ASSUME Proceeds(s)
      PROVE  \A y \in slot'[s].of : y \in slot[s].of \/ Exists(y)
  BY <1>4 DEF Proceeds
<1>5. QED
  BY <1>1, <1>2, <1>3, <1>4 DEF Moves

LEMMA OthersStayWell ==
  ASSUME Typed, Base, NEW s \in Slots, Moves(s), NEW t \in Slots \ {s}
  PROVE  Named(t)' /\ NewIsUnique(t)' /\ HoldsCopy(t)'
<1>1. slot'[t] = slot[t] /\ (\A u \in Slots \ {s} : slot'[u] = slot[u])
  BY DEF Moves, OnlyMoves
<1>2. slot[t].of \subseteq Resources /\ DOMAIN slot[t].todo \subseteq Automation
  BY DEF Typed, ArtefactTypeOK
<1>3. Named(t) /\ NewIsUnique(t) /\ HoldsCopy(t)
  BY DEF Base
<1>4. Named(t)'
  BY <1>1, <1>2, <1>3, RowsGrow DEF Named, At
<1>5. HoldsCopy(t)'
  BY <1>1, <1>2, <1>3, RowsGrow DEF HoldsCopy, At, Resources
<1>6. NewIsUnique(t)'
  <2> SUFFICES ASSUME At(t, "generate"), NEW x \in slot[t].of
               PROVE  /\ ~Exists(x)' /\ (x \in Automation => Exists(Source[x])')
                      /\ \A u \in Slots \ {t} : x \notin slot'[u].of
    BY <1>1 DEF NewIsUnique, At
  <2>1. ~Exists(x) /\ (x \in Automation => Exists(Source[x])) /\ x \in Resources
        /\ \A u \in Slots \ {t} : x \notin slot[u].of
    BY <1>2, <1>3 DEF NewIsUnique
  <2>2. ~Exists(x)'
    BY <2>1, RowsGrow
  <2>3. x \in Automation => Exists(Source[x])'
    BY <2>1, RowsGrow, ResourcesAssumption DEF Resources
  <2>4. x \notin slot'[s].of
    BY <2>1, WorkIsTaken DEF Fresh
  <2>5. QED
    BY <1>1, <2>1, <2>2, <2>3, <2>4
<1>7. QED
  BY <1>4, <1>5, <1>6

LEMMA MoverStaysWell ==
  ASSUME Typed, Base, NEW s \in Slots, Moves(s)
  PROVE  Named(s)' /\ NewIsUnique(s)' /\ HoldsCopy(s)'
<1>1. Named(s) /\ NewIsUnique(s) /\ HoldsCopy(s)
  BY DEF Base
<1>2. \A t \in Slots \ {s} : slot'[t] = slot[t]
  BY DEF Moves, OnlyMoves
<1>3. ASSUME NEW x \in Resources, Generates(s, x)
      PROVE  Named(s)' /\ NewIsUnique(s)' /\ HoldsCopy(s)'
  <2>1. /\ slot'[s].pc = "generate" /\ slot'[s].of = {x} /\ DOMAIN slot'[s].todo = {}
        /\ slot'[s].row = [NoContent EXCEPT !.content = 1] /\ UNCHANGED row
    BY <1>3 DEF Generates
  <2>2. Named(s)'
    BY <2>1 DEF Named, At
  <2>3. HoldsCopy(s)'
    BY <2>1, FreshRow DEF HoldsCopy, At
  <2>4. NewIsUnique(s)'
    BY <1>2, <1>3, <2>1 DEF Generates, Fresh, NewIsUnique, At, Exists
  <2>5. QED
    BY <2>2, <2>3, <2>4
<1>4. ASSUME NEW x \in Resources, Copied(s, x)
      PROVE  Named(s)' /\ NewIsUnique(s)' /\ HoldsCopy(s)'
  <2>1. Exists(x)'
    BY <1>4, RowsGrow DEF Copied
  <2>2. QED
    BY <1>4, <2>1 DEF Copied, Named, NewIsUnique, HoldsCopy, At, Copies
<1>5. ASSUME NEW x \in Resources, Saved(s, x)
      PROVE  Named(s)' /\ NewIsUnique(s)' /\ HoldsCopy(s)'
  <2>1. At(s, "generate") \/ Exists(x)'
    BY <1>1, <1>5, RowsGrow DEF Saved, Named
  <2>2. At(s, "validate") => x \in Automation
    BY <1>1, <1>5 DEF Saved, Named, At
  <2>3. slot'[s].row = NoContent /\ DOMAIN slot'[s].todo = {}
        /\ slot'[s].pc \in {"reopen", "downstream", "engine", "record", "idle"}
    BY <1>5 DEF Saved
  <2>4. HoldsCopy(s)' /\ NewIsUnique(s)'
    BY <2>3 DEF HoldsCopy, NewIsUnique, Copies, At
  <2>5. Named(s)'
    BY <1>5, <2>1, <2>2 DEF Saved, Named, At
  <2>6. QED
    BY <2>4, <2>5
<1>6. ASSUME NEW c \in Cases, Lists(s, c)
      PROVE  Named(s)' /\ NewIsUnique(s)' /\ HoldsCopy(s)'
  <2>1. Exists(c)' /\ c \in Resources /\ UNCHANGED row
    BY <1>1, <1>6, RowsGrow DEF Lists, Named, At, Resources
  <2>2. /\ slot'[s].pc = "loop" /\ slot'[s].of = {c} /\ slot'[s].row = NoContent
        /\ slot'[s].todo = [a \in Affected(c) |-> row[a]]
    BY <1>1, <1>6 DEF Lists, HoldsCopy, Copies, At
  <2>3. HoldsCopy(s)'
    BY <2>1, <2>2 DEF HoldsCopy, Copies, At, Affected, Exists
  <2>4. Named(s)' /\ NewIsUnique(s)'
    BY <1>6, <2>1, <2>2 DEF Named, NewIsUnique, At
  <2>5. QED
    BY <2>3, <2>4
<1>7. ASSUME NEW a \in Automation, Handles(s, a)
      PROVE  Named(s)' /\ NewIsUnique(s)' /\ HoldsCopy(s)'
  <2>1. /\ slot'[s].pc = "loop" /\ slot'[s].of = slot[s].of /\ slot'[s].row = NoContent
        /\ slot[s].pc = "loop"
        /\ DOMAIN slot'[s].todo \subseteq DOMAIN slot[s].todo
        /\ \A b \in DOMAIN slot'[s].todo : slot'[s].todo[b] = slot[s].todo[b]
    BY <1>1, <1>7 DEF Handles, HoldsCopy, Copies, At
  <2>2. DOMAIN slot[s].todo \subseteq Resources /\ slot[s].of \subseteq Resources
    BY DEF Typed, ArtefactTypeOK, Resources
  <2>3. HoldsCopy(s)'
    BY <1>1, <2>1, <2>2, RowsGrow DEF HoldsCopy, Copies, At
  <2>4. Named(s)' /\ NewIsUnique(s)'
    BY <1>1, <2>1, <2>2, RowsGrow DEF Named, NewIsUnique, At
  <2>5. QED
    BY <2>3, <2>4
<1>8. ASSUME Proceeds(s)
      PROVE  Named(s)' /\ NewIsUnique(s)' /\ HoldsCopy(s)'
  <2>1. slot'[s].pc \in {"idle", "load", "queued", "downstream"}
        /\ slot'[s].row = NoContent /\ DOMAIN slot'[s].todo = {} /\ UNCHANGED row
    BY <1>8 DEF Proceeds
  <2>2. HoldsCopy(s)' /\ NewIsUnique(s)'
    BY <2>1 DEF HoldsCopy, NewIsUnique, Copies, At
  <2>3. Named(s)'
    BY <1>1, <1>8, <2>1 DEF Proceeds, Named, At, Exists
  <2>4. QED
    BY <2>2, <2>3
<1>9. QED
  BY <1>3, <1>4, <1>5, <1>6, <1>7, <1>8 DEF Moves

LEMMA BaseStays ==
  ASSUME Typed, Base, NEW s \in Slots, Moves(s)
  PROVE  Base'
<1>1. \A t \in Slots : Named(t)' /\ NewIsUnique(t)' /\ HoldsCopy(t)'
  BY OthersStayWell, MoverStaysWell
<1>2. Origins'
  <2>1. ASSUME NEW a \in Automation, Exists(a)' PROVE Exists(Source[a])'
    <3>1. a \in Resources /\ Source[a] \in Resources
      BY ResourcesAssumption DEF Resources
    <3>2. Exists(a) => Exists(Source[a])
      BY DEF Base, Origins
    <3>3. ~Exists(a) => Exists(Source[a])
      BY <2>1, <3>1, RowsGrow DEF Base, NewIsUnique
    <3>4. QED
      BY <3>1, <3>2, <3>3, RowsGrow
  <2>2. ASSUME NEW x \in Resources, ~Exists(x)' PROVE row'[x].approval = "pending"
    BY <2>2, RowsGrow DEF Base, Origins
  <2>3. QED
    BY <2>1, <2>2 DEF Origins, Exists
<1>3. QED
  BY <1>1, <1>2 DEF Base

-----------------------------------------------------------------------------
(* VerdictIsOfContent.  A verdict is stored with the content it speaks of: *)
(* in the row, in every copy of it, and in what the engine was sent.       *)
Judged(r) == Validated(r) => r.checked = r.content
JudgedBy(t, a) ==
  slot[t].of = {a} =>
    Judged(slot[t].row) /\ (At(t, "engine") => slot[t].sent = row[a].content)
VerdictInv(a) ==
  "overtaken" \in races[a] \/ (Judged(row[a]) /\ \A t \in Slots : JudgedBy(t, a))

LEMMA NothingIsJudged ==
  /\ Judged(NoContent) /\ Judged([NoContent EXCEPT !.content = 1])
  /\ ~Approved(NoContent) /\ ~Approved([NoContent EXCEPT !.content = 1])
  BY FreshRow DEF Judged, Validated, Executable, Approved

LEMMA CasesAreNotAutomation ==
  ASSUME NEW a \in Automation
  PROVE  a \in Resources /\ Source[a] \in Cases /\ Source[a] \in Resources /\ Source[a] # a
         /\ \A c \in Cases : c # a
  BY ResourcesAssumption DEF Resources

LEMMA VerdictInvStays ==
  ASSUME Typed, Base, NEW s \in Slots, Moves(s), NEW a \in Automation, VerdictInv(a)
  PROVE  VerdictInv(a)'
<1> SUFFICES ASSUME "overtaken" \notin races'[a]
             PROVE  Judged(row[a])' /\ \A t \in Slots : JudgedBy(t, a)'
  BY DEF VerdictInv
<1>1. /\ \A t \in Slots \ {s} : slot'[t] = slot[t]
      /\ "overtaken" \notin races[a]
  BY CasesAreNotAutomation DEF Moves, OnlyMoves
<1>2. Judged(row[a]) /\ \A t \in Slots : JudgedBy(t, a)
  BY <1>1 DEF VerdictInv
<1>3. ASSUME UNCHANGED row, JudgedBy(s, a)'
      PROVE  Judged(row[a])' /\ \A t \in Slots : JudgedBy(t, a)'
  BY <1>1, <1>2, <1>3 DEF JudgedBy, Judged, Validated, At
<1>4. ASSUME NEW x \in Resources, Generates(s, x) PROVE JudgedBy(s, a)'
  BY <1>4, NothingIsJudged DEF Generates, JudgedBy, Judged, Validated, At
<1>5. ASSUME NEW x \in Resources, Copied(s, x) PROVE JudgedBy(s, a)'
  <2>1. SUFFICES ASSUME slot'[s].of = {a} PROVE Judged(slot[s].row)'
    BY <1>5 DEF Copied, Copies, JudgedBy, At
  <2>2. x = a
    BY <1>5, <2>1 DEF Copied
  <2>3. At(s, "engine") => slot[s].sent = row[a].content
    BY <1>2, <1>5, <2>2 DEF Copied, JudgedBy, At
  <2>4. QED
    BY <1>2, <1>5, <2>2, <2>3 DEF Copied, Judged, Validated
<1>6. ASSUME NEW x \in Resources, Saved(s, x)
      PROVE  Judged(row[a])' /\ \A t \in Slots : JudgedBy(t, a)'
  <2>1. slot[s].of = {x} /\ slot'[s].row = NoContent /\ slot'[s].of \in {{}, {x}}
        /\ (slot'[s].pc = "engine" => slot'[s].sent = row'[x].content)
    BY <1>6 DEF Saved
  <2>2. JudgedBy(s, a)'
    BY <2>1, NothingIsJudged DEF JudgedBy, Judged, Validated, At
  <2>3. CASE x = a
    <3>1. row'[a] = slot[s].row /\ Judged(slot[s].row)
      BY <1>2, <1>6, <2>1, <2>3 DEF Saved, JudgedBy
    <3>2. row'[a].content # row[a].content => Others(s, a, {"engine"}) = {}
      BY <1>6, <2>3 DEF Saved
    <3>3. ASSUME NEW t \in Slots \ {s}, slot[t].of = {a}, At(t, "engine")
          PROVE  slot[t].sent = row'[a].content
      BY <1>2, <3>2, <3>3 DEF Others, JudgedBy, At
    <3>4. \A t \in Slots \ {s} : JudgedBy(t, a)'
      BY <1>1, <1>2, <3>3 DEF JudgedBy, Judged, Validated, At
    <3>5. QED
      BY <2>2, <3>1, <3>4 DEF Judged, Validated
  <2>4. CASE x # a
    <3>1. row'[a] = row[a]
      BY <1>6, <2>4, CasesAreNotAutomation DEF Saved
    <3>2. QED
      BY <1>1, <1>2, <2>2, <3>1 DEF JudgedBy, Judged, Validated, At
  <2>5. QED
    BY <2>3, <2>4
<1>7. ASSUME NEW c \in Cases, Lists(s, c) PROVE JudgedBy(s, a)'
  BY <1>7, CasesAreNotAutomation DEF Lists, JudgedBy
<1>8. ASSUME NEW b \in Automation, Handles(s, b)
      PROVE  Judged(row[a])' /\ \A t \in Slots : JudgedBy(t, a)'
  <2>1. slot'[s].of # {a}
    BY <1>8, CasesAreNotAutomation DEF Handles, Base, HoldsCopy
  <2>2. JudgedBy(s, a)'
    BY <2>1 DEF JudgedBy
  <2>3. CASE row'[a] = row[a]
    BY <1>1, <1>2, <2>2, <2>3 DEF JudgedBy, Judged, Validated, At
  <2>4. CASE row'[a] # row[a]
    <3>1. /\ row'[a].validation = "pending"
          /\ row'[a].content # row[a].content => Others(s, a, {"engine"}) = {}
      BY <1>8, <2>4, CasesAreNotAutomation DEF Handles
    <3>2. ASSUME NEW t \in Slots \ {s}, slot[t].of = {a}, At(t, "engine")
          PROVE  slot[t].sent = row'[a].content
      BY <1>2, <3>1, <3>2 DEF Others, JudgedBy, At
    <3>3. \A t \in Slots \ {s} : JudgedBy(t, a)'
      BY <1>1, <1>2, <3>2 DEF JudgedBy, Judged, Validated, At
    <3>4. QED
      BY <2>2, <3>1, <3>3 DEF Judged, Validated, Executable
  <2>5. QED
    BY <2>3, <2>4
<1>9. ASSUME Proceeds(s) PROVE JudgedBy(s, a)'
  BY <1>9, NothingIsJudged DEF Proceeds, JudgedBy, Judged, Validated, At
<1>10. \/ UNCHANGED row /\ \/ \E x \in Resources : Generates(s, x) \/ Copied(s, x)
                           \/ \E c \in Cases : Lists(s, c)
                           \/ Proceeds(s)
       \/ \E x \in Resources : Saved(s, x)
       \/ \E b \in Automation : Handles(s, b)
  BY DEF Moves, Generates, Copied, Lists, Proceeds
<1>11. QED
  BY <1>3, <1>4, <1>5, <1>6, <1>7, <1>8, <1>9, <1>10

-----------------------------------------------------------------------------
(* ApprovalIsOfContent.  Content and approval differ only between the two  *)
(* saves of an edit, when the verdict is already reset; no copy taken then *)
(* is approved, unless it was loaded by another handler.                   *)
On(t, x, pcs) == slot[t].of = {x} /\ slot[t].pc \in pcs
ApprovedBy(t, a) ==
  slot[t].of = {a} /\ Outdated(slot[t].row) => At(t, "edit") /\ ~Validated(slot[t].row)
BetweenSaves(a) == \E t \in Slots : On(t, a, {"reopen", "mark"})
ApprovalInv(a) ==
  \/ races[a] \cap {"glimpsed", "abandoned"} # {}
  \/ /\ Outdated(row[a]) => ~Validated(row[a]) /\ BetweenSaves(a)
     /\ \A t \in Slots : ApprovedBy(t, a)

LEMMA ApprovalInvStays ==
  ASSUME Typed, Base, NEW s \in Slots, Moves(s), NEW a \in Automation, ApprovalInv(a)
  PROVE  ApprovalInv(a)'
<1> SUFFICES ASSUME races'[a] \cap {"glimpsed", "abandoned"} = {}
             PROVE  /\ (Outdated(row[a]) => ~Validated(row[a]) /\ BetweenSaves(a))'
                    /\ \A t \in Slots : ApprovedBy(t, a)'
  BY DEF ApprovalInv
<1>1. /\ \A t \in Slots \ {s} : slot'[t] = slot[t]
      /\ races[a] \cap {"glimpsed", "abandoned"} = {}
  BY CasesAreNotAutomation DEF Moves, OnlyMoves
<1>2. /\ Outdated(row[a]) => ~Validated(row[a]) /\ BetweenSaves(a)
      /\ \A t \in Slots : ApprovedBy(t, a)
  BY <1>1 DEF ApprovalInv
<1>3. (\A t \in Slots \ {s} : ApprovedBy(t, a)') /\ (BetweenSaves(a) /\ ~BetweenSaves(a)' =>
        On(s, a, {"reopen", "mark"}) /\ ~On(s, a, {"reopen", "mark"})')
  BY <1>1, <1>2 DEF ApprovedBy, BetweenSaves, On, Outdated, Approved, Validated, At
<1>4. ASSUME row'[a] = row[a], ApprovedBy(s, a)',
             Outdated(row[a]) /\ On(s, a, {"reopen", "mark"}) => On(s, a, {"reopen", "mark"})'
      PROVE  /\ (Outdated(row[a]) => ~Validated(row[a]) /\ BetweenSaves(a))'
             /\ \A t \in Slots : ApprovedBy(t, a)'
  BY <1>2, <1>3, <1>4 DEF Outdated, Approved, Validated
<1>5. slot'[s].row = NoContent => ApprovedBy(s, a)'
  BY NothingIsJudged DEF ApprovedBy, Outdated, Approved
<1>6. ASSUME NEW x \in Resources, Generates(s, x)
      PROVE  ApprovedBy(s, a)' /\ ~On(s, a, {"reopen", "mark"}) /\ UNCHANGED row
  BY <1>6, NothingIsJudged DEF Generates, ApprovedBy, Outdated, Approved, On, At
<1>7. ASSUME NEW x \in Resources, Copied(s, x)
      PROVE  /\ ApprovedBy(s, a)' /\ UNCHANGED row
             /\ On(s, a, {"reopen", "mark"}) => On(s, a, {"reopen", "mark"})'
  <2>1. On(s, a, {"reopen", "mark"}) => At(s, "reopen") /\ x = a
    BY <1>7 DEF Copied, On, At
  <2>2. On(s, a, {"reopen", "mark"}) => On(s, a, {"reopen", "mark"})'
    BY <1>7, <2>1 DEF Copied, On
  <2>3. ASSUME slot'[s].of = {a}, Outdated(slot'[s].row)
        PROVE  slot'[s].pc = "edit" /\ ~Validated(slot'[s].row)
    <3>1. x = a /\ ~At(s, "reopen")
      BY <1>7, <2>3 DEF Copied, Outdated
    <3>2. ASSUME slot'[s].pc # "edit" PROVE FALSE
      <4>1. Outdated(row[a]) /\ (Others(s, a, {"reopen", "mark"}) # {} => "glimpsed" \in races'[a])
        BY <1>7, <2>3, <3>1, <3>2 DEF Copied
      <4>2. PICK t \in Slots : On(t, a, {"reopen", "mark"})
        BY <1>2, <4>1 DEF BetweenSaves
      <4>3. t \in Others(s, a, {"reopen", "mark"})
        BY <2>1, <3>1, <4>2 DEF Others, On
      <4>4. QED
        BY <4>1, <4>3
    <3>3. QED
      BY <1>7, <2>3, <3>1, <3>2 DEF Copied
  <2>4. QED
    BY <1>7, <2>2, <2>3 DEF Copied, ApprovedBy, At
<1>8. ASSUME NEW x \in Resources, Saved(s, x)
      PROVE  /\ (Outdated(row[a]) => ~Validated(row[a]) /\ BetweenSaves(a))'
             /\ \A t \in Slots : ApprovedBy(t, a)'
  <2>1. ApprovedBy(s, a)' /\ slot[s].of = {x}
    BY <1>5, <1>8 DEF Saved
  <2>2. CASE x = a
    <3>1. row'[a] = slot[s].row
      BY <1>8, <2>2 DEF Saved
    <3>2. ASSUME Outdated(slot[s].row)
          PROVE  ~Validated(slot[s].row) /\ BetweenSaves(a)'
      <4>1. At(s, "edit") /\ ~Validated(slot[s].row)
        BY <1>2, <2>1, <2>2, <3>2 DEF ApprovedBy
      <4>2. slot'[s].pc = "reopen" /\ slot'[s].of = {a}
        BY <1>8, <2>2, <4>1 DEF Saved, At
      <4>3. QED
        BY <4>1, <4>2 DEF BetweenSaves, On
    <3>3. QED
      BY <1>3, <2>1, <3>1, <3>2 DEF Outdated, Approved, Validated
  <2>3. CASE x # a
    <3>1. row'[a] = row[a] /\ ~On(s, a, {"reopen", "mark"})
      BY <1>8, <2>1, <2>3, CasesAreNotAutomation DEF Saved, On
    <3>2. QED
      BY <1>4, <2>1, <3>1
  <2>4. QED
    BY <2>2, <2>3
<1>9. ASSUME NEW c \in Cases, Lists(s, c)
      PROVE  ApprovedBy(s, a)' /\ ~On(s, a, {"reopen", "mark"}) /\ UNCHANGED row
  BY <1>9, CasesAreNotAutomation DEF Lists, ApprovedBy, On
<1>10. ASSUME NEW b \in Automation, Handles(s, b)
      PROVE  /\ (Outdated(row[a]) => ~Validated(row[a]) /\ BetweenSaves(a))'
             /\ \A t \in Slots : ApprovedBy(t, a)'
  <2>1. ApprovedBy(s, a)' /\ ~On(s, a, {"reopen", "mark"})
    BY <1>10, CasesAreNotAutomation DEF Handles, Base, HoldsCopy, ApprovedBy, On
  <2>2. row'[a] = row[a] \/ row'[a].approval = "pending"
    BY <1>10, CasesAreNotAutomation DEF Handles
  <2>3. QED
    BY <1>3, <1>4, <2>1, <2>2 DEF Outdated, Approved
<1>11. ASSUME Proceeds(s)
       PROVE  /\ ApprovedBy(s, a)' /\ UNCHANGED row
              /\ Outdated(row[a]) => ~On(s, a, {"reopen", "mark"})
  <2>1. "abandoned" \notin races'[a]
    OBVIOUS
  <2>2. QED
    BY <1>5, <1>11, <2>1, CasesAreNotAutomation DEF Proceeds, On, Outdated, At
<1>12. \/ \E x \in Resources : Generates(s, x) \/ Copied(s, x) \/ Saved(s, x)
       \/ \E c \in Cases : Lists(s, c)
       \/ \E b \in Automation : Handles(s, b)
       \/ Proceeds(s)
  BY DEF Moves
<1>13. QED
  BY <1>4, <1>6, <1>7, <1>8, <1>9, <1>10, <1>11, <1>12

-----------------------------------------------------------------------------
(* CaseChangeReopens.  A case that changes is announced by the handler     *)
(* that changed it until its automation is listed, and what is listed is   *)
(* what is stored until it is reopened: all the others would have crossed. *)
Announced(c) == \E t \in Slots : On(t, c, {"reopen", "mark", "downstream"})
Listed(a) == \E t \in Slots : a \in DOMAIN slot[t].todo
Excused(a) ==
  "crossed" \in races[a] \cup races[Source[a]] \/ "abandoned" \in races[Source[a]]
SettledBy(t, a) ==
  /\ slot[t].of = {a} /\ Undermined(a, slot[t].row) =>
       Announced(Source[a]) \/ Undermined(a, row[a])
  /\ a \in DOMAIN slot[t].todo => slot[t].todo[a] = row[a]
CaseInv(a) ==
  \/ Excused(a)
  \/ /\ Undermined(a, row[a]) => Announced(Source[a]) \/ Listed(a)
     /\ \A t \in Slots : SettledBy(t, a)

CopyOfCase(t, c) == On(t, c, {"mark", "decide"}) => slot[t].row.content = row[c].content
CopiesOfCase(c) == "crossed" \in races[c] \/ \A t \in Slots : CopyOfCase(t, c)

LEMMA CopiesOfCaseStay ==
  ASSUME Typed, Base, NEW s \in Slots, Moves(s), NEW c \in Cases, CopiesOfCase(c)
  PROVE  CopiesOfCase(c)'
<1> SUFFICES ASSUME "crossed" \notin races'[c]
             PROVE  \A t \in Slots : CopyOfCase(t, c)'
  BY DEF CopiesOfCase
<1>1. /\ \A t \in Slots \ {s} : slot'[t] = slot[t]
      /\ "crossed" \notin races[c] /\ c \in Resources
  BY DEF Moves, OnlyMoves, Resources
<1>2. \A t \in Slots : CopyOfCase(t, c)
  BY <1>1 DEF CopiesOfCase
<1>3. ASSUME row'[c] = row[c], CopyOfCase(s, c)' PROVE \A t \in Slots : CopyOfCase(t, c)'
  BY <1>1, <1>2, <1>3 DEF CopyOfCase, On
<1>4. ASSUME NEW x \in Resources, Saved(s, x) PROVE \A t \in Slots : CopyOfCase(t, c)'
  <2>1. CopyOfCase(s, c)'
    BY <1>4 DEF Saved, CopyOfCase, On
  <2>2. CASE x = c
    <3>1. Holders(s, c) = {}
      BY <1>4, <2>2 DEF Saved
    <3>2. \A t \in Slots \ {s} : ~On(t, c, {"mark", "decide"})
      BY <3>1 DEF Holders, Others, On
    <3>3. QED
      BY <1>1, <2>1, <3>2 DEF CopyOfCase, On
  <2>3. CASE x # c
    BY <1>1, <1>3, <1>4, <2>1, <2>3 DEF Saved
  <2>4. QED
    BY <2>2, <2>3
<1>5. ASSUME NEW x \in Resources, Copied(s, x) PROVE CopyOfCase(s, c)' /\ UNCHANGED row
  BY <1>5 DEF Copied, CopyOfCase, On
<1>6. ASSUME NEW x \in Resources, Generates(s, x) PROVE CopyOfCase(s, c)' /\ UNCHANGED row
  BY <1>6 DEF Generates, CopyOfCase, On
<1>7. ASSUME NEW d \in Cases, Lists(s, d) PROVE CopyOfCase(s, c)' /\ UNCHANGED row
  BY <1>7 DEF Lists, CopyOfCase, On
<1>8. ASSUME NEW b \in Automation, Handles(s, b) PROVE CopyOfCase(s, c)' /\ row'[c] = row[c]
  BY <1>1, <1>8, CasesAreNotAutomation DEF Handles, CopyOfCase, On
<1>9. ASSUME Proceeds(s) PROVE CopyOfCase(s, c)' /\ UNCHANGED row
  BY <1>9 DEF Proceeds, CopyOfCase, On
<1>10. QED
  BY <1>3, <1>4, <1>5, <1>6, <1>7, <1>8, <1>9 DEF Moves

LEMMA ApprovedIsThere ==
  ASSUME Base, NEW x \in Resources, Approved(row[x]) PROVE Exists(x)
  BY DEF Base, Origins, Approved

LEMMA ApprovedIsHeld ==
  ASSUME Base, NEW t \in Slots, NEW a, slot[t].of = {a}, Approved(slot[t].row)
  PROVE  slot[t].pc \in Copies /\ Exists(a)
<1>1. slot[t].pc \in Copies
  BY NothingIsJudged DEF Base, HoldsCopy, At
<1>2. QED
  BY <1>1 DEF Copies, Base, Named, At

LEMMA CaseInvStays ==
  ASSUME Typed, Base, NEW s \in Slots, Moves(s), NEW a \in Automation, CaseInv(a),
         CopiesOfCase(Source[a])
  PROVE  CaseInv(a)'
<1> DEFINE c == Source[a]
           Goal == /\ (Undermined(a, row[a]) => Announced(c) \/ Listed(a))'
                   /\ \A t \in Slots : SettledBy(t, a)'
<1> SUFFICES ASSUME ~Excused(a)' PROVE Goal
  BY DEF CaseInv
<1>1. c \in Cases /\ c \in Resources /\ a \in Resources /\ c # a /\ \A d \in Cases : d # a
  BY CasesAreNotAutomation
<1>2. /\ \A t \in Slots \ {s} : slot'[t] = slot[t]
      /\ "crossed" \notin races'[a] /\ "crossed" \notin races'[c] /\ "abandoned" \notin races'[c]
      /\ ~Excused(a)
  BY <1>1 DEF Moves, OnlyMoves, Excused
<1>3. /\ Undermined(a, row[a]) => Announced(c) \/ Listed(a)
      /\ \A t \in Slots : SettledBy(t, a)
  BY <1>2 DEF CaseInv
<1>4. \A t \in Slots : CopyOfCase(t, c)
  BY <1>2 DEF CopiesOfCase, Excused
(* A step that leaves both rows, and what the handler announces or lists.  *)
<1>5. ASSUME row'[a] = row[a], row'[c].content = row[c].content,
             On(s, c, {"reopen", "mark", "downstream"}) =>
               On(s, c, {"reopen", "mark", "downstream"})',
             a \in DOMAIN slot[s].todo => a \in DOMAIN slot'[s].todo, SettledBy(s, a)'
      PROVE  Goal
  <2>1. (Announced(c) => Announced(c)') /\ (Listed(a) => Listed(a)')
    BY <1>2, <1>5 DEF Announced, Listed, On
  <2>2. \A r \in Row : Undermined(a, r)' <=> Undermined(a, r)
    BY <1>5 DEF Undermined, Approved
  <2>3. row[a] \in Row /\ \A t \in Slots : slot[t].row \in Row
    BY <1>1 DEF Typed, ArtefactTypeOK
  <2>4. \A t \in Slots \ {s} : SettledBy(t, a)'
    BY <1>2, <1>3, <1>5, <2>1, <2>2, <2>3 DEF SettledBy, Undermined
  <2>5. QED
    BY <1>3, <1>5, <2>1, <2>2, <2>3, <2>4 DEF Undermined
<1>6. slot'[s].row = NoContent /\ DOMAIN slot'[s].todo = {} => SettledBy(s, a)'
  BY NothingIsJudged DEF SettledBy, Undermined, Approved
<1>7. ASSUME NEW x \in Resources, Generates(s, x) PROVE Goal
  <2>1. SettledBy(s, a)'
    BY <1>7, NothingIsJudged DEF Generates, SettledBy, Undermined, Approved
  <2>2. DOMAIN slot[s].todo = {}
    BY <1>7, NothingListed DEF Generates, At
  <2>3. ~On(s, c, {"reopen", "mark", "downstream"}) /\ UNCHANGED row
    BY <1>7 DEF Generates, On, At
  <2>4. QED
    BY <1>5, <2>1, <2>2, <2>3
<1>8. ASSUME NEW x \in Resources, Copied(s, x) PROVE Goal
  <2>1. SettledBy(s, a)'
    BY <1>8 DEF Copied, SettledBy, Undermined, Approved
  <2>2. DOMAIN slot[s].todo = {}
    BY <1>8, NothingListed DEF Copied, At
  <2>3. On(s, c, {"reopen", "mark", "downstream"}) =>
          On(s, c, {"reopen", "mark", "downstream"})'
    BY <1>8 DEF Copied, On, At
  <2>4. QED
    BY <1>5, <1>8, <2>1, <2>2, <2>3 DEF Copied
<1>9. ASSUME NEW d \in Cases, Lists(s, d) PROVE Goal
  <2>1. /\ slot[s].of = {d} /\ UNCHANGED row /\ slot'[s].of = {d}
        /\ slot'[s].todo = [b \in Affected(d) |-> row[b]] /\ DOMAIN slot[s].todo = {}
    BY <1>9, NothingListed DEF Lists, At
  <2>2. SettledBy(s, a)'
    BY <1>1, <2>1 DEF SettledBy
  <2>3. CASE d # c
    BY <1>5, <2>1, <2>2, <2>3 DEF On
  <2>4. CASE d = c
    <3>1. Undermined(a, row[a]) => a \in DOMAIN slot'[s].todo
      BY <1>1, <2>1, <2>4, ApprovedIsThere DEF Undermined, Affected
    <3>2. ASSUME NEW t \in Slots \ {s}, slot[t].of = {a}, Undermined(a, slot[t].row)
          PROVE  FALSE
      <4>1. slot[t].pc \in Copies /\ Exists(a)
        BY <3>2, ApprovedIsHeld DEF Undermined
      <4>2. t \in Holders(s, a) /\ a \in Affected(d)
        BY <2>4, <3>2, <4>1 DEF Holders, Others, Copies, Affected
      <4>3. QED
        BY <1>2, <1>9, <4>2 DEF Lists
    <3>3. \A t \in Slots \ {s} : SettledBy(t, a)'
      BY <1>2, <1>3, <2>1, <3>2 DEF SettledBy, Undermined
    <3>4. QED
      BY <2>1, <2>2, <3>1, <3>3 DEF Undermined, Listed
  <2>5. QED
    BY <2>3, <2>4
<1>10. ASSUME NEW b \in Automation, Handles(s, b) PROVE Goal
  <2>1. /\ row'[c] = row[c] /\ At(s, "loop") /\ slot'[s].of # {a}
        /\ \A e \in DOMAIN slot'[s].todo :
             e \in DOMAIN slot[s].todo /\ e # b /\ slot'[s].todo[e] = slot[s].todo[e]
    BY <1>1, <1>10, CasesAreNotAutomation DEF Handles, Base, HoldsCopy
  <2>2. ~On(s, c, {"reopen", "mark", "downstream"})
    BY <2>1 DEF On, At
  <2>3. CASE b # a
    <3>1. row'[a] = row[a] /\ (a \in DOMAIN slot[s].todo => a \in DOMAIN slot'[s].todo)
      BY <1>1, <1>10, <2>3 DEF Handles
    <3>2. SettledBy(s, a)'
      BY <1>3, <2>1, <3>1 DEF SettledBy
    <3>3. QED
      BY <1>5, <2>1, <2>2, <3>1, <3>2
  <2>4. CASE b = a /\ UNCHANGED row /\ ~Approved(slot[s].todo[a])
    <3>1. ~Approved(row[a])
      BY <1>3, <1>10, <2>4 DEF Handles, SettledBy
    <3>2. SettledBy(s, a)'
      BY <2>1, <2>4 DEF SettledBy
    <3>3. (Announced(c) => Announced(c)')
      BY <1>2, <2>2 DEF Announced, On
    <3>4. \A t \in Slots \ {s} : SettledBy(t, a)'
      BY <1>2, <1>3, <2>4, <3>1, <3>3 DEF SettledBy, Undermined
    <3>5. QED
      BY <2>4, <3>1, <3>2, <3>4 DEF Undermined, Approved
  <2>5. CASE b = a /\ row'[a].approval = "pending" /\ Holders(s, a) = {}
    <3>1. ASSUME NEW t \in Slots \ {s}
          PROVE  a \notin DOMAIN slot[t].todo /\ ~(slot[t].of = {a} /\ Undermined(a, slot[t].row))
      <4>1. t \notin Holders(s, a)
        BY <2>5
      <4>2. a \notin DOMAIN slot[t].todo
        BY <4>1 DEF Holders
      <4>3. ASSUME slot[t].of = {a}, Approved(slot[t].row) PROVE FALSE
        BY <4>1, <4>3, ApprovedIsHeld DEF Holders, Others, Copies
      <4>4. QED
        BY <4>2, <4>3 DEF Undermined
    <3>2. \A t \in Slots \ {s} : SettledBy(t, a)'
      BY <1>2, <2>1, <3>1 DEF SettledBy, Undermined
    <3>3. SettledBy(s, a)'
      BY <2>1, <2>5 DEF SettledBy
    <3>4. QED
      BY <2>5, <3>2, <3>3 DEF Undermined, Approved
  <2>6. QED
    BY <1>2, <1>10, <2>3, <2>4, <2>5 DEF Handles
<1>11. ASSUME Proceeds(s) PROVE Goal
  <2>1. UNCHANGED row /\ SettledBy(s, a)'
    BY <1>6, <1>11 DEF Proceeds
  <2>2. a \notin DOMAIN slot[s].todo
    <3>1. a \in DOMAIN slot[s].todo => At(s, "loop") /\ slot[s].of = {c}
      BY DEF Base, HoldsCopy
    <3>2. QED
      BY <1>1, <1>2, <1>11, <3>1 DEF Proceeds, At
  <2>3. On(s, c, {"reopen", "mark", "downstream"}) =>
          On(s, c, {"reopen", "mark", "downstream"})'
    BY <1>1, <1>2, <1>11 DEF Proceeds, On, At
  <2>4. QED
    BY <1>5, <2>1, <2>2, <2>3
<1>12. ASSUME NEW x \in Resources, Saved(s, x) PROVE Goal
  <2>1. /\ slot[s].of = {x} /\ SettledBy(s, a)' /\ DOMAIN slot'[s].todo = {}
        /\ DOMAIN slot[s].todo = {} /\ \A y \in Resources \ {x} : row'[y] = row[y]
    BY <1>6, <1>12, NothingListed DEF Saved, Copies, At
  <2>2. CASE x \notin {a, c}
    <3>1. row'[a] = row[a] /\ row'[c] = row[c]
      BY <1>1, <2>1, <2>2
    <3>2. ~On(s, c, {"reopen", "mark", "downstream"})
      BY <2>1, <2>2 DEF On
    <3>3. QED
      BY <1>5, <2>1, <3>1, <3>2
  <2>3. CASE x = a
    <3>1. Holders(s, a) = {} /\ row'[a] = slot[s].row /\ row'[c] = row[c]
      BY <1>1, <1>2, <1>12, <2>1, <2>3 DEF Saved
    <3>2. \A t \in Slots : a \notin DOMAIN slot[t].todo
      BY <2>1, <3>1 DEF Holders
    <3>3. Announced(c) => Announced(c)'
      BY <1>1, <1>2, <2>1, <2>3 DEF Announced, On
    <3>4. \A t \in Slots : slot[t].of = {a} /\ Undermined(a, slot[t].row) => Announced(c)'
      BY <1>3, <3>2, <3>3 DEF SettledBy, Listed
    <3>5. \A t \in Slots \ {s} : SettledBy(t, a)'
      BY <1>2, <3>1, <3>2, <3>4 DEF SettledBy, Undermined
    <3>6. QED
      BY <2>1, <2>3, <3>1, <3>4, <3>5 DEF Undermined
  <2>4. CASE x = c
    <3>1. row'[a] = row[a] /\ row'[c] = slot[s].row
      BY <1>1, <1>12, <2>1, <2>4 DEF Saved
    <3>2. CASE slot[s].pc \in {"edit", "mark"}
      <4>1. On(s, c, {"reopen", "mark", "downstream"})'
        BY <1>1, <1>12, <2>4, <3>2 DEF Saved, On, At
      <4>2. Announced(c)'
        BY <4>1 DEF Announced
      <4>3. \A t \in Slots \ {s} : SettledBy(t, a)'
        BY <1>2, <1>3, <3>1, <4>2 DEF SettledBy
      <4>4. QED
        BY <2>1, <4>2, <4>3
    <3>3. CASE At(s, "decide")
      <4>1. row'[c].content = row[c].content
        BY <1>4, <2>1, <2>4, <3>1, <3>3 DEF CopyOfCase, On, At
      <4>2. QED
        BY <1>5, <2>1, <3>1, <3>3, <4>1 DEF On, At
    <3>4. CASE At(s, "generate")
      <4>1. ~Exists(c) /\ ~Exists(a)
        BY <2>1, <2>4, <3>4 DEF Base, NewIsUnique, Origins
      <4>2. ~Approved(row[a])
        BY <1>1, <4>1, ApprovedIsThere
      <4>3. ASSUME NEW t \in Slots, slot[t].of = {a}, Approved(slot[t].row) PROVE FALSE
        BY <4>1, <4>3, ApprovedIsHeld
      <4>4. \A t \in Slots \ {s} : SettledBy(t, a)'
        BY <1>2, <1>3, <3>1, <4>3 DEF SettledBy, Undermined
      <4>5. QED
        BY <2>1, <3>1, <4>2, <4>4 DEF Undermined, Approved
    <3>5. CASE slot[s].pc \in {"validate", "verdict", "override"}
      BY <1>1, <2>1, <2>4, <3>5, ResourcesAssumption DEF Base, Named
    <3>6. QED
      BY <1>12, <3>2, <3>3, <3>4, <3>5 DEF Saved, Copies, At
  <2>5. QED
    BY <2>2, <2>3, <2>4
<1>13. QED
  BY <1>7, <1>8, <1>9, <1>10, <1>11, <1>12 DEF Moves

-----------------------------------------------------------------------------
(* The inductive invariant and the theorems.                               *)
ArtefactInv ==
  /\ Typed /\ Base
  /\ \A a \in Automation : VerdictInv(a) /\ ApprovalInv(a) /\ CaseInv(a)
  /\ \A c \in Cases : CopiesOfCase(c)

LEMMA ArtefactInvInit == ArtefactInit => ArtefactInv
<1> SUFFICES ASSUME ArtefactInit PROVE ArtefactInv
  OBVIOUS
<1>1. Typed
  <2>1. slot \in [Slots -> Handlers] /\ row \in [Resources -> Row]
    BY IdleHandler, NoContentRow DEF ArtefactInit
  <2>2. record \in [Resources -> [decision : Decisions \cup {"none"}, invalidated : BOOLEAN]]
    BY DEF ArtefactInit
  <2>3. /\ last \in [Resources -> 0..MaxContent] /\ calls \in 0..MaxCalls
        /\ races \in [Resources -> SUBSET Races]
    BY BoundsAssumption DEF ArtefactInit
  <2>4. \A s \in Slots :
          /\ slot[s].pc \in PC /\ slot[s].of \subseteq Resources /\ slot[s].row \in Row
          /\ slot[s].decision \in Decisions /\ DOMAIN slot[s].todo \subseteq Automation
    BY <2>1 DEF Handlers, Todos
  <2>5. QED
    BY <2>1, <2>2, <2>3, <2>4 DEF Typed, ArtefactTypeOK
<1>2. \A s \in Slots : /\ slot[s].pc = "idle" /\ slot[s].of = {} /\ slot[s].row = NoContent
                       /\ DOMAIN slot[s].todo = {}
  <2>1. Idle.pc = "idle" /\ Idle.of = {} /\ Idle.row = NoContent
    BY DEF Idle
  <2>2. QED
    BY <2>1, IdleHandler DEF ArtefactInit
<1>3. \A x \in Resources : row[x] = NoContent
  BY DEF ArtefactInit
<1>4. NoContent.content = 0 /\ NoContent.approval = "pending"
  BY FreshRow
<1>5. Base
  BY <1>2, <1>3, <1>4
  DEF Base, Origins, Named, NewIsUnique, HoldsCopy, Exists, At, Copies, Resources
<1>6. \A a \in Automation : VerdictInv(a)
  BY <1>2, <1>3, NothingIsJudged DEF VerdictInv, JudgedBy, Resources
<1>7. \A a \in Automation : ApprovalInv(a)
  BY <1>2, <1>3, NothingIsJudged DEF ApprovalInv, ApprovedBy, Outdated, Resources
<1>8. \A a \in Automation : CaseInv(a)
  BY <1>2, <1>3, NothingIsJudged DEF CaseInv, SettledBy, Undermined, Resources
<1>9. \A c \in Cases : CopiesOfCase(c)
  BY <1>2 DEF CopiesOfCase, CopyOfCase, On
<1>10. QED
  BY <1>1, <1>5, <1>6, <1>7, <1>8, <1>9 DEF ArtefactInv

LEMMA ArtefactInvNext == ArtefactInv /\ [ArtefactNext]_artefactVars => ArtefactInv'
<1> SUFFICES ASSUME ArtefactInv, [ArtefactNext]_artefactVars PROVE ArtefactInv'
  OBVIOUS
<1>1. ASSUME NEW s \in Slots, Handler(s) PROVE ArtefactInv'
  <2>1. Typed /\ Base /\ Moves(s)
    BY <1>1, HandlerMoves DEF ArtefactInv
  <2>2. Typed' /\ Base'
    BY <2>1, BaseStays DEF Moves, OnlyMoves
  <2>3. \A a \in Automation : VerdictInv(a)' /\ ApprovalInv(a)'
    BY <2>1, VerdictInvStays, ApprovalInvStays DEF ArtefactInv
  <2>4. \A c \in Cases : CopiesOfCase(c)'
    BY <2>1, CopiesOfCaseStay DEF ArtefactInv
  <2>5. ASSUME NEW a \in Automation PROVE CaseInv(a)'
    <3>1. CaseInv(a) /\ CopiesOfCase(Source[a])
      BY CasesAreNotAutomation DEF ArtefactInv
    <3>2. QED
      BY <2>1, <3>1, CaseInvStays
  <2>6. QED
    BY <2>2, <2>3, <2>4, <2>5 DEF ArtefactInv
<1>2. ASSUME UNCHANGED artefactVars PROVE ArtefactInv'
  <2>1. UNCHANGED row /\ UNCHANGED record /\ UNCHANGED last /\ UNCHANGED slot
        /\ UNCHANGED calls /\ UNCHANGED races
    BY <1>2 DEF artefactVars
  <2>2. Typed'
    BY <2>1 DEF ArtefactInv, Typed, ArtefactTypeOK
  <2>3. Base'
    BY <2>1 DEF ArtefactInv, Base, Origins, Named, NewIsUnique, HoldsCopy, Exists, At
  <2>4. \A a \in Automation : VerdictInv(a)'
    BY <2>1 DEF ArtefactInv, VerdictInv, Judged, Validated, JudgedBy, At
  <2>5. \A a \in Automation : ApprovalInv(a)'
    BY <2>1 DEF ArtefactInv, ApprovalInv, Outdated, Approved, Validated, BetweenSaves, On,
                ApprovedBy, At
  <2>6. \A a \in Automation : CaseInv(a)'
    BY <2>1 DEF ArtefactInv, CaseInv, Excused, Undermined, Approved, Announced, Listed, On,
                SettledBy
  <2>7. \A c \in Cases : CopiesOfCase(c)'
    BY <2>1 DEF ArtefactInv, CopiesOfCase, CopyOfCase, On
  <2>8. QED
    BY <2>2, <2>3, <2>4, <2>5, <2>6, <2>7 DEF ArtefactInv
<1>3. QED
  BY <1>1, <1>2 DEF ArtefactNext

(* Every reachable state satisfies the inductive invariant.                *)
THEOREM ArtefactInvHolds == ArtefactSpec => []ArtefactInv
  BY ArtefactInvInit, ArtefactInvNext, PTL DEF ArtefactSpec

(* Rows, approvals and handlers keep their types.                          *)
THEOREM ArtefactsAreTyped == ArtefactSpec => []ArtefactTypeOK
<1>1. ArtefactInv => ArtefactTypeOK
  BY DEF ArtefactInv, Typed
<1>2. QED
  BY <1>1, ArtefactInvHolds, PTL

(* A verdict that lets automation run speaks of the content it stands      *)
(* beside, unless that changed while the engine had it: updateContent()    *)
(* resets it in the save of the content, and what a handler saves later is *)
(* a content with its own verdict.                                         *)
THEOREM VerdictsAreOfContent == ArtefactSpec => []VerdictIsOfContent
<1>1. ArtefactInv => VerdictIsOfContent
  BY DEF ArtefactInv, VerdictInv, VerdictIsOfContent, Judged
<1>2. QED
  BY <1>1, ArtefactInvHolds, PTL

(* Automation that passes the gate was approved with the content it has,   *)
(* unless a handler loaded or left it between the two saves of an edit.    *)
THEOREM ApprovalsAreOfContent == ArtefactSpec => []ApprovalIsOfContent
<1>1. ArtefactInv => ApprovalIsOfContent
  BY DEF ArtefactInv, ApprovalInv, ApprovalIsOfContent, Outdated, Ready
<1>2. QED
  BY <1>1, ArtefactInvHolds, PTL

(* Automation that passes the gate was approved for its test case as it is *)
(* now, except while the change of the case is carried through, after one  *)
(* that broke off, and when two handlers wrote the same row.               *)
THEOREM CaseChangesReopen == ArtefactSpec => []CaseChangeReopens
<1>1. ASSUME ArtefactInv PROVE CaseChangeReopens
  <2> SUFFICES ASSUME NEW a \in Automation, Ready(row[a]),
                      row[a].basis # row[Source[a]].content, ~Excused(a)
               PROVE  \E s \in Slots : CarriedThrough(s, a)
    BY DEF CaseChangeReopens, Excused
  <2>1. Announced(Source[a]) \/ Listed(a)
    BY <1>1 DEF ArtefactInv, CaseInv, Undermined, Ready
  <2>2. \A s \in Slots : a \in DOMAIN slot[s].todo => slot[s].of = {Source[a]}
    BY <1>1 DEF ArtefactInv, Base, HoldsCopy
  <2>3. QED
    BY <2>1, <2>2 DEF Announced, Listed, On, CarriedThrough
<1>2. QED
  BY <1>1, ArtefactInvHolds, PTL

-----------------------------------------------------------------------------
(* The approvals table.  What a handler is about to store or to record     *)
(* agrees with the approval of the row, until handlers cross or break off. *)
GoodEntry == [decision |-> "approved", invalidated |-> FALSE]
SoundCopy(t, x) ==
  slot[t].of = {x} =>
    /\ slot[t].pc \in {"edit", "validate", "verdict", "override"} =>
         slot[t].row.approval = row[x].approval
    /\ slot[t].pc \in {"generate", "mark"} => ~Approved(slot[t].row)
    /\ slot[t].pc = "decide" => (Approved(slot[t].row) <=> slot[t].decision = "approved")
    /\ slot[t].pc = "record" => (Approved(row[x]) <=> slot[t].decision = "approved")
Recorded(x) == Approved(row[x]) <=> record[x] = GoodEntry
RecordInv(x) ==
  races[x] = {} =>
    /\ \A t \in Slots : SoundCopy(t, x)
    /\ (\A t \in Slots : ~On(t, x, {"record"})) => Recorded(x)

(* What a step does to approvals and to the table: nothing, with a sound   *)
(* copy at most; it saves a row as approved as it was; it saves a decision *)
(* and records it later; it reopens a row and marks its entry; it breaks   *)
(* off where the decision was not recorded.                                *)
TakesSound(s) ==
  /\ UNCHANGED <<row, record>> /\ ~At(s, "record") /\ slot'[s].pc # "record"
  /\ \A x \in Resources : SoundCopy(s, x)'

Rewrites(s, x) ==
  /\ \A y \in Resources \ {x} : row'[y] = row[y]
  /\ Holders(s, x) # {} => "crossed" \in races'[x]

SavesSame(s, x) ==
  /\ slot[s].of = {x} /\ slot[s].pc \in {"generate", "edit", "validate", "verdict", "override"}
  /\ Rewrites(s, x) /\ row'[x] = slot[s].row /\ UNCHANGED record
  /\ slot'[s].pc \in {"idle", "reopen", "engine"}

SavesDecided(s, x) ==
  /\ slot[s].of = {x} /\ At(s, "decide")
  /\ Rewrites(s, x) /\ row'[x] = slot[s].row /\ UNCHANGED record
  /\ slot'[s].pc = "record" /\ slot'[s].of = {x} /\ slot'[s].decision = slot[s].decision

Records(s, x) ==
  /\ slot[s].of = {x} /\ At(s, "record") /\ UNCHANGED row
  /\ record'[x] = [decision |-> slot[s].decision, invalidated |-> FALSE]
  /\ \A y \in Resources \ {x} : record'[y] = record[y]
  /\ slot'[s].pc \in {"idle", "downstream"}

Reopens(s, x) ==
  /\ slot[s].pc \in {"mark", "loop"} /\ Rewrites(s, x)
  /\ At(s, "mark") => slot[s].of = {x} /\ row'[x] = slot[s].row
  /\ At(s, "loop") => ~Approved(row'[x])
  /\ record' = Mark(x) /\ slot'[s].pc \in {"idle", "downstream", "loop"}

BreaksOff(s, x) ==
  /\ slot[s].of = {x} /\ At(s, "record") /\ UNCHANGED <<row, record>>
  /\ slot'[s].pc = "idle" /\ races'[x] # {}

Registers(s) ==
  \/ TakesSound(s)
  \/ \E x \in Resources : \/ SavesSame(s, x) \/ SavesDecided(s, x) \/ Records(s, x)
                          \/ Reopens(s, x) \/ BreaksOff(s, x)

LEMMA MarkedEntry ==
  ASSUME Typed, NEW x \in Resources
  PROVE  Mark(x)[x] # GoodEntry /\ \A y \in Resources \ {x} : Mark(x)[y] = record[y]
<1>1. record \in [Resources -> [decision : Decisions \cup {"none"}, invalidated : BOOLEAN]]
  BY DEF Typed, ArtefactTypeOK
<1>2. CASE record[x].decision = "approved"
  <2>1. PICK e : e = [record[x] EXCEPT !.invalidated = TRUE]
    OBVIOUS
  <2>2. e.invalidated = TRUE
    BY <1>1, <2>1
  <2>3. Mark(x) = [record EXCEPT ![x] = e]
    BY <1>2, <2>1 DEF Mark
  <2>4. e # GoodEntry
    BY <2>2 DEF GoodEntry
  <2>5. QED
    BY <1>1, <2>3, <2>4
<1>3. CASE record[x].decision # "approved"
  BY <1>3 DEF Mark, GoodEntry
<1>4. QED
  BY <1>2, <1>3

(* A handler that holds the row is in the way of a save.                   *)
LEMMA InTheWay ==
  ASSUME NEW s \in Slots, NEW x \in Resources, Holders(s, x) = {}, NEW t \in Slots \ {s},
         slot[t].of = {x}
  PROVE  slot[t].pc \notin {"edit", "mark", "validate", "verdict", "override", "decide", "record"}
  BY DEF Holders, Others

LEMMA RecordInvStays ==
  ASSUME Typed, Base, NEW s \in Slots, OnlyMoves(s), Registers(s), NEW x \in Resources,
         RecordInv(x)
  PROVE  RecordInv(x)'
<1> SUFFICES ASSUME races'[x] = {}
             PROVE  /\ \A t \in Slots : SoundCopy(t, x)'
                    /\ (\A t \in Slots : ~On(t, x, {"record"})') => Recorded(x)'
  BY DEF RecordInv
<1>1. /\ \A t \in Slots : SoundCopy(t, x)
      /\ (\A t \in Slots : ~On(t, x, {"record"})) => Recorded(x)
  BY DEF RecordInv, OnlyMoves
<1>2. \A t \in Slots \ {s} : slot'[t] = slot[t]
  BY DEF OnlyMoves
<1>3. ASSUME row'[x].approval = row[x].approval, record'[x] = record[x], SoundCopy(s, x)',
             On(s, x, {"record"})' <=> On(s, x, {"record"})
      PROVE  /\ \A t \in Slots : SoundCopy(t, x)'
             /\ (\A t \in Slots : ~On(t, x, {"record"})') => Recorded(x)'
  <2>1. \A t \in Slots \ {s} : SoundCopy(t, x)' /\ (On(t, x, {"record"})' <=> On(t, x, {"record"}))
    BY <1>1, <1>2, <1>3 DEF SoundCopy, On, Approved
  <2>2. Recorded(x)' <=> Recorded(x)
    BY <1>3 DEF Recorded, Approved
  <2>3. QED
    BY <1>1, <1>3, <2>1, <2>2
<1>4. CASE TakesSound(s)
  BY <1>3, <1>4 DEF TakesSound, On, At
<1>5. ASSUME NEW y \in Resources, x # y, slot[s].of = {y} \/ At(s, "loop"),
             row'[x] = row[x], record'[x] = record[x],
             slot'[s].of = {y} \/ slot'[s].pc \in {"idle", "reopen", "engine", "downstream", "loop"}
      PROVE  /\ \A t \in Slots : SoundCopy(t, x)'
             /\ (\A t \in Slots : ~On(t, x, {"record"})') => Recorded(x)'
  <2>1. SoundCopy(s, x)' /\ ~On(s, x, {"record"})' /\ ~On(s, x, {"record"})
    BY <1>5 DEF SoundCopy, On, At
  <2>2. QED
    BY <1>3, <1>5, <2>1
<1>6. ASSUME NEW y \in Resources, SavesSame(s, y)
      PROVE  /\ \A t \in Slots : SoundCopy(t, x)'
             /\ (\A t \in Slots : ~On(t, x, {"record"})') => Recorded(x)'
  <2>1. CASE x # y
    BY <1>5, <1>6, <2>1 DEF SavesSame, Rewrites
  <2>2. CASE x = y
    <3>1. \/ row'[x].approval = row[x].approval
          \/ ~Approved(row'[x]) /\ ~Approved(row[x])
      <4>1. CASE At(s, "generate")
        <5>1. ~Approved(slot[s].row) /\ ~Exists(x)
          BY <1>1, <1>6, <2>2, <4>1 DEF SavesSame, SoundCopy, At, Base, NewIsUnique
        <5>2. QED
          BY <1>6, <2>2, <5>1 DEF SavesSame, Base, Origins, Approved
      <4>2. CASE ~At(s, "generate")
        BY <1>1, <1>6, <2>2, <4>2 DEF SavesSame, SoundCopy, At
      <4>3. QED
        BY <4>1, <4>2
    <3>2. Approved(row'[x]) <=> Approved(row[x])
      BY <3>1 DEF Approved
    <3>3. Holders(s, x) = {}
      BY <1>6, <2>2 DEF SavesSame, Rewrites
    <3>4. \A t \in Slots \ {s} : SoundCopy(t, x)' /\ (On(t, x, {"record"})' <=> On(t, x, {"record"}))
      BY <1>1, <1>2, <3>3, InTheWay DEF SoundCopy, On
    <3>5. SoundCopy(s, x)' /\ ~On(s, x, {"record"})' /\ ~On(s, x, {"record"})
      BY <1>6 DEF SavesSame, SoundCopy, On, At
    <3>6. Recorded(x)' <=> Recorded(x)
      BY <1>6, <3>2 DEF SavesSame, Recorded, Approved
    <3>7. QED
      BY <1>1, <3>4, <3>5, <3>6
  <2>3. QED
    BY <2>1, <2>2
<1>7. ASSUME NEW y \in Resources, SavesDecided(s, y)
      PROVE  /\ \A t \in Slots : SoundCopy(t, x)'
             /\ (\A t \in Slots : ~On(t, x, {"record"})') => Recorded(x)'
  <2>1. CASE x # y
    BY <1>5, <1>7, <2>1 DEF SavesDecided, Rewrites
  <2>2. CASE x = y
    <3>1. Approved(row'[x]) <=> slot'[s].decision = "approved"
      BY <1>1, <1>7, <2>2 DEF SavesDecided, SoundCopy, At, Approved
    <3>2. Holders(s, x) = {}
      BY <1>7, <2>2 DEF SavesDecided, Rewrites
    <3>3. \A t \in Slots \ {s} : SoundCopy(t, x)'
      BY <1>1, <1>2, <3>2, InTheWay DEF SoundCopy
    <3>4. SoundCopy(s, x)' /\ On(s, x, {"record"})'
      BY <1>7, <2>2, <3>1 DEF SavesDecided, SoundCopy, On, Approved
    <3>5. QED
      BY <3>3, <3>4
  <2>3. QED
    BY <2>1, <2>2
<1>8. ASSUME NEW y \in Resources, Records(s, y)
      PROVE  /\ \A t \in Slots : SoundCopy(t, x)'
             /\ (\A t \in Slots : ~On(t, x, {"record"})') => Recorded(x)'
  <2>1. CASE x # y
    BY <1>5, <1>8, <2>1 DEF Records
  <2>2. CASE x = y
    <3>1. Approved(row[x]) <=> slot[s].decision = "approved"
      BY <1>1, <1>8, <2>2 DEF Records, SoundCopy, At
    <3>2. record'[x] = GoodEntry <=> slot[s].decision = "approved"
      <4>1. PICK d : d = slot[s].decision
        OBVIOUS
      <4>2. record'[x] = [decision |-> d, invalidated |-> FALSE]
        BY <1>8, <2>2, <4>1 DEF Records
      <4>3. record'[x].decision = d
        BY <4>2
      <4>4. GoodEntry.decision = "approved"
        BY DEF GoodEntry
      <4>5. d = "approved" => record'[x] = GoodEntry
        BY <4>2 DEF GoodEntry
      <4>6. QED
        BY <4>1, <4>3, <4>4, <4>5
    <3>3. Recorded(x)'
      BY <1>8, <3>1, <3>2 DEF Records, Recorded, Approved, GoodEntry
    <3>4. \A t \in Slots \ {s} : SoundCopy(t, x)'
      BY <1>1, <1>2, <1>8 DEF Records, SoundCopy, Approved
    <3>5. SoundCopy(s, x)'
      BY <1>8 DEF Records, SoundCopy
    <3>6. QED
      BY <3>3, <3>4, <3>5
  <2>3. QED
    BY <2>1, <2>2
<1>9. ASSUME NEW y \in Resources, Reopens(s, y)
      PROVE  /\ \A t \in Slots : SoundCopy(t, x)'
             /\ (\A t \in Slots : ~On(t, x, {"record"})') => Recorded(x)'
  <2>1. record'[y] # GoodEntry /\ \A z \in Resources \ {y} : record'[z] = record[z]
    BY <1>9, MarkedEntry DEF Reopens
  <2>2. CASE x # y
    BY <1>5, <1>9, <2>1, <2>2 DEF Reopens, Rewrites, At
  <2>3. CASE x = y
    <3>1. ~Approved(row'[x])
      BY <1>1, <1>9, <2>3 DEF Reopens, SoundCopy, At
    <3>2. Holders(s, x) = {}
      BY <1>9, <2>3 DEF Reopens, Rewrites
    <3>3. \A t \in Slots \ {s} : SoundCopy(t, x)'
      BY <1>1, <1>2, <3>2, InTheWay DEF SoundCopy
    <3>4. SoundCopy(s, x)'
      BY <1>9 DEF Reopens, SoundCopy
    <3>5. Recorded(x)'
      BY <2>1, <2>3, <3>1 DEF Recorded, Approved, GoodEntry
    <3>6. QED
      BY <3>3, <3>4, <3>5
  <2>4. QED
    BY <2>2, <2>3
<1>10. ASSUME NEW y \in Resources, BreaksOff(s, y)
       PROVE  /\ \A t \in Slots : SoundCopy(t, x)'
              /\ (\A t \in Slots : ~On(t, x, {"record"})') => Recorded(x)'
  BY <1>5, <1>10 DEF BreaksOff
<1>11. QED
  BY <1>4, <1>6, <1>7, <1>8, <1>9, <1>10 DEF Registers

(* Every operation is one of these.                                        *)
LEMMA SavesWhatItHolds ==
  ASSUME Typed, Base, NEW s \in Slots, slot[s].pc \in Copies \cup {"generate"},
         Save(s, Of(s), slot[s].row)
  PROVE  \E x \in Resources :
           x = Of(s) /\ slot[s].of = {x} /\ Rewrites(s, x) /\ row'[x] = slot[s].row
<1>1. PICK x \in Resources : x = Of(s) /\ slot[s].of = {x}
  BY WorksOn DEF Copies
<1>2. PICK r \in Row : r = slot[s].row
  BY DEF Typed, Handlers
<1>3. Save(s, x, r)
  BY <1>1, <1>2
<1>4. Rewrites(s, x) /\ row'[x] = r
  BY <1>3, SaveEffect DEF Rewrites
<1>5. QED
  BY <1>1, <1>2, <1>4

LEMMA StoresRegister ==
  ASSUME Typed, Base, NEW s \in Slots,
         \/ GeneratedCase(s) \/ GeneratedAutomation(s) \/ SaveEdit(s) \/ StartValidation(s)
         \/ StoreVerdict(s) \/ SaveOverride(s)
  PROVE  Registers(s)
<1>1. /\ slot[s].pc \in {"generate", "edit", "validate", "verdict", "override"}
      /\ Save(s, Of(s), slot[s].row) /\ UNCHANGED record
      /\ slot'[s].pc \in {"idle", "reopen", "engine"}
  <2>1. ASSUME NEW x \in Resources, SaveGenerated(s, x)
        PROVE  /\ At(s, "generate") /\ Save(s, Of(s), slot[s].row) /\ UNCHANGED record
               /\ slot'[s].pc = "idle"
    BY <2>1, OfIs, EndEffect DEF SaveGenerated
  <2>2. CASE GeneratedCase(s) \/ GeneratedAutomation(s)
    BY <2>1, <2>2 DEF GeneratedCase, GeneratedAutomation, Resources, At
  <2>3. CASE SaveEdit(s)
    BY <2>3, NoContentRow, GoWithEffect DEF SaveEdit, At, PC
  <2>4. CASE StartValidation(s)
    <3> DEFINE h == [slot[s] EXCEPT !.pc = "engine", !.sent = slot[s].row.content,
                                    !.row = NoContent]
    <3>1. slot[s].row.content \in Nat
      BY DEF Typed, Handlers, Row
    <3>2. h \in Handlers /\ h.pc = "engine"
      BY <3>1, NoContentRow DEF Typed, Handlers, PC
    <3>3. Become(s, h)
      BY <2>4 DEF StartValidation
    <3> HIDE DEF h
    <3>4. slot'[s].pc = "engine"
      BY <3>2, <3>3, BecomeEffect
    <3>5. QED
      BY <2>4, <3>4 DEF StartValidation, At
  <2>5. CASE StoreVerdict(s) \/ SaveOverride(s)
    BY <2>5, EndEffect DEF StoreVerdict, SaveOverride, At
  <2>6. QED
    BY <2>2, <2>3, <2>4, <2>5
<1>2. PICK x \in Resources :
        x = Of(s) /\ slot[s].of = {x} /\ Rewrites(s, x) /\ row'[x] = slot[s].row
  BY <1>1, SavesWhatItHolds DEF Copies
<1>3. SavesSame(s, x)
  BY <1>1, <1>2 DEF SavesSame
<1>4. QED
  BY <1>3 DEF Registers

LEMMA SaveDecisionRegisters ==
  ASSUME Typed, Base, NEW s \in Slots, SaveDecision(s) PROVE Registers(s)
<1>1. At(s, "decide") /\ Save(s, Of(s), slot[s].row) /\ UNCHANGED record
      /\ GoWith(s, "record", NoContent)
  BY DEF SaveDecision
<1>2. slot'[s].pc = "record" /\ slot'[s].of = slot[s].of /\ slot'[s].decision = slot[s].decision
  BY <1>1, NoContentRow, GoWithEffect DEF PC
<1>3. PICK x \in Resources :
        x = Of(s) /\ slot[s].of = {x} /\ Rewrites(s, x) /\ row'[x] = slot[s].row
  BY <1>1, SavesWhatItHolds DEF Copies, At
<1>4. SavesDecided(s, x)
  BY <1>1, <1>2, <1>3 DEF SavesDecided
<1>5. QED
  BY <1>4 DEF Registers

LEMMA RecordRegisters ==
  ASSUME Typed, Base, NEW s \in Slots, Record(s) PROVE Registers(s)
<1>1. At(s, "record") /\ UNCHANGED row
  BY DEF Record
<1>2. PICK x \in Resources : x = Of(s) /\ slot[s].of = {x}
  BY <1>1, WorksOn DEF At
<1>3. slot'[s].pc \in {"idle", "downstream"}
  <2>1. Go(s, "downstream") \/ End(s)
    BY DEF Record
  <2>2. QED
    BY <2>1, GoEffect, EndEffect DEF PC
<1>4. PICK e : e = [decision |-> slot[s].decision, invalidated |-> FALSE]
  OBVIOUS
<1>5. record' = [record EXCEPT ![x] = e]
  BY <1>2, <1>4 DEF Record
<1>6. record'[x] = e /\ \A y \in Resources \ {x} : record'[y] = record[y]
  BY <1>5, RecordKept
<1>7. Records(s, x)
  BY <1>1, <1>2, <1>3, <1>4, <1>6 DEF Records
<1>8. QED
  BY <1>7 DEF Registers

LEMMA SaveReopenedRegisters ==
  ASSUME Typed, Base, NEW s \in Slots, SaveReopened(s) PROVE Registers(s)
<1>1. At(s, "mark") /\ Save(s, Of(s), slot[s].row) /\ record' = Mark(Of(s))
  BY DEF SaveReopened
<1>2. slot'[s].pc \in {"idle", "downstream"}
  <2>1. GoWith(s, "downstream", NoContent) \/ End(s)
    BY DEF SaveReopened
  <2>2. QED
    BY <2>1, NoContentRow, GoWithEffect, EndEffect DEF PC
<1>3. PICK x \in Resources :
        x = Of(s) /\ slot[s].of = {x} /\ Rewrites(s, x) /\ row'[x] = slot[s].row
  BY <1>1, SavesWhatItHolds DEF Copies, At
<1>4. Reopens(s, x)
  BY <1>1, <1>2, <1>3 DEF Reopens, At
<1>5. QED
  BY <1>4 DEF Registers

LEMMA InvalidateOneRegisters ==
  ASSUME Typed, Base, NEW s \in Slots, NEW a \in Automation, InvalidateOne(s, a)
  PROVE  Registers(s)
<1>1. At(s, "loop") /\ a \in DOMAIN slot[s].todo /\ a \in Resources
  BY DEF InvalidateOne, Resources
<1>2. slot'[s].pc = "loop"
  <2> DEFINE rest == DOMAIN slot[s].todo \ {a}
             h == [slot[s] EXCEPT !.todo = [b \in rest |-> @[b]]]
  <2>1. slot' = [slot EXCEPT ![s] = h]
    BY DEF InvalidateOne, Become
  <2>2. h.pc = slot[s].pc
    BY DEF Typed, Handlers
  <2> HIDE DEF h
  <2>3. QED
    BY <1>1, <2>1, <2>2 DEF Typed, At
<1>3. CASE Untrusted(slot[s].todo[a])
  <2>1. PICK r \in Row : r = slot[s].todo[a]
    BY <1>1 DEF Typed, Handlers, Todos
  <2>2. PICK q \in Row : q.approval = "pending" /\ q = [Reopened(r) EXCEPT !.validation = "pending"]
    BY ReopenedRow
  <2>3. Save(s, a, q) /\ record' = Mark(a)
    BY <1>3, <2>1, <2>2 DEF InvalidateOne
  <2>4. Rewrites(s, a) /\ row'[a] = q
    BY <1>1, <2>3, SaveEffect DEF Rewrites
  <2>5. Reopens(s, a)
    BY <1>1, <1>2, <2>2, <2>3, <2>4 DEF Reopens, At, Approved
  <2>6. QED
    BY <1>1, <2>5 DEF Registers
<1>4. CASE ~Untrusted(slot[s].todo[a])
  <2>1. UNCHANGED <<row, record>>
    BY <1>4 DEF InvalidateOne
  <2>2. TakesSound(s)
    BY <1>1, <1>2, <2>1 DEF TakesSound, SoundCopy, At
  <2>3. QED
    BY <2>2 DEF Registers
<1>5. QED
  BY <1>3, <1>4

(* Steps that change no row: what the handler holds then is sound.         *)
LEMMA HoldsNothing ==
  ASSUME NEW s \in Slots, UNCHANGED <<row, record>>, ~At(s, "record"),
         slot'[s].pc \notin Copies \cup {"generate", "record"}
  PROVE  Registers(s)
  BY DEF Registers, TakesSound, SoundCopy, Copies

LEMMA HoldsSame ==
  ASSUME NEW s \in Slots, NEW x \in Resources, UNCHANGED <<row, record>>, ~At(s, "record"),
         slot'[s].of = {x}, slot'[s].pc \in Copies \cup {"generate"},
         slot'[s].pc \in {"edit", "validate", "verdict", "override"} =>
           slot'[s].row.approval = row[x].approval,
         slot'[s].pc \in {"generate", "mark"} => slot'[s].row.approval = "pending",
         slot'[s].pc = "decide" =>
           (slot'[s].row.approval = "approved" <=> slot'[s].decision = "approved")
  PROVE  Registers(s)
<1>1. ASSUME NEW y \in Resources PROVE SoundCopy(s, y)'
  <2>1. CASE y = x
    BY <2>1 DEF SoundCopy, Approved, Copies
  <2>2. CASE y # x
    BY <2>2 DEF SoundCopy
  <2>3. QED
    BY <2>1, <2>2
<1>2. TakesSound(s)
  BY <1>1 DEF TakesSound, Copies
<1>3. QED
  BY <1>2 DEF Registers

LEMMA BeginsRegister ==
  ASSUME Typed, Base, NEW s \in Slots, NEW x \in Resources,
         NEW pc \in {"generate", "edit", "validate", "override"}, NEW r \in Row,
         Begin(s, pc, x, r), UNCHANGED <<row, record>>,
         IF pc = "generate" THEN r.approval = "pending" ELSE r.approval = row[x].approval
  PROVE  Registers(s)
<1>1. /\ slot[s].pc = "idle" /\ slot'[s].pc = pc /\ slot'[s].of = {x} /\ slot'[s].row = r
  BY BeginEffect DEF PC
<1>2. QED
  BY <1>1, HoldsSame DEF At, Copies

LEMMA GenerateRegisters ==
  ASSUME Typed, Base, NEW s \in Slots,
         \/ \E c \in Cases : GenerateCase(s, c)
         \/ \E a \in Automation : GenerateAutomation(s, a, TRUE) \/ GenerateAutomation(s, a, FALSE)
  PROVE  Registers(s)
<1>1. PICK x \in Resources : /\ Begin(s, "generate", x, [NoContent EXCEPT !.content = 1])
                             /\ UNCHANGED <<row, record>>
  BY DEF GenerateCase, GenerateAutomation, Resources
<1>2. QED
  BY <1>1, FreshRow, BeginsRegister

LEMMA EditsRegister ==
  ASSUME Typed, Base, NEW s \in Slots,
         \/ \E x \in Resources : Update(s, x)
         \/ \E a \in Automation : Validate(s, a) \/ Override(s, a)
  PROVE  Registers(s)
<1>1. CASE \E x \in Resources : Update(s, x)
  <2>1. PICK x \in Resources : Begin(s, "edit", x, Edited(x)) /\ UNCHANGED <<row, record>>
    BY <1>1 DEF Update
  <2>2. QED
    BY <2>1, EditedRow, BeginsRegister
<1>2. ASSUME NEW a \in Automation, Validate(s, a) \/ Override(s, a) PROVE Registers(s)
  <2>1. a \in Resources /\ row[a] \in Row /\ row[a].content \in Nat
    BY DEF Resources, Typed, ArtefactTypeOK, Row
  <2>2. PICK r \in Row, pc \in {"validate", "override"} :
          Begin(s, pc, a, r) /\ r.approval = row[a].approval
    <3>1. CASE Validate(s, a)
      <4>1. PICK r \in Row :
              r = [row[a] EXCEPT !.validation = "running"] /\ r.approval = row[a].approval
        BY <2>1, RunningRow
      <4>2. QED
        BY <3>1, <4>1 DEF Validate
    <3>2. CASE Override(s, a)
      <4> DEFINE r == [row[a] EXCEPT !.validation = "overridden", !.checked = row[a].content]
      <4>1. r \in Row /\ r.approval = row[a].approval
        BY <2>1 DEF Row
      <4>2. Begin(s, "override", a, r)
        BY <3>2 DEF Override
      <4> HIDE DEF r
      <4>3. QED
        BY <4>1, <4>2
    <3>3. QED
      BY <1>2, <3>1, <3>2
  <2>3. UNCHANGED <<row, record>>
    BY <1>2 DEF Validate, Override
  <2>4. QED
    BY <2>1, <2>2, <2>3, BeginsRegister
<1>3. QED
  BY <1>1, <1>2

LEMMA CopiesRegister ==
  ASSUME Typed, Base, NEW s \in Slots,
         OnUpstreamModified(s) \/ Decide(s) \/ \E v \in Verdicts : AnswerValidation(s, v)
  PROVE  Registers(s)
<1>1. /\ slot[s].pc \in {"reopen", "load", "engine"} /\ UNCHANGED <<row, record>>
  BY DEF OnUpstreamModified, Decide, AnswerValidation, At
<1>2. PICK x \in Resources : x = Of(s) /\ slot[s].of = {x}
  BY <1>1, WorksOn
<1>3. row[x] \in Row /\ slot[s].decision \in Decisions /\ slot[s].sent \in Nat
  BY DEF Typed, ArtefactTypeOK, Handlers
<1>4. CASE OnUpstreamModified(s)
  <2>1. CASE Approved(row[x])
    <3>1. PICK r \in Row : r = Reopened(row[x]) /\ r.approval = "pending"
      BY <1>3, ReopenedRow
    <3>2. GoWith(s, "mark", r)
      BY <1>2, <1>4, <2>1, <3>1 DEF OnUpstreamModified
    <3>3. slot'[s].pc = "mark" /\ slot'[s].of = {x} /\ slot'[s].row = r
      BY <1>2, <3>2, GoWithEffect DEF PC
    <3>4. QED
      BY <1>1, <3>1, <3>3, HoldsSame DEF At, Copies
  <2>2. CASE ~Approved(row[x])
    <3>1. Go(s, "downstream") \/ End(s)
      BY <1>2, <1>4, <2>2 DEF OnUpstreamModified
    <3>2. slot'[s].pc \in {"downstream", "idle"}
      BY <3>1, GoEffect, EndEffect DEF PC
    <3>3. QED
      BY <1>1, <3>2, HoldsNothing DEF At, Copies
  <2>3. QED
    BY <2>1, <2>2
<1>5. CASE Decide(s)
  <2>1. PICK r \in Row : r = Decided(x, slot[s].decision)
    BY <1>3, DecidedRow
  <2>2. r.approval = "approved" <=> slot[s].decision = "approved"
    BY <1>3, <2>1 DEF Decided, Row, NextStatus, Decisions
  <2>3. GoWith(s, "decide", r)
    BY <1>2, <1>5, <2>1 DEF Decide
  <2>4. slot'[s].pc = "decide" /\ slot'[s].of = {x} /\ slot'[s].row = r
        /\ slot'[s].decision = slot[s].decision
    BY <1>2, <2>3, GoWithEffect DEF PC
  <2>5. QED
    BY <1>1, <2>2, <2>4, HoldsSame DEF At, Copies
<1>6. ASSUME NEW v \in Verdicts, AnswerValidation(s, v) PROVE Registers(s)
  <2> DEFINE r == [row[x] EXCEPT !.validation = v, !.checked = slot[s].sent]
  <2>1. r \in Row /\ r.approval = row[x].approval
    BY <1>3 DEF Row
  <2>2. GoWith(s, "verdict", r)
    BY <1>2, <1>6 DEF AnswerValidation
  <2> HIDE DEF r
  <2>3. slot'[s].pc = "verdict" /\ slot'[s].of = {x} /\ slot'[s].row = r
    BY <1>2, <2>1, <2>2, GoWithEffect DEF PC
  <2>4. QED
    BY <1>1, <2>1, <2>3, HoldsSame DEF At, Copies
<1>7. QED
  BY <1>4, <1>5, <1>6

LEMMA RestRegisters ==
  ASSUME Typed, Base, NEW s \in Slots,
         \/ \E x \in Resources, d \in Decisions : Approve(s, x, d)
         \/ \E arts \in SUBSET Automation : CreateRun(s, arts)
         \/ InvalidateDownstream(s) \/ InvalidationDone(s) \/ Materialise(s)
  PROVE  Registers(s)
<1>1. UNCHANGED <<row, record>> /\ slot[s].pc \in {"idle", "downstream", "loop", "queued"}
  BY DEF Approve, CreateRun, Start, InvalidateDownstream, InvalidationDone, Materialise, At
<1>2. slot'[s].pc \in {"load", "queued", "loop", "idle"}
  <2>1. ASSUME NEW of, NEW h \in Handlers, h.pc \in {"load", "queued"}, Start(s, of, h)
        PROVE  slot'[s].pc \in {"load", "queued"}
    BY <2>1 DEF Start, Typed, Handlers
  <2>2. ASSUME NEW x \in Resources, NEW d \in Decisions, Approve(s, x, d)
        PROVE  slot'[s].pc \in {"load", "queued"}
    <3>1. PICK h : h = [Idle EXCEPT !.pc = "load", !.decision = d]
      OBVIOUS
    <3>2. h \in Handlers /\ h.pc = "load"
      BY <3>1, IdleHandler DEF Handlers, PC
    <3>3. Start(s, {x}, h)
      BY <2>2, <3>1 DEF Approve
    <3>4. QED
      BY <2>1, <3>2, <3>3
  <2>3. ASSUME NEW arts \in SUBSET Automation, CreateRun(s, arts)
        PROVE  slot'[s].pc \in {"load", "queued"}
    <3>1. PICK h : h = [Idle EXCEPT !.pc = "queued"]
      OBVIOUS
    <3>2. h \in Handlers /\ h.pc = "queued"
      BY <3>1, IdleHandler DEF Handlers, PC
    <3>3. Start(s, arts, h)
      BY <2>3, <3>1 DEF CreateRun
    <3>4. QED
      BY <2>1, <3>2, <3>3
  <2>4. CASE InvalidateDownstream(s)
    <3>1. PICK h : h = [slot[s] EXCEPT !.pc = "loop", !.todo = [a \in Affected(Of(s)) |-> row[a]]]
      OBVIOUS
    <3>2. h.pc = "loop"
      BY <3>1 DEF Typed, Handlers
    <3>3. slot' = [slot EXCEPT ![s] = h]
      BY <2>4, <3>1 DEF InvalidateDownstream, Become
    <3>4. QED
      BY <3>2, <3>3 DEF Typed
  <2>5. CASE InvalidationDone(s) \/ Materialise(s)
    BY <2>5, EndEffect DEF InvalidationDone, Materialise
  <2>6. QED
    BY <2>2, <2>3, <2>4, <2>5
<1>3. QED
  BY <1>1, <1>2, HoldsNothing DEF At, Copies

LEMMA AbandonRegisters ==
  ASSUME Typed, Base, NEW s \in Slots, Abandon(s) PROVE Registers(s)
<1>1. UNCHANGED <<row, record>> /\ slot'[s].pc = "idle"
  BY EndEffect DEF Abandon
<1>2. CASE At(s, "record")
  <2>1. PICK x \in Resources : x = Of(s) /\ slot[s].of = {x}
    BY <1>2, WorksOn DEF At
  <2>2. Note(x, {"abandoned"}) /\ {"abandoned"} \in SUBSET Races
    BY <1>2, <2>1 DEF Abandon, At, Races
  <2>3. races'[x] # {}
    BY <2>2, NoteEffect
  <2>4. QED
    BY <1>1, <1>2, <2>1, <2>3 DEF Registers, BreaksOff
<1>3. CASE ~At(s, "record")
  BY <1>1, <1>3, HoldsNothing DEF Copies
<1>4. QED
  BY <1>2, <1>3

LEMMA HandlerRegisters ==
  ASSUME Typed, Base, NEW s \in Slots, Handler(s)
  PROVE  Registers(s)
<1>1. CASE \/ \E c \in Cases : GenerateCase(s, c)
           \/ \E a \in Automation :
                GenerateAutomation(s, a, TRUE) \/ GenerateAutomation(s, a, FALSE)
  BY <1>1, GenerateRegisters
<1>2. CASE \/ \E x \in Resources : Update(s, x)
           \/ \E a \in Automation : Validate(s, a) \/ Override(s, a)
  BY <1>2, EditsRegister
<1>3. CASE \/ GeneratedCase(s) \/ GeneratedAutomation(s) \/ SaveEdit(s) \/ StartValidation(s)
           \/ StoreVerdict(s) \/ SaveOverride(s)
  BY <1>3, StoresRegister
<1>4. CASE OnUpstreamModified(s) \/ Decide(s) \/ \E v \in Verdicts : AnswerValidation(s, v)
  BY <1>4, CopiesRegister
<1>5. CASE SaveReopened(s) \/ \E a \in Automation : InvalidateOne(s, a)
  BY <1>5, SaveReopenedRegisters, InvalidateOneRegisters
<1>6. CASE SaveDecision(s) \/ Record(s) \/ Abandon(s)
  BY <1>6, SaveDecisionRegisters, RecordRegisters, AbandonRegisters
<1>7. CASE \/ \E x \in Resources, d \in Decisions : Approve(s, x, d)
           \/ \E arts \in SUBSET Automation : CreateRun(s, arts)
           \/ InvalidateDownstream(s) \/ InvalidationDone(s) \/ Materialise(s)
  BY <1>7, RestRegisters
<1>8. QED
  BY <1>1, <1>2, <1>3, <1>4, <1>5, <1>6, <1>7 DEF Handler

LEMMA RecordsStay ==
  ArtefactInv /\ (\A x \in Resources : RecordInv(x)) /\ [ArtefactNext]_artefactVars =>
    \A x \in Resources : RecordInv(x)'
<1> SUFFICES ASSUME ArtefactInv, \A x \in Resources : RecordInv(x), [ArtefactNext]_artefactVars,
                    NEW x \in Resources
             PROVE  RecordInv(x)'
  OBVIOUS
<1>1. ASSUME NEW s \in Slots, Handler(s) PROVE RecordInv(x)'
  <2>1. Typed /\ Base /\ OnlyMoves(s) /\ Registers(s)
    BY <1>1, HandlerMoves, HandlerRegisters DEF ArtefactInv, Moves
  <2>2. QED
    BY <2>1, RecordInvStays
<1>2. CASE UNCHANGED artefactVars
  BY <1>2 DEF artefactVars, RecordInv, SoundCopy, Recorded, On, Approved
<1>3. QED
  BY <1>1, <1>2 DEF ArtefactNext

(* The approvals table agrees with the rows: decide() records what it      *)
(* saved, onUpstreamModified() and invalidateDownstream() mark what they   *)
(* reopen, and nothing else touches an approval; for any resources, edits  *)
(* and handlers, as long as none crossed another or broke off.             *)
THEOREM RecordsAgreeWithRows == ArtefactSpec => []RecordsAgree
<1> DEFINE RInv == \A x \in Resources : RecordInv(x)
<1>1. ArtefactInit => RInv
  <2>1. Idle.pc = "idle" /\ Idle.of = {}
    BY DEF Idle
  <2>2. ~Approved(NoContent)
    BY FreshRow DEF Approved
  <2>3. [decision |-> "none", invalidated |-> FALSE] # GoodEntry
    BY DEF GoodEntry
  <2>4. QED
    BY <2>1, <2>2, <2>3 DEF ArtefactInit, RecordInv, SoundCopy, Recorded
<1>2. ArtefactInv /\ RInv /\ [ArtefactNext]_artefactVars => RInv'
  BY RecordsStay
<1>3. RInv => RecordsAgree
  BY DEF RecordsAgree, RecordInv, Recorded, GoodEntry, On, At
<1> HIDE DEF RInv
<1>4. QED
  BY <1>1, <1>2, <1>3, ArtefactInvHolds, PTL DEF ArtefactSpec

-----------------------------------------------------------------------------
(* The inbox.  A list that does not show an item as it is now will be      *)
(* asked for, or says that it failed or missed an invalidation.            *)
Entries == [item : Items, status : Statuses, invalidated : BOOLEAN]

WillShow(q, e) ==
  \/ q.fetch = "asked"
  \/ q.fetch = "answered" /\ (e \in q.answer \/ q.joined)
  \/ q.fetch = "idle" /\ (e \in q.data \/ q.error \/ q.joined)

(* What was decided, and is not being changed by another decision.         *)
Undisturbed == decided \ (IF decide = NoDecision THEN {} ELSE decide.written)

InboxInv == InboxTypeOK /\ \A i \in Undisturbed : WillShow(query[KindOf(i)], Shown(i))

(* What the operations of a query keep and bring about. *)
LEMMA QueryTypes ==
  ASSUME NEW q \in Q!Query, NEW set \in SUBSET Entries
  PROVE  /\ Q!Serve(q, set) \in Q!Query
         /\ Q!Receive(q) \in Q!Query /\ Q!Lose(q) \in Q!Query
         /\ Q!Invalidated(q, TRUE) \in Q!Query
  BY DEF Q!Query, Q!Serve, Q!Receive, Q!Lose, Q!Invalidated, Q!Ask, Entries

LEMMA QueryShows ==
  ASSUME NEW q \in Q!Query, NEW set \in SUBSET Entries, NEW e
  PROVE  /\ e \in set => WillShow(Q!Serve(q, set), e)
         /\ q.fetch = "answered" /\ WillShow(q, e) =>
              WillShow(Q!Receive(q), e) /\ WillShow(Q!Lose(q), e)
         /\ WillShow(Q!Invalidated(q, TRUE), e)
  BY DEF Q!Query, Q!Serve, Q!Receive, Q!Lose, Q!Invalidated, Q!Ask, WillShow

LEMMA KindOfItem == ASSUME NEW i \in Items PROVE KindOf(i) \in Kinds /\ i \in ItemsOf(KindOf(i))
  BY DEF Items, KindOf

LEMMA EntryOfItem ==
  ASSUME InboxTypeOK, NEW i \in Items PROVE Shown(i) \in Entries
  BY DEF InboxTypeOK, ItemRow, Shown, Entries

LEMMA InboxInvInit == InboxInit => InboxInv
<1> SUFFICES ASSUME InboxInit PROVE InboxInv
  OBVIOUS
<1>1. Q!Ask(Q!Unasked) \in Q!Query
  BY DEF Q!Query, Q!Ask, Q!Unasked
<1>2. inboxRow \in [Items -> ItemRow]
  <2>1. \A v \in Validations :
          [status |-> "pending", invalidated |-> FALSE, validation |-> v] \in ItemRow
    BY DEF ItemRow, Statuses
  <2>2. QED
    BY <2>1 DEF InboxInit
<1>3. QED
  BY <1>1, <1>2 DEF InboxInit, InboxInv, InboxTypeOK, Undisturbed

(* A step of a list.                                                       *)
LEMMA ListStep ==
  ASSUME InboxInv, NEW k \in Kinds, Serve(k) \/ Receive(k) \/ Lose(k)
  PROVE  InboxInv'
<1> DEFINE set == {Shown(i) : i \in ItemsOf(k)}
<1>1. InboxTypeOK /\ query[k] \in Q!Query
  BY DEF InboxInv, InboxTypeOK
<1>2. set \in SUBSET Entries
  BY <1>1, EntryOfItem DEF Items
<1>3. UNCHANGED <<inboxRow, decide, decisions, others, decided>>
  BY DEF Serve, Receive, Lose, QueryIs
<1>4. PICK q : /\ query' = [query EXCEPT ![k] = q] /\ q \in Q!Query
               /\ \A i \in ItemsOf(k) : WillShow(query[k], Shown(i)) => WillShow(q, Shown(i))
  <2>1. CASE Serve(k)
    <3>1. query' = [query EXCEPT ![k] = Q!Serve(query[k], set)]
      BY <2>1 DEF Serve, QueryIs
    <3>2. Q!Serve(query[k], set) \in Q!Query
      BY <1>1, <1>2, QueryTypes
    <3>3. \A i \in ItemsOf(k) : WillShow(Q!Serve(query[k], set), Shown(i))
      <4>1. \A e \in set : WillShow(Q!Serve(query[k], set), e)
        BY <1>1, <1>2, QueryShows
      <4>2. QED
        BY <4>1
    <3>4. QED
      BY <3>1, <3>2, <3>3
  <2>2. CASE Receive(k)
    <3>1. query' = [query EXCEPT ![k] = Q!Receive(query[k])] /\ query[k].fetch = "answered"
      BY <2>2 DEF Receive, QueryIs
    <3>2. Q!Receive(query[k]) \in Q!Query
      BY <1>1, <1>2, QueryTypes
    <3>3. \A i \in ItemsOf(k) :
            WillShow(query[k], Shown(i)) => WillShow(Q!Receive(query[k]), Shown(i))
      BY <1>1, <1>2, <3>1, QueryShows
    <3>4. QED
      BY <3>1, <3>2, <3>3
  <2>3. CASE Lose(k)
    <3>1. query' = [query EXCEPT ![k] = Q!Lose(query[k])] /\ query[k].fetch = "answered"
      BY <2>3 DEF Lose, QueryIs
    <3>2. Q!Lose(query[k]) \in Q!Query
      BY <1>1, <1>2, QueryTypes
    <3>3. \A i \in ItemsOf(k) :
            WillShow(query[k], Shown(i)) => WillShow(Q!Lose(query[k]), Shown(i))
      BY <1>1, <1>2, <3>1, QueryShows
    <3>4. QED
      BY <3>1, <3>2, <3>3
  <2>4. QED
    BY <2>1, <2>2, <2>3
<1>5. InboxTypeOK'
  BY <1>1, <1>3, <1>4 DEF InboxTypeOK
<1>6. Undisturbed' = Undisturbed /\ \A i : Shown(i)' = Shown(i)
  BY <1>3 DEF Undisturbed, Shown
<1>7. ASSUME NEW i \in Undisturbed PROVE WillShow(query[KindOf(i)], Shown(i))'
  <2>1. i \in Items /\ WillShow(query[KindOf(i)], Shown(i))
    BY DEF InboxInv, InboxTypeOK, Undisturbed
  <2>2. KindOf(i) \in Kinds /\ i \in ItemsOf(KindOf(i))
    BY <2>1, KindOfItem
  <2>3. WillShow(query'[KindOf(i)], Shown(i))
    BY <1>1, <1>4, <2>1, <2>2 DEF InboxTypeOK
  <2>4. QED
    BY <1>6, <2>3 DEF WillShow
<1>8. QED
  BY <1>5, <1>6, <1>7 DEF InboxInv

(* A step that leaves the lists alone, and every row it leaves among the   *)
(* undisturbed.                                                            *)
LEMMA RowStep ==
  ASSUME InboxInv, InboxTypeOK', UNCHANGED query, Undisturbed' \subseteq Undisturbed,
         \A i \in Undisturbed' : inboxRow'[i] = inboxRow[i]
  PROVE  InboxInv'
<1>1. \A i \in Undisturbed' : Shown(i)' = Shown(i)
  BY DEF Shown
<1>2. ASSUME NEW i \in Undisturbed' PROVE WillShow(query[KindOf(i)], Shown(i))'
  BY <1>1 DEF InboxInv, WillShow
<1>3. QED
  BY <1>2 DEF InboxInv

(* A step of the decision under way that is not answered yet.              *)
LEMMA DecisionStep ==
  ASSUME InboxInv, Check \/ LoadItem \/ SaveItem \/ FindAffected \/ Finish
                   \/ \E a \in ListedAutomation : Reopen(a)
  PROVE  InboxInv'
<1>1. InboxTypeOK /\ decide \in ItemDecision
  <2>1. decide.pc # NoDecision.pc
    BY DEF NoDecision, Check, LoadItem, SaveItem, FindAffected, Finish, Reopen
  <2>2. QED
    BY <2>1 DEF InboxInv, InboxTypeOK
<1>2. /\ decide' \in ItemDecision /\ inboxRow' \in [Items -> ItemRow]
      /\ decide.written \subseteq decide'.written
      /\ \A i \in Items : inboxRow'[i] = inboxRow[i] \/ i \in decide'.written
      /\ UNCHANGED <<query, decided>>
  <2>1. CASE Check
    BY <1>1, <2>1 DEF Check, Step, InboxTypeOK, ItemDecision
  <2>2. CASE LoadItem
    BY <1>1, <2>2 DEF LoadItem, Step, InboxTypeOK, ItemDecision
  <2>3. CASE SaveItem
    <3>1. [decide.held EXCEPT !.status = decide.decision, !.invalidated = FALSE] \in ItemRow
      BY <1>1 DEF ItemDecision, ItemRow, Statuses
    <3>2. NotHeld \in ItemRow
      BY DEF NotHeld, ItemRow, Statuses, Validations
    <3>3. QED
      BY <1>1, <2>3, <3>1, <3>2 DEF SaveItem, Step, InboxTypeOK, ItemDecision
  <2>4. CASE FindAffected
    <3>1. FilesAffected \subseteq ListedAutomation
      BY DEF FilesAffected
    <3>2. QED
      BY <1>1, <2>4, <3>1 DEF FindAffected, Step, InboxTypeOK, ItemDecision
  <2>5. CASE Finish
    BY <1>1, <2>5 DEF Finish, Step, InboxTypeOK, ItemDecision
  <2>6. ASSUME NEW a \in ListedAutomation, Reopen(a) PROVE <1>2!:
    <3>1. a \in Items
      BY DEF Items, Kinds, ItemsOf
    <3>2. [status |-> "pending", invalidated |-> TRUE, validation |-> "open"] \in ItemRow
      BY DEF ItemRow, Statuses, Validations
    <3>3. QED
      BY <1>1, <2>6, <3>1, <3>2 DEF Reopen, Step, InboxTypeOK, ItemDecision
  <2>7. QED
    BY <2>1, <2>2, <2>3, <2>4, <2>5, <2>6
<1>3. InboxTypeOK'
  BY <1>1, <1>2 DEF InboxTypeOK
<1>4. decide # NoDecision /\ decide' # NoDecision
  BY <1>1, <1>2 DEF ItemDecision, NoDecision
<1>5. Undisturbed' \subseteq Undisturbed /\ \A i \in Undisturbed' : inboxRow'[i] = inboxRow[i]
  BY <1>1, <1>2, <1>4 DEF Undisturbed, InboxTypeOK
<1>6. QED
  BY <1>2, <1>3, <1>5, RowStep

(* A request that is answered with an error.                               *)
LEMMA RefusedStep == ASSUME InboxInv, decide # NoDecision, Refused PROVE InboxInv'
<1>1. InboxTypeOK' /\ Undisturbed' = Undisturbed
  BY DEF InboxInv, InboxTypeOK, Refused, Undisturbed
<1>2. QED
  BY <1>1, RowStep DEF Refused

LEMMA InboxInvNext == InboxInv /\ [InboxNext]_inboxVars => InboxInv'
<1> SUFFICES ASSUME InboxInv, [InboxNext]_inboxVars PROVE InboxInv'
  OBVIOUS
<1> USE DEF InboxInv
<1>1. ASSUME NEW k \in Kinds, Serve(k) \/ Receive(k) \/ Lose(k) PROVE InboxInv'
  BY <1>1, ListStep
<1>2. ASSUME NEW only \in BOOLEAN, NEW d \in {"approved", "rejected"}, NEW r \in InboxRows(only),
             DecideItem(r, d)
      PROVE  InboxInv'
  <2>1. r.item \in Items
    BY <1>2 DEF InboxRows, InboxTypeOK, Q!Query
  <2>2. NotHeld \in ItemRow
    BY DEF NotHeld, ItemRow, Statuses, Validations
  <2>3. decide' \in ItemDecision /\ decide = NoDecision /\ decide'.written = {}
    BY <1>2, <2>1, <2>2 DEF DecideItem, ItemDecision
  <2>4. InboxTypeOK' /\ Undisturbed' = Undisturbed
    BY <1>2, <2>3 DEF InboxTypeOK, DecideItem, Undisturbed
  <2>5. QED
    BY <1>2, <2>4, RowStep DEF DecideItem
<1>3. CASE Check \/ LoadItem \/ SaveItem \/ FindAffected \/ Finish
           \/ \E a \in ListedAutomation : Reopen(a)
  BY <1>3, DecisionStep
<1>4. CASE RefuseItem \/ LoseAnswer
  <2>1. decide # NoDecision /\ Refused
    BY <1>4 DEF RefuseItem, LoseAnswer, NoDecision
  <2>2. QED
    BY <2>1, RefusedStep
<1>5. CASE Fail
  <2>1. decide # NoDecision
    BY <1>5 DEF Fail, NoDecision
  <2>2. CASE decide.item \in ListedCases
    <3>1. decide \in ItemDecision /\ UNCHANGED <<inboxRow, query, decided>>
      BY <1>5, <2>1, <2>2 DEF Fail, Step, InboxTypeOK
    <3>2. decide' \in ItemDecision /\ decide'.written = decide.written
      BY <1>5, <2>2, <3>1 DEF Fail, Step, ItemDecision
    <3>3. decide' # NoDecision
      BY <3>2 DEF ItemDecision, NoDecision
    <3>4. InboxTypeOK' /\ Undisturbed' = Undisturbed
      BY <2>1, <3>1, <3>2, <3>3 DEF InboxTypeOK, Undisturbed
    <3>5. QED
      BY <3>1, <3>4, RowStep
  <2>3. CASE decide.item \notin ListedCases
    BY <1>5, <2>1, <2>3, RefusedStep DEF Fail
  <2>4. QED
    BY <2>2, <2>3
<1>6. CASE Answer
  <2>1. decide \in ItemDecision
    BY <1>6 DEF Answer, InboxTypeOK, NoDecision
  <2>2. \A k \in Kinds : query[k] \in Q!Query
    BY DEF InboxTypeOK
  <2>3. \A k \in Kinds : Invalidated(k) \in Q!Query /\ \A e : WillShow(Invalidated(k), e)
    BY <2>2, QueryTypes, QueryShows DEF Invalidated
  <2>4. query' \in [Kinds -> Q!Query] /\ \A k \in Kinds : query'[k] = Invalidated(k)
    BY <1>6, <2>3 DEF Answer
  <2>5. InboxTypeOK'
    BY <1>6, <2>1, <2>4 DEF Answer, InboxTypeOK, ItemDecision
  <2>6. ASSUME NEW i \in Undisturbed' PROVE WillShow(query[KindOf(i)], Shown(i))'
    <3>1. i \in Items
      BY <2>5 DEF InboxTypeOK, Undisturbed
    <3>2. WillShow(query'[KindOf(i)], Shown(i)')
      BY <2>3, <2>4, <3>1, KindOfItem
    <3>3. QED
      BY <3>2 DEF WillShow
  <2>7. QED
    BY <2>5, <2>6
<1>7. ASSUME NEW i \in Items, NEW r \in ItemRow, ChangeElsewhere(i, r) PROVE InboxInv'
  <2>1. /\ inboxRow' \in [Items -> ItemRow] /\ \A j \in Items \ {i} : inboxRow'[j] = inboxRow[j]
        /\ decided' = decided \ {i} /\ UNCHANGED query
    BY <1>7 DEF ChangeElsewhere, InboxTypeOK
  <2>2. CASE decide = NoDecision
    BY <1>7, <2>1, <2>2, RowStep DEF ChangeElsewhere, InboxTypeOK, Undisturbed
  <2>3. CASE decide # NoDecision
    <3>1. decide \in ItemDecision
      BY <2>3 DEF InboxTypeOK
    <3>2. decide' \in ItemDecision /\ decide'.written = decide.written \ {i}
      BY <1>7, <2>3, <3>1 DEF ChangeElsewhere, ItemDecision
    <3>3. decide' # NoDecision
      BY <3>2 DEF ItemDecision, NoDecision
    <3>4. InboxTypeOK' /\ Undisturbed' \subseteq Undisturbed \ {i} /\ Undisturbed \subseteq Items
      BY <2>1, <2>3, <3>2, <3>3 DEF InboxTypeOK, Undisturbed
    <3>5. QED
      BY <2>1, <3>4, RowStep
  <2>4. QED
    BY <2>2, <2>3
<1>8. CASE UNCHANGED inboxVars
  BY <1>8, RowStep DEF inboxVars, InboxTypeOK, Undisturbed
<1>9. QED
  BY <1>1, <1>2, <1>3, <1>4, <1>5, <1>6, <1>7, <1>8 DEF InboxNext

(* When a decision has been answered and the lists are at rest, they show  *)
(* what it changed: its answer asks for all three again (invalidate()),    *)
(* and a list it could not ask for says so.                                *)
THEOREM DecisionsAreShown == InboxSpec => []InboxFollowsDecision
<1>1. InboxInv => InboxFollowsDecision
  <2> SUFFICES ASSUME InboxInv, decide = NoDecision, \A k \in Kinds : Q!Settled(query[k]),
                      NEW i \in decided
               PROVE  Shown(i) \in query[KindOf(i)].data
    BY DEF InboxFollowsDecision
  <2>1. KindOf(i) \in Kinds
    BY KindOfItem DEF InboxInv, InboxTypeOK
  <2>2. QED
    BY <2>1 DEF InboxInv, Undisturbed, WillShow, Q!Settled
<1>2. QED
  BY <1>1, InboxInvInit, InboxInvNext, PTL DEF InboxSpec
====
