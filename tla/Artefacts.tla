------------------------------ MODULE Artefacts ------------------------------
(***************************************************************************)
(* Test cases, the automation generated from them, their validation and    *)
(* their approval: AutomationService, TestCasesService, ApprovalsService   *)
(* and the gate of ExecutionsService.                                      *)
(*                                                                         *)
(* A handler loads a row, awaits other calls and saves the object it       *)
(* loaded: every save writes a whole row, as old as the object is.  Each   *)
(* handler is a slot that goes through its awaits one step at a time; a    *)
(* slot may be abandoned at any of them (an error, a stop of the backend). *)
(***************************************************************************)
EXTENDS Naturals, FiniteSets

CONSTANTS
  Cases,         \* test cases
  Automation,    \* automation artefacts
  Source,        \* the test case an artefact is generated from
  PageObjects,   \* the artefacts among them that are page objects
  Slots,         \* handlers in flight at a time
  MaxContent,    \* bound: contents of one resource
  MaxCalls       \* bound: handlers started in all

ASSUME ResourcesAssumption ==
  /\ Cases \cap Automation = {}
  /\ Source \in [Automation -> Cases]
  /\ PageObjects \subseteq Automation
ASSUME BoundsAssumption == MaxContent \in Nat \ {0} /\ MaxCalls \in Nat

Resources == Cases \cup Automation

VARIABLES
  row,       \* the stored rows
  record,    \* the latest entry of the approvals table for a resource
  last,      \* number of the newest content of a resource
  slot,      \* the handlers: where they are, the copy or copies they hold
  calls,     \* handlers started
  races      \* history: the races each resource has been through

artefactVars == <<row, record, last, slot, calls, races>>

Decisions == {"approved", "rejected", "regenerate"}
Verdicts == {"passed", "passed_with_warnings", "failed"}
Executable == {"passed", "passed_with_warnings", "overridden"}

(* Content is a number, 0 where there is no row.  Three fields are history *)
(* and are saved with the row: the content the verdict speaks of (checked), *)
(* the content the approval speaks of (agreed), that of its case then.     *)
Row == [content : Nat,
        validation : {"pending", "running", "overridden"} \cup Verdicts,
        approval : {"pending", "approved", "rejected"},
        invalidated : BOOLEAN,
        checked : Nat, agreed : Nat, basis : Nat]
NoContent == [content |-> 0, validation |-> "pending", approval |-> "pending", invalidated |-> FALSE,
          checked |-> 0, agreed |-> 0, basis |-> 0]
Exists(x) == row[x].content > 0

Races == {"glimpsed", "overtaken", "crossed", "abandoned"}

PC == {"idle", "generate", "edit", "reopen", "mark", "downstream", "loop", "validate", "engine",
       "verdict", "override", "load", "decide", "record", "queued"}
Idle == [pc |-> "idle", of |-> {}, row |-> NoContent, sent |-> 0, decision |-> "approved",
         todo |-> [a \in {} |-> NoContent]]

ArtefactTypeOK ==
  /\ row \in [Resources -> Row]
  /\ record \in [Resources -> [decision : Decisions \cup {"none"}, invalidated : BOOLEAN]]
  /\ last \in [Resources -> 0..MaxContent]
  /\ \A s \in Slots :
       /\ slot[s].pc \in PC /\ slot[s].of \subseteq Resources
       /\ slot[s].row \in Row /\ slot[s].decision \in Decisions
       /\ DOMAIN slot[s].todo \subseteq Automation
  /\ calls \in 0..MaxCalls
  /\ races \in [Resources -> SUBSET Races]

ArtefactInit ==
  /\ row = [x \in Resources |-> NoContent]
  /\ record = [x \in Resources |-> [decision |-> "none", invalidated |-> FALSE]]
  /\ last = [x \in Resources |-> 0]
  /\ slot = [s \in Slots |-> Idle]
  /\ calls = 0
  /\ races = [x \in Resources |-> {}]

-----------------------------------------------------------------------------
At(s, pc) == slot[s].pc = pc
Start(s, of, h) ==
  /\ At(s, "idle") /\ calls < MaxCalls
  /\ calls' = calls + 1
  /\ slot' = [slot EXCEPT ![s] = [h EXCEPT !.of = of]]
Begin(s, pc, x, r) == Start(s, {x}, [Idle EXCEPT !.pc = pc, !.row = r])
Become(s, h) == slot' = [slot EXCEPT ![s] = h] /\ UNCHANGED calls
Go(s, pc) == Become(s, [slot[s] EXCEPT !.pc = pc])
GoWith(s, pc, r) == Become(s, [slot[s] EXCEPT !.pc = pc, !.row = r])
End(s) == Become(s, Idle)
Of(s) == CHOOSE x \in slot[s].of : TRUE

Others(s, x, pcs) == {t \in Slots \ {s} : slot[t].pc \in pcs /\ slot[t].of = {x}}
Holders(s, x) ==
  Others(s, x, {"edit", "mark", "validate", "verdict", "override", "decide", "record"})
    \cup {t \in Slots \ {s} : x \in DOMAIN slot[t].todo}

(* The history of races: a validation or an override loads a row between   *)
(* the two saves of an edit ("glimpsed"); content changes while the engine *)
(* has it ("overtaken"); a row is saved while another handler has still to *)
(* write it ("crossed"); a handler breaks off after its first save         *)
(* ("abandoned").                                                          *)
Note(x, found) == races' = [races EXCEPT ![x] = @ \cup found]
If(holds, name) == IF holds THEN {name} ELSE {}

Load(s, x) == Note(x, If(Others(s, x, {"reopen", "mark"}) # {}, "glimpsed"))

Save(s, x, r) ==
  /\ row' = [row EXCEPT ![x] = r]
  /\ Note(x, If(Holders(s, x) # {}, "crossed")
             \cup If(r.content # row[x].content /\ Others(s, x, {"engine"}) # {}, "overtaken"))

Approved(r) == r.approval = "approved"
Validated(r) == r.validation \in Executable

(* The gate of resolveScope(), of a push and of a CI run.                  *)
Ready(r) == Approved(r) /\ Validated(r)

-----------------------------------------------------------------------------
(* generate(): test cases from requirements, automation from test cases    *)
(* that are approved unless a draft is asked for.  The rows are written    *)
(* when the engine has answered.                                           *)

Fresh(x) == ~Exists(x) /\ \A s \in Slots : x \notin slot[s].of

GenerateCase(s, c) ==
  /\ Fresh(c)
  /\ Begin(s, "generate", c, [NoContent EXCEPT !.content = 1])
  /\ UNCHANGED <<row, record, last, races>>

GenerateAutomation(s, a, draft) ==
  /\ Fresh(a) /\ Exists(Source[a])
  /\ draft \/ Approved(row[Source[a]])
  /\ Begin(s, "generate", a, [NoContent EXCEPT !.content = 1])
  /\ UNCHANGED <<row, record, last, races>>

SaveGenerated(s, x) ==
  /\ At(s, "generate") /\ slot[s].of = {x}
  /\ Save(s, x, slot[s].row)
  /\ last' = [last EXCEPT ![x] = 1]
  /\ End(s)
  /\ UNCHANGED record
GeneratedCase(s) == \E c \in Cases : SaveGenerated(s, c)
GeneratedAutomation(s) == \E a \in Automation : SaveGenerated(s, a)

-----------------------------------------------------------------------------
(* Edits: updateContent() of automation, update() of a test case.  New     *)
(* content of automation is unvalidated in the same save.                  *)

(* Mutant: an edit keeps the verdict on the content before it. *)
Edited_KeepsVerdict(x) == [row[x] EXCEPT !.content = last[x] + 1]

Edited(x) ==
  IF x \in Automation
  THEN [row[x] EXCEPT !.content = last[x] + 1, !.validation = "pending"]
  ELSE [row[x] EXCEPT !.content = last[x] + 1]

Update(s, x) ==
  /\ Exists(x) /\ last[x] < MaxContent
  /\ Begin(s, "edit", x, Edited(x))
  /\ last' = [last EXCEPT ![x] = @ + 1]
  /\ UNCHANGED <<row, record, races>>

SaveEdit(s) ==
  /\ At(s, "edit")
  /\ Save(s, Of(s), slot[s].row)
  /\ GoWith(s, "reopen", NoContent)
  /\ UNCHANGED <<record, last>>

(* Mutant: the row is flagged, its approval stays. *)
Reopened_FlagOnly(r) == [r EXCEPT !.invalidated = TRUE]

Reopened(r) == [r EXCEPT !.approval = "pending", !.invalidated = TRUE]

(* onUpstreamModified(): an approved row is loaded, reopened and saved,    *)
(* its approvals are marked; then the automation downstream.               *)
OnUpstreamModified(s) ==
  LET x == Of(s)
  IN  /\ At(s, "reopen")
      /\ IF Approved(row[x])
         THEN GoWith(s, "mark", Reopened(row[x]))
         ELSE IF x \in Cases THEN Go(s, "downstream") ELSE End(s)
      /\ UNCHANGED <<row, record, last, races>>

(* Mutant: the approvals table is left alone. *)
Mark_Nothing(x) == record

Mark(x) == IF record[x].decision = "approved" THEN [record EXCEPT ![x].invalidated = TRUE] ELSE record

(* The save and the update of the approvals table; nothing reads the table *)
(* between them.                                                           *)
SaveReopened(s) ==
  LET x == Of(s)
  IN  /\ At(s, "mark")
      /\ Save(s, x, slot[s].row)
      /\ record' = Mark(x)
      /\ IF x \in Cases THEN GoWith(s, "downstream", NoContent) ELSE End(s)
      /\ UNCHANGED last

(* invalidateDownstream(): all automation of a test case is loaded, then   *)
(* what is approved or passed is saved, one after the other.               *)
Affected(c) == {a \in Automation : Exists(a) /\ Source[a] = c}

InvalidateDownstream(s) ==
  /\ At(s, "downstream")
  /\ Become(s, [slot[s] EXCEPT !.pc = "loop", !.todo = [a \in Affected(Of(s)) |-> row[a]]])
  /\ races' = [x \in Resources |->
       races[x] \cup If(x \in Affected(Of(s)) /\ Holders(s, x) # {}, "crossed")]
  /\ UNCHANGED <<row, record, last>>

(* Mutant: only passed artefacts are reset. *)
Untrusted_PassedOnly(r) == r.validation = "passed"

Untrusted(r) == Approved(r) \/ r.validation = "passed"

InvalidateOne(s, a) ==
  LET r == slot[s].todo[a]
      rest == DOMAIN slot[s].todo \ {a}
  IN  /\ At(s, "loop") /\ a \in DOMAIN slot[s].todo
      /\ IF Untrusted(r)
         THEN Save(s, a, [Reopened(r) EXCEPT !.validation = "pending"]) /\ record' = Mark(a)
         ELSE UNCHANGED <<row, record, races>>
      /\ Become(s, [slot[s] EXCEPT !.todo = [b \in rest |-> @[b]]])
      /\ UNCHANGED last

InvalidationDone(s) ==
  /\ At(s, "loop") /\ DOMAIN slot[s].todo = {}
  /\ End(s)
  /\ UNCHANGED <<row, record, last, races>>

-----------------------------------------------------------------------------
(* validate(): the row is saved as running; a job sends the content it had *)
(* to the engine and stores the verdict on the row as it is then.          *)

Validate(s, a) ==
  /\ Exists(a)
  /\ Begin(s, "validate", a, [row[a] EXCEPT !.validation = "running"])
  /\ Load(s, a)
  /\ UNCHANGED <<row, record, last>>

StartValidation(s) ==
  /\ At(s, "validate")
  /\ Save(s, Of(s), slot[s].row)
  /\ Become(s, [slot[s] EXCEPT !.pc = "engine", !.sent = slot[s].row.content, !.row = NoContent])
  /\ UNCHANGED <<record, last>>

AnswerValidation(s, verdict) ==
  /\ At(s, "engine")
  /\ GoWith(s, "verdict", [row[Of(s)] EXCEPT !.validation = verdict, !.checked = slot[s].sent])
  /\ Load(s, Of(s))
  /\ UNCHANGED <<row, record, last>>

StoreVerdict(s) ==
  /\ At(s, "verdict")
  /\ Save(s, Of(s), slot[s].row)
  /\ End(s)
  /\ UNCHANGED <<record, last>>

(* overrideValidation(): a recorded exception for the content as loaded.   *)
Override(s, a) ==
  /\ Exists(a)
  /\ Begin(s, "override", a, [row[a] EXCEPT !.validation = "overridden", !.checked = row[a].content])
  /\ Load(s, a)
  /\ UNCHANGED <<row, record, last>>

SaveOverride(s) ==
  /\ At(s, "override")
  /\ Save(s, Of(s), slot[s].row)
  /\ End(s)
  /\ UNCHANGED <<record, last>>

-----------------------------------------------------------------------------
(* approve(): the validation of the row is checked, then decide() loads it *)
(* again, saves the decision and records it.                               *)

Approve(s, x, d) ==
  /\ Exists(x)
  /\ x \in Automation /\ d = "approved" => Validated(row[x])
  /\ Start(s, {x}, [Idle EXCEPT !.pc = "load", !.decision = d])
  /\ UNCHANGED <<row, record, last, races>>

(* Mutant: the decision is stored as it came. *)
NextStatus_Verbatim(d) == d

NextStatus(d) == IF d = "regenerate" THEN "pending" ELSE d

Decided(x, d) ==
  [row[x] EXCEPT !.approval = NextStatus(d), !.invalidated = FALSE,
                 !.agreed = IF d = "approved" THEN row[x].content ELSE @,
                 !.basis = IF d = "approved" /\ x \in Automation THEN row[Source[x]].content ELSE @]

Decide(s) ==
  /\ At(s, "load")
  /\ GoWith(s, "decide", Decided(Of(s), slot[s].decision))
  /\ UNCHANGED <<row, record, last, races>>

SaveDecision(s) ==
  /\ At(s, "decide")
  /\ Save(s, Of(s), slot[s].row)
  /\ GoWith(s, "record", NoContent)
  /\ UNCHANGED <<record, last>>

Record(s) ==
  LET x == Of(s)
      d == slot[s].decision
  IN  /\ At(s, "record")
      /\ record' = [record EXCEPT ![x] = [decision |-> d, invalidated |-> FALSE]]
      /\ IF d # "approved" /\ x \in Cases THEN Go(s, "downstream") ELSE End(s)
      /\ UNCHANGED <<row, last, races>>

-----------------------------------------------------------------------------
(* A run: resolveScope() passes the gate, startRun() reads the rows again  *)
(* when the run has left the queue, with every page object there is.       *)

CreateRun(s, arts) ==
  /\ \A a \in arts : Exists(a) /\ Ready(row[a])
  /\ Start(s, arts, [Idle EXCEPT !.pc = "queued"])
  /\ UNCHANGED <<row, record, last, races>>

Submitted(s) == slot[s].of \cup {a \in PageObjects : Exists(a)}

Materialise(s) ==
  /\ At(s, "queued")
  /\ End(s)
  /\ UNCHANGED <<row, record, last, races>>

Abandon(s) ==
  /\ ~At(s, "idle")
  /\ IF slot[s].pc \in {"reopen", "mark", "downstream", "loop", "record"}
     THEN Note(Of(s), {"abandoned"}) ELSE UNCHANGED races
  /\ End(s)
  /\ UNCHANGED <<row, record, last>>

Handler(s) ==
  \/ \E c \in Cases : GenerateCase(s, c)
  \/ \E a \in Automation : GenerateAutomation(s, a, TRUE) \/ GenerateAutomation(s, a, FALSE)
  \/ GeneratedCase(s) \/ GeneratedAutomation(s)
  \/ \E x \in Resources : Update(s, x)
  \/ SaveEdit(s) \/ OnUpstreamModified(s) \/ SaveReopened(s)
  \/ InvalidateDownstream(s)
  \/ \E a \in Automation : InvalidateOne(s, a)
  \/ InvalidationDone(s)
  \/ \E a \in Automation : Validate(s, a) \/ Override(s, a)
  \/ StartValidation(s)
  \/ \E v \in Verdicts : AnswerValidation(s, v)
  \/ StoreVerdict(s) \/ SaveOverride(s)
  \/ \E x \in Resources, d \in Decisions : Approve(s, x, d)
  \/ Decide(s) \/ SaveDecision(s) \/ Record(s)
  \/ \E arts \in SUBSET Automation \ {{}} : CreateRun(s, arts)
  \/ Materialise(s)
  \/ Abandon(s)

ArtefactNext == \E s \in Slots : Handler(s)

ArtefactSpec == ArtefactInit /\ [][ArtefactNext]_artefactVars

-----------------------------------------------------------------------------
(* Properties.  Handlers interleave freely, write stale copies and die     *)
(* half-way; each property names the one race that can break what it says. *)

(* A verdict that lets automation run speaks of the content it stands      *)
(* beside (updateContent() resets it in the save of the content), unless   *)
(* the content changed while the engine had it: stale whole-row saves put  *)
(* back a content and its own verdict.                                     *)
VerdictIsOfContent ==
  \A a \in Automation :
    Validated(row[a]) /\ row[a].checked # row[a].content => "overtaken" \in races[a]

(* Automation that passes the gate was approved with the content it has,   *)
(* unless a handler loaded it between the two saves of an edit             *)
(* (automation.service.ts:377 and approvals.service.ts:280) or an edit     *)
(* broke off there.                                                        *)
ApprovalIsOfContent ==
  \A a \in Automation :
    Ready(row[a]) /\ row[a].agreed # row[a].content =>
      races[a] \cap {"glimpsed", "abandoned"} # {}

(* Automation that passes the gate was approved for its test case as it is *)
(* now (invalidateDownstream()), except while the change is being carried  *)
(* through, after one that broke off, or when two handlers crossed.        *)
CarriedThrough(s, a) ==
  /\ slot[s].of = {Source[a]}
  /\ slot[s].pc \in {"reopen", "mark", "downstream"} \/ a \in DOMAIN slot[s].todo
CaseChangeReopens ==
  \A a \in Automation :
    Ready(row[a]) /\ row[a].basis # row[Source[a]].content =>
      \/ "crossed" \in races[a] \cup races[Source[a]]
      \/ "abandoned" \in races[Source[a]]
      \/ \E s \in Slots : CarriedThrough(s, a)

(* A resource is approved exactly when the newest entry of the approvals   *)
(* table approves it and is not invalidated, except while a decision that  *)
(* is saved has still to be recorded (approvals.service.ts:175), as long   *)
(* as its handlers came one after the other and ran to their end.          *)
RecordsAgree ==
  \A x \in Resources :
    races[x] = {} /\ (\A s \in Slots : ~(slot[s].of = {x} /\ At(s, "record"))) =>
      (Approved(row[x]) <=> record[x] = [decision |-> "approved", invalidated |-> FALSE])

(* "a change to generated code requires revalidation and reapproval before *)
(* it can execute" (automation.service.ts:346): what startRun() hands to   *)
(* the engine is validated and approved.                                   *)
EditedCodeIsReapproved ==
  [][\A s \in Slots : Materialise(s) => \A a \in Submitted(s) : Ready(row[a])]_artefactVars
=============================================================================
