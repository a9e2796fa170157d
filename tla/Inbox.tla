-------------------------------- MODULE Inbox --------------------------------
(***************************************************************************)
(* The approvals inbox (ApprovalsPage): three lists of a project, of its   *)
(* plans, cases and automation, and the decisions made in them, each a     *)
(* request that may reopen rows of another list (approvals.service).       *)
(*                                                                         *)
(* Nothing tells the page of what others do: it does not listen to         *)
(* approval.updated.  The records and revisions of a decision are those of *)
(* Artefacts and PlanRevisions; here they only may fail.  Cases are those  *)
(* of the first 200, the page has no more.                                 *)
(***************************************************************************)
EXTENDS Naturals

CONSTANTS
  ListedPlans, ListedCases, ListedAutomation,     \* rows of one project
  MadeFrom,                     \* the case a file of automation is generated from
  MaxDecisions,                 \* bound: decisions made in the inbox
  MaxOthers                     \* bound: changes made elsewhere

VARIABLES
  inboxRow,     \* test_plans, test_cases, generated_artifacts
  query,        \* the query of each list: its data are the rows as they are shown
  decide,       \* the decision under way
  decisions, others,    \* how many there have been
  decided       \* history: what answered decisions have changed, and nobody since

inboxVars == <<inboxRow, query, decide, decisions, others, decided>>

Kinds == {"test_plan", "test_case", "automation"}
ItemsOf(kind) ==
  CASE kind = "test_plan" -> ListedPlans
    [] kind = "test_case" -> ListedCases
    [] kind = "automation" -> ListedAutomation
Items == UNION {ItemsOf(k) : k \in Kinds}
KindOf(i) == CHOOSE k \in Kinds : i \in ItemsOf(k)

Statuses == {"pending", "approved", "rejected"}
(* The static checks: "ok" is passed with warnings or overridden, "open"    *)
(* what does not count as validated.                                       *)
Validations == {"open", "passed", "ok"}
ItemRow == [status : Statuses, invalidated : BOOLEAN, validation : Validations]
Shown(i) == [item |-> i, status |-> inboxRow[i].status, invalidated |-> inboxRow[i].invalidated]

Q == INSTANCE Queries
       WITH Elements <- [item : Items, status : Statuses, invalidated : BOOLEAN]

NoDecision == [pc |-> "idle"]
NotHeld == [status |-> "pending", invalidated |-> FALSE, validation |-> "open"]

ItemDecision ==
  [pc : {"asked", "checked", "loaded", "saved", "reopening", "done"},
   item : Items, decision : {"approved", "rejected"},
   held : ItemRow,                              \* the row that was loaded
   affected : SUBSET ListedAutomation,          \* what is still to be reopened
   written : SUBSET Items]                      \* history: what it has changed

InboxTypeOK ==
  /\ inboxRow \in [Items -> ItemRow]
  /\ query \in [Kinds -> Q!Query]
  /\ decide \in {NoDecision} \cup ItemDecision
  /\ decided \subseteq Items

InboxInit ==
  /\ inboxRow \in [Items -> {[status |-> "pending", invalidated |-> FALSE, validation |-> v] :
                           v \in Validations}]
  /\ \A i \in Items \ ListedAutomation : inboxRow[i].validation = "passed"
  /\ query = [k \in Kinds |-> Q!Ask(Q!Unasked)]
  /\ decide = NoDecision
  /\ decisions = 0 /\ others = 0
  /\ decided = {}

-----------------------------------------------------------------------------
(* The lists.                                                              *)
QueryIs(k, q) ==
  /\ query' = [query EXCEPT ![k] = q]
  /\ UNCHANGED <<inboxRow, decide, decisions, others, decided>>

Serve(k) == query[k].fetch = "asked" /\ QueryIs(k, Q!Serve(query[k], {Shown(i) : i \in ItemsOf(k)}))

Receive(k) == query[k].fetch = "answered" /\ QueryIs(k, Q!Receive(query[k]))

Lose(k) == query[k].fetch = "answered" /\ QueryIs(k, Q!Lose(query[k]))

(* A list that failed for the first time is as good as empty.              *)
Loading == \E k \in Kinds : ~query[k].known /\ query[k].fetch # "idle"

(* The checkbox may be on or off.                                          *)
InboxRows(onlyPending) ==
  {r \in UNION {query[k].data : k \in Kinds} :
     onlyPending => r.status = "pending" \/ r.invalidated}

-----------------------------------------------------------------------------
(* A decision.                                                             *)
Step(upd) ==
  /\ decide' = upd
  /\ UNCHANGED <<query, decisions, others, decided>>

DecideItem(r, decision) ==
  /\ decide = NoDecision /\ ~Loading
  /\ decisions < MaxDecisions /\ decisions' = decisions + 1
  /\ decide' = [pc |-> "asked", item |-> r.item, decision |-> decision, held |-> NotHeld,
                affected |-> {}, written |-> {}]
  /\ UNCHANGED <<inboxRow, query, others, decided>>

(* Automation must be validated to be approved.                            *)
Approvable(i, decision) ==
  i \in ListedAutomation /\ decision = "approved" => inboxRow[i].validation # "open"

Check ==
  /\ decide.pc = "asked"
  /\ Approvable(decide.item, decide.decision)
  /\ Step([decide EXCEPT !.pc = "checked"])
  /\ UNCHANGED inboxRow

(* It is answered with an error, as a request is that fails half-way.  The *)
(* page leaves its lists as they are.                                      *)
Refused ==
  /\ decide' = NoDecision
  /\ decided' = decided \ decide.written
  /\ UNCHANGED <<inboxRow, query, decisions, others>>

RefuseItem ==
  /\ decide.pc = "asked"
  /\ Refused

LoadItem ==
  /\ decide.pc = "checked"
  /\ Step([decide EXCEPT !.pc = "loaded", !.held = inboxRow[decide.item]])
  /\ UNCHANGED inboxRow

SaveItem ==
  /\ decide.pc = "loaded"
  /\ inboxRow' = [inboxRow EXCEPT ![decide.item] =
                    [decide.held EXCEPT !.status = decide.decision, !.invalidated = FALSE]]
  /\ Step([decide EXCEPT !.pc = "saved", !.held = NotHeld, !.written = @ \cup {decide.item}])

(* The automation of a rejected case that is not to be trusted any more: of *)
(* the validated files only those that passed outright.                    *)
FilesAffected ==
  IF decide.item \in ListedCases /\ decide.decision # "approved"
  THEN {a \in ListedAutomation :
          /\ MadeFrom[a] = decide.item
          /\ inboxRow[a].status = "approved" \/ inboxRow[a].validation = "passed"}
  ELSE {}

FindAffected ==
  /\ decide.pc = "saved"
  /\ Step([decide EXCEPT !.pc = "reopening", !.affected = FilesAffected])
  /\ UNCHANGED inboxRow

Reopen(a) ==
  /\ decide.pc = "reopening" /\ a \in decide.affected
  /\ inboxRow' = [inboxRow EXCEPT ![a] =
                    [status |-> "pending", invalidated |-> TRUE, validation |-> "open"]]
  /\ Step([decide EXCEPT !.affected = @ \ {a}, !.written = @ \cup {a}])

Finish ==
  /\ decide.pc = "reopening" /\ decide.affected = {}
  /\ Step([decide EXCEPT !.pc = "done"])
  /\ UNCHANGED inboxRow

(* decideBulk() turns the failure of a case into a part of its answer.     *)
Fail ==
  /\ decide.pc \in {"checked", "loaded", "saved", "reopening"}
  /\ IF decide.item \in ListedCases
     THEN Step([decide EXCEPT !.pc = "done"]) /\ UNCHANGED inboxRow
     ELSE Refused

(* Mutant: only the list of what was decided is asked for. *)
Invalidated_OfKind(k) ==
  IF decide.item \in ItemsOf(k) THEN Q!Invalidated(query[k], TRUE) ELSE query[k]

Invalidated(k) == Q!Invalidated(query[k], TRUE)

(* onSuccess                                                               *)
Answer ==
  /\ decide.pc = "done"
  /\ query' = [k \in Kinds |-> Invalidated(k)]
  /\ decide' = NoDecision
  /\ decided' = decided \cup decide.written
  /\ UNCHANGED <<inboxRow, decisions, others>>

LoseAnswer == decide.pc = "done" /\ Refused

-----------------------------------------------------------------------------
(* An edit, a validation or a decision on another page.                    *)
ChangeElsewhere(i, r) ==
  /\ others < MaxOthers /\ others' = others + 1
  /\ i \notin ListedAutomation => r.validation = "passed"
  /\ r # inboxRow[i] /\ inboxRow' = [inboxRow EXCEPT ![i] = r]
  /\ decided' = decided \ {i}
  /\ decide' = IF decide = NoDecision THEN decide ELSE [decide EXCEPT !.written = @ \ {i}]
  /\ UNCHANGED <<query, decisions>>

InboxNext ==
  \/ \E k \in Kinds : Serve(k) \/ Receive(k) \/ Lose(k)
  \/ \E only \in BOOLEAN, d \in {"approved", "rejected"} :
       \E r \in InboxRows(only) : DecideItem(r, d)
  \/ Check \/ RefuseItem \/ LoadItem \/ SaveItem \/ FindAffected \/ Finish \/ Fail
  \/ \E a \in ListedAutomation : Reopen(a)
  \/ Answer \/ LoseAnswer
  \/ \E i \in Items, r \in ItemRow : ChangeElsewhere(i, r)

InboxSpec == InboxInit /\ [][InboxNext]_inboxVars

-----------------------------------------------------------------------------
(* When a decision has been answered and the lists have come to rest, the  *)
(* inbox shows what it changed as it is now, the automation that it        *)
(* reopened included (onSuccess of ApprovalsPage), unless it was changed   *)
(* elsewhere since.  Not after a decision that was answered with an error. *)
InboxFollowsDecision ==
  decide = NoDecision /\ (\A k \in Kinds : Q!Settled(query[k])) =>
    \A i \in decided : Shown(i) \in query[KindOf(i)].data
=============================================================================
