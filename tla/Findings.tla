------------------------------ MODULE Findings ------------------------------
(***************************************************************************)
(* The findings about one failed test (modules/findings).  classify() asks *)
(* the engine and inserts a row each time it is called; override() and     *)
(* defectDraft() load a row, change columns of their own and save all of   *)
(* it, the draft after reading the result and the run in between.          *)
(***************************************************************************)
EXTENDS Naturals, FiniteSets

CONSTANTS
  Requests,      \* calls of the findings controller
  MaxFindings    \* bound: classifications of the test

VARIABLES
  findings,      \* the rows, in the order they were inserted
  asked,         \* the requests: what they do and the row they hold
  intended,      \* history: the rows as the requests meant them
  clashed        \* history: findings that two requests held at a time
findingVars == <<findings, asked, intended, clashed>>

By == {"none", "agent", "person"}
Finding == [class : By, overridden : BOOLEAN, draft : By]
NoFinding == [class |-> "none", overridden |-> FALSE, draft |-> "none"]
NoRequest == [pc |-> "idle", id |-> 0, row |-> NoFinding]
Ids == 1..MaxFindings
Stored == {i \in Ids : findings[i] # NoFinding}

FindingTypeOK ==
  /\ findings \in [Ids -> Finding] /\ intended \in [Ids -> Finding]
  /\ asked \in [Requests -> [pc : {"idle", "classify", "override", "draft", "answered", "failed"},
                             id : 0..MaxFindings, row : Finding]]
  /\ clashed \subseteq Ids

FindingInit ==
  /\ findings = [i \in Ids |-> NoFinding] /\ intended = findings
  /\ asked = [q \in Requests |-> NoRequest]
  /\ clashed = {}

-----------------------------------------------------------------------------
Doing(q, pc) == asked[q].pc = pc
AskedIs(q, a) == asked' = [asked EXCEPT ![q] = a]
AnswerFinding(q) == AskedIs(q, [NoRequest EXCEPT !.pc = "answered"])

Classify(q) ==
  /\ Doing(q, "idle") /\ AskedIs(q, [NoRequest EXCEPT !.pc = "classify"])
  /\ UNCHANGED <<findings, intended, clashed>>

Inserted == [NoFinding EXCEPT !.class = "agent"]

InsertFinding(q) ==
  /\ Doing(q, "classify") /\ Cardinality(Stored) < MaxFindings
  /\ LET new == Cardinality(Stored) + 1 IN
     /\ findings' = [findings EXCEPT ![new] = Inserted]
     /\ intended' = [intended EXCEPT ![new] = Inserted]
  /\ AnswerFinding(q) /\ UNCHANGED clashed

(* Mutant: the finding is taken as the engine has classified it. *)
Loaded_AsClassified(i) == Inserted

(* getOne(). *)
Loaded(i) == findings[i]

Load(q, pc, i) ==
  /\ Doing(q, "idle") /\ i \in Stored
  /\ AskedIs(q, [pc |-> pc, id |-> i, row |-> Loaded(i)])
  /\ clashed' = IF \E o \in Requests : asked[o].id = i THEN clashed \cup {i} ELSE clashed
  /\ UNCHANGED <<findings, intended>>

Override(q) ==
  LET i == asked[q].id
      Upd(x) == [x EXCEPT !.class = "person", !.overridden = TRUE] IN
  /\ Doing(q, "override")
  /\ findings' = [findings EXCEPT ![i] = Upd(asked[q].row)]
  /\ intended' = [intended EXCEPT ![i] = Upd(@)]
  /\ AnswerFinding(q) /\ UNCHANGED clashed

(* The draft names the classification of the row that is held.             *)
DefectDraft(q) ==
  LET i == asked[q].id
      Upd(x) == [x EXCEPT !.draft = x.class] IN
  /\ Doing(q, "draft")
  /\ findings' = [findings EXCEPT ![i] = Upd(asked[q].row)]
  /\ intended' = [intended EXCEPT ![i] = Upd(@)]
  /\ AnswerFinding(q) /\ UNCHANGED clashed

(* The engine or the table fails.                                          *)
FailAsked(q) ==
  /\ asked[q].pc \in {"classify", "override", "draft"}
  /\ AskedIs(q, [NoRequest EXCEPT !.pc = "failed"])
  /\ UNCHANGED <<findings, intended, clashed>>

FindingNext ==
  \E q \in Requests :
    \/ Classify(q) \/ InsertFinding(q)
    \/ \E pc \in {"override", "draft"}, i \in Ids : Load(q, pc, i)
    \/ Override(q) \/ DefectDraft(q) \/ FailAsked(q)

FindingSpec == FindingInit /\ [][FindingNext]_findingVars

-----------------------------------------------------------------------------
(* A person's classification stays, and a draft names the classification   *)
(* that stood when it was made, unless two requests held the same finding  *)
(* at a time.                                                              *)
OverrideStands == \A i \in Ids \ clashed : findings[i] = intended[i]
=============================================================================
