---------------------------- MODULE RecordsProofs ----------------------------
(***************************************************************************)
(* What the records of a run promise for every number of requests, pages,  *)
(* files and handlers: the findings about its tests, the decisions on its  *)
(* report, the row of the run itself, the documents that were uploaded for *)
(* its project, the results of its tests on their way to the report, its   *)
(* comparison with another run, and its log on a console.                  *)
(***************************************************************************)
EXTENDS Findings, Publication, RunRecords, Uploads, RunResults, Regression, LiveFeed, TLAPS,
        FiniteSetTheorems, SequenceTheorems, WellFoundedInduction

-----------------------------------------------------------------------------
(* Findings.  A request holds a row of its own, the stored one, until it   *)
(* writes it - unless another request has held the same finding.           *)
HoldsFinding(q) == asked[q].pc \in {"override", "draft"}

FindingsAreFilled == \E n \in 0..MaxFindings : Stored = 1..n

StoredAreClassified == \A i \in Stored : findings[i].class # "none"

HeldIsStored ==
  \A q \in Requests :
    IF HoldsFinding(q)
    THEN asked[q].id \in Stored /\ asked[q].row.class # "none"
    ELSE asked[q].id = 0

HeldIsCurrent ==
  \A q \in Requests : HoldsFinding(q) /\ asked[q].id \notin clashed =>
    asked[q].row = findings[asked[q].id]

OneHolder ==
  \A q, o \in Requests : q # o /\ HoldsFinding(q) /\ HoldsFinding(o) /\ asked[q].id = asked[o].id =>
    asked[q].id \in clashed

FindingIInv ==
  /\ FindingTypeOK
  /\ FindingsAreFilled /\ StoredAreClassified
  /\ HeldIsStored /\ HeldIsCurrent /\ OneHolder
  /\ OverrideStands

LEMMA FindingInitIInv ==
  ASSUME MaxFindings \in Nat, FindingInit
  PROVE  FindingIInv
<1> USE DEF FindingInit, Stored
<1>1. Stored = 1..0
  OBVIOUS
<1>2. QED
  BY <1>1 DEF FindingIInv, FindingTypeOK, FindingsAreFilled, StoredAreClassified, HeldIsStored,
     HeldIsCurrent, OneHolder, OverrideStands, HoldsFinding, Ids, Finding, By, NoFinding, NoRequest

(* The next classification of the test goes to a place that is empty.      *)
LEMMA InsertPlace ==
  ASSUME MaxFindings \in Nat, FindingsAreFilled, Cardinality(Stored) < MaxFindings
  PROVE  /\ Cardinality(Stored) + 1 \in Ids \ Stored
         /\ Stored = 1..Cardinality(Stored)
         /\ Cardinality(Stored) \in 0..MaxFindings
<1>1. PICK n \in 0..MaxFindings : Stored = 1..n
  BY DEF FindingsAreFilled
<1>2. Cardinality(Stored) = n
  BY <1>1, FS_Interval
<1>3. QED
  BY <1>1, <1>2 DEF Ids
(* What a request is when it holds no finding.                             *)
LEMMA FreeRequest ==
  ASSUME MaxFindings \in Nat, NEW pc \in {"idle", "classify", "answered", "failed"}
  PROVE  [NoRequest EXCEPT !.pc = pc] \in
           [pc : {"idle", "classify", "override", "draft", "answered", "failed"},
            id : 0..MaxFindings, row : Finding]
<1>1. NoFinding \in Finding
  BY DEF NoFinding, Finding, By
<1>2. QED
  BY <1>1 DEF NoRequest

LEMMA InsertFindingKeepsIInv ==
  ASSUME MaxFindings \in Nat, FindingIInv, NEW q \in Requests, InsertFinding(q)
  PROVE  FindingIInv'
<1> DEFINE new == Cardinality(Stored) + 1
<1> USE DEF FindingIInv, FindingTypeOK
<1>1. /\ new \in Ids \ Stored /\ Stored = 1..Cardinality(Stored)
      /\ Cardinality(Stored) \in 0..MaxFindings
  BY InsertPlace DEF InsertFinding
<1>2. /\ findings' = [findings EXCEPT ![new] = Inserted]
      /\ intended' = [intended EXCEPT ![new] = Inserted]
      /\ asked' = [asked EXCEPT ![q] = [NoRequest EXCEPT !.pc = "answered"]]
      /\ clashed' = clashed
  BY DEF InsertFinding, AnswerFinding, AskedIs
<1>3. Inserted \in Finding /\ Inserted # NoFinding /\ Inserted.class # "none"
  BY DEF Inserted, Finding, By, NoFinding
<1>4. Stored' = Stored \cup {new}
  BY <1>1, <1>2, <1>3 DEF Stored
<1>5. FindingTypeOK'
  BY <1>1, <1>2, <1>3, FreeRequest
<1>6. FindingsAreFilled'
  <2>1. Stored' = 1..new /\ new \in 0..MaxFindings
    BY <1>1, <1>4 DEF Ids
  <2>2. QED
    BY <2>1 DEF FindingsAreFilled
<1>7. StoredAreClassified'
  BY <1>1, <1>2, <1>3, <1>4 DEF StoredAreClassified
<1>8. HeldIsStored'
  BY <1>2, <1>4 DEF HeldIsStored, HoldsFinding, NoRequest
<1>9. HeldIsCurrent'
  BY <1>1, <1>2 DEF HeldIsCurrent, HeldIsStored, HoldsFinding, NoRequest
<1>10. OneHolder'
  BY <1>2 DEF OneHolder, HoldsFinding, NoRequest
<1>11. OverrideStands'
  BY <1>1, <1>2 DEF OverrideStands
<1>12. QED
  BY <1>5, <1>6, <1>7, <1>8, <1>9, <1>10, <1>11

LEMMA LoadKeepsIInv ==
  ASSUME FindingIInv, NEW q \in Requests, NEW pc \in {"override", "draft"}, NEW i \in Ids,
         Load(q, pc, i)
  PROVE  FindingIInv'
<1> USE DEF FindingIInv, FindingTypeOK
<1>1. /\ asked' = [asked EXCEPT ![q] = [pc |-> pc, id |-> i, row |-> findings[i]]]
      /\ i \in Stored /\ asked[q].pc = "idle"
      /\ findings' = findings /\ intended' = intended
      /\ clashed' = IF \E o \in Requests : asked[o].id = i THEN clashed \cup {i} ELSE clashed
  BY DEF Load, AskedIs, Loaded, Doing
<1>2. Stored' = Stored
  BY <1>1 DEF Stored
<1>3. FindingTypeOK'
  BY <1>1 DEF Ids
<1>4. HeldIsStored'
  BY <1>1, <1>2 DEF HeldIsStored, HoldsFinding, StoredAreClassified
<1>5. HeldIsCurrent'
  BY <1>1 DEF HeldIsCurrent, HoldsFinding
<1>6. OneHolder'
  BY <1>1 DEF OneHolder, HoldsFinding
<1>7. OverrideStands' /\ FindingsAreFilled' /\ StoredAreClassified'
  BY <1>1, <1>2 DEF OverrideStands, FindingsAreFilled, StoredAreClassified
<1>8. QED
  BY <1>3, <1>4, <1>5, <1>6, <1>7

(* A save of the row that is held, changed by the request as is intended   *)
(* of the stored one.                                                      *)
LEMMA SaveKeepsIInv ==
  ASSUME MaxFindings \in Nat, FindingIInv, NEW q \in Requests, HoldsFinding(q),
         NEW saved \in Finding, saved.class # "none",
         NEW aimed \in Finding,
         asked[q].row = intended[asked[q].id] => saved = aimed,
         findings' = [findings EXCEPT ![asked[q].id] = saved],
         intended' = [intended EXCEPT ![asked[q].id] = aimed],
         AnswerFinding(q), UNCHANGED clashed
  PROVE  FindingIInv'
<1> DEFINE i == asked[q].id
<1> USE DEF FindingIInv, FindingTypeOK
<1>1. asked' = [asked EXCEPT ![q] = [NoRequest EXCEPT !.pc = "answered"]]
  BY DEF AnswerFinding, AskedIs
<1>2. i \in Stored /\ i \in Ids
  BY DEF HeldIsStored, Stored
<1>3. Stored' = Stored
  BY <1>2 DEF Stored, NoFinding
<1>4. FindingTypeOK'
  BY <1>1, <1>2, FreeRequest
<1>5. HeldIsStored'
  BY <1>1, <1>3 DEF HeldIsStored, HoldsFinding, NoRequest
<1>6. HeldIsCurrent'
  <2> SUFFICES ASSUME NEW o \in Requests, HoldsFinding(o)', (asked[o].id \notin clashed)'
               PROVE  (asked[o].row = findings[asked[o].id])'
    BY DEF HeldIsCurrent
  <2>1. o # q /\ asked'[o] = asked[o] /\ HoldsFinding(o)
    BY <1>1 DEF HoldsFinding, NoRequest
  <2>2. asked[o].id # i
    BY <2>1 DEF OneHolder
  <2>3. QED
    BY <2>1, <2>2, <1>2 DEF HeldIsCurrent, HeldIsStored, Stored
<1>7. OneHolder'
  BY <1>1 DEF OneHolder, HoldsFinding, NoRequest
<1>8. OverrideStands'
  BY <1>2 DEF OverrideStands, HeldIsCurrent
<1>9. FindingsAreFilled' /\ StoredAreClassified'
  BY <1>2, <1>3 DEF FindingsAreFilled, StoredAreClassified, Stored
<1>10. QED
  BY <1>4, <1>5, <1>6, <1>7, <1>8, <1>9

LEMMA FindingStepIInv ==
  ASSUME MaxFindings \in Nat, FindingIInv, [FindingNext]_findingVars
  PROVE  FindingIInv'
<1>1. CASE UNCHANGED findingVars
  BY <1>1 DEF findingVars, FindingIInv, FindingTypeOK, FindingsAreFilled, StoredAreClassified,
     HeldIsStored, HeldIsCurrent, OneHolder, OverrideStands, HoldsFinding, Stored
<1>2. ASSUME NEW q \in Requests, Classify(q) \/ FailAsked(q)
      PROVE  FindingIInv'
  <2>1. PICK pc \in {"classify", "failed"} :
          asked' = [asked EXCEPT ![q] = [NoRequest EXCEPT !.pc = pc]]
    BY <1>2 DEF Classify, FailAsked, AskedIs
  <2>2. findings' = findings /\ intended' = intended /\ clashed' = clashed
    BY <1>2 DEF Classify, FailAsked
  <2>3. FindingTypeOK'
    BY <2>1, <2>2, FreeRequest DEF FindingIInv, FindingTypeOK
  <2>4. (HeldIsStored /\ HeldIsCurrent /\ OneHolder)'
    BY <2>1, <2>2 DEF FindingIInv, FindingTypeOK, HeldIsStored, HeldIsCurrent, OneHolder,
       HoldsFinding, NoRequest, Stored
  <2>5. QED
    BY <2>2, <2>3, <2>4 DEF FindingIInv, FindingsAreFilled, StoredAreClassified, OverrideStands, Stored
<1>3. ASSUME NEW q \in Requests, InsertFinding(q)
      PROVE  FindingIInv'
  BY <1>3, InsertFindingKeepsIInv
<1>4. ASSUME NEW q \in Requests, NEW pc \in {"override", "draft"}, NEW i \in Ids, Load(q, pc, i)
      PROVE  FindingIInv'
  BY <1>4, LoadKeepsIInv
<1>5. ASSUME NEW q \in Requests, Override(q)
      PROVE  FindingIInv'
  <2> DEFINE i == asked[q].id
             Upd(x) == [x EXCEPT !.class = "person", !.overridden = TRUE]
  <2>1. HoldsFinding(q) /\ i \in Ids /\ asked[q].row \in Finding /\ intended[i] \in Finding
    BY <1>5 DEF Override, Doing, HoldsFinding, FindingIInv, FindingTypeOK, HeldIsStored, Stored
  <2>2. /\ findings' = [findings EXCEPT ![i] = Upd(asked[q].row)]
        /\ intended' = [intended EXCEPT ![i] = Upd(intended[i])]
        /\ AnswerFinding(q) /\ UNCHANGED clashed
    BY <1>5 DEF Override
  <2>3. Upd(asked[q].row) \in Finding /\ Upd(intended[i]) \in Finding /\ Upd(asked[q].row).class # "none"
    BY <2>1 DEF Finding, By
  <2>4. QED
    BY <2>1, <2>2, <2>3, SaveKeepsIInv
<1>6. ASSUME NEW q \in Requests, DefectDraft(q)
      PROVE  FindingIInv'
  <2> DEFINE i == asked[q].id
             Upd(x) == [x EXCEPT !.draft = x.class]
  <2>1. /\ HoldsFinding(q) /\ i \in Ids /\ asked[q].row \in Finding /\ intended[i] \in Finding
        /\ asked[q].row.class # "none"
    BY <1>6 DEF DefectDraft, Doing, HoldsFinding, FindingIInv, FindingTypeOK, HeldIsStored, Stored
  <2>2. /\ findings' = [findings EXCEPT ![i] = Upd(asked[q].row)]
        /\ intended' = [intended EXCEPT ![i] = Upd(intended[i])]
        /\ AnswerFinding(q) /\ UNCHANGED clashed
    BY <1>6 DEF DefectDraft
  <2>3. Upd(asked[q].row) \in Finding /\ Upd(intended[i]) \in Finding /\ Upd(asked[q].row).class # "none"
    BY <2>1 DEF Finding, By
  <2>4. QED
    BY <2>1, <2>2, <2>3, SaveKeepsIInv
<1>7. QED
  BY <1>1, <1>2, <1>3, <1>4, <1>5, <1>6 DEF FindingNext

(* However many requests classify, override and draft at a time, a         *)
(* person's classification stays and a draft names the one that stood,     *)
(* unless two of them held the same finding.                               *)
THEOREM OverridesStand ==
  ASSUME MaxFindings \in Nat
  PROVE  FindingSpec => [](FindingTypeOK /\ OverrideStands)
<1>1. FindingInit => FindingIInv
  BY FindingInitIInv
<1>2. FindingIInv /\ [FindingNext]_findingVars => FindingIInv'
  BY FindingStepIInv
<1>3. FindingIInv => FindingTypeOK /\ OverrideStands
  BY DEF FindingIInv
<1>4. QED
  BY <1>1, <1>2, <1>3, PTL DEF FindingSpec
-----------------------------------------------------------------------------
(* Publication.  An export that has passed the gate has met, for each      *)
(* rejection that was known when it was asked for, an approval as late.    *)
DecidesOn(p) == sheet[p].pc \in {"audit", "answered"}
Exports(p) == sheet[p].pc \in {"gate", "rows", "render", "file"}
PastGate(p) == sheet[p].pc \in {"rows", "render", "file"}

RecordsAreBounded == Len(records) <= MaxRecords

DecisionIsRecorded == \A p \in Sheets : DecidesOn(p) => sheet[p].record \in DOMAIN records

ExportsOfThePast ==
  \A p \in Sheets : Exports(p) =>
    sheet[p].after \subseteq DOMAIN records /\ sheet[p].upto <= Len(records)

LiftedSince(p) ==
  \A i \in sheet[p].after : records[i].decision = "rejected" =>
    \E k \in 1..sheet[p].upto :
      records[k].decision # "rejected" /\ records[k].createdAt >= records[i].createdAt

PassedIsLifted == \A p \in Sheets : PastGate(p) => LiftedSince(p)

PublicationIInv ==
  /\ PublicationTypeOK /\ RecordsAreBounded
  /\ DecisionIsRecorded /\ ExportsOfThePast /\ PassedIsLifted

USE DEF DecidesOn, Exports, PastGate, SheetAt

(* What each kind of request looks like. *)
LEMMA SheetForms ==
  ASSUME PublicationTypeOK, NEW p \in Sheets
  PROVE  /\ sheet[p].pc \in {"record", "audit", "answered"} => sheet[p] \in Deciding
         /\ Exports(p) => sheet[p] \in Exporting
         /\ EmptySheet \notin Deciding \cup Exporting
BY DEF PublicationTypeOK, EmptySheet, Deciding, Exporting

LEMMA RecordFacts ==
  ASSUME PublicationTypeOK, NEW i \in DOMAIN records
  PROVE  /\ records[i].decision \in PublicationDecisions /\ records[i].createdAt \in Nat
         /\ i \in 1..Len(records)
<1>1. records \in Seq([decision : PublicationDecisions, createdAt : 0..MaxSeconds])
  BY DEF PublicationTypeOK
<1>2. i \in 1..Len(records)
  BY <1>1, LenProperties
<1>3. records[i] \in [decision : PublicationDecisions, createdAt : 0..MaxSeconds]
  BY <1>1, <1>2, ElementOfSeq
<1>4. QED
  BY <1>2, <1>3

(* A step of a page that moves only its request; one that has passed the   *)
(* gate by it is approved.                                                 *)
LEMMA SheetStep ==
  ASSUME PublicationIInv, NEW p \in Sheets, NEW r \in {EmptySheet} \cup Deciding \cup Exporting,
         SheetIs(p, r), UNCHANGED <<clock, records>>, known' \subseteq DOMAIN records,
         r.pc \in {"audit", "answered"} => r.record \in DOMAIN records,
         r.pc \in {"gate", "rows", "render", "file"} =>
           r.after \subseteq DOMAIN records /\ r.upto <= Len(records),
         r.pc \in {"rows", "render", "file"} => LiftedSince(p)'
  PROVE  PublicationIInv'
<1> USE DEF PublicationIInv
<1>1. sheet' = [sheet EXCEPT ![p] = r] /\ records' = records /\ clock' = clock
  BY DEF SheetIs
<1>2. PublicationTypeOK' /\ RecordsAreBounded'
  BY <1>1 DEF PublicationTypeOK, RecordsAreBounded
<1>3. DecisionIsRecorded' /\ ExportsOfThePast'
  BY <1>1 DEF DecisionIsRecorded, ExportsOfThePast, PublicationTypeOK
<1>4. PassedIsLifted'
  BY <1>1 DEF PassedIsLifted, LiftedSince, PublicationTypeOK
<1>5. QED
  BY <1>2, <1>3, <1>4

LEMMA TickKeepsIInv ==
  ASSUME MaxSeconds \in Nat, PublicationIInv, Tick
  PROVE  PublicationIInv'
BY DEF Tick, PublicationIInv, PublicationTypeOK, RecordsAreBounded, DecisionIsRecorded,
       ExportsOfThePast, PassedIsLifted, LiftedSince

LEMMA RecordKeepsIInv ==
  ASSUME MaxRecords \in Nat, MaxSeconds \in Nat, PublicationIInv, NEW p \in Sheets, RecordStandalone(p)
  PROVE  PublicationIInv'
<1> DEFINE new == [decision |-> sheet[p].decision, createdAt |-> clock]
           done == [sheet[p] EXCEPT !.pc = "audit", !.record = Len(records')]
<1> USE DEF PublicationIInv
<1>1. /\ records' = Append(records, new) /\ Len(records) < MaxRecords
      /\ sheet' = [sheet EXCEPT ![p] = done]
      /\ clock' = clock /\ known' = known
  BY DEF RecordStandalone, SheetIs
<1>2. sheet[p] \in Deciding
  BY SheetForms DEF RecordStandalone
<1>3. new \in [decision : PublicationDecisions, createdAt : 0..MaxSeconds]
  BY <1>2 DEF PublicationTypeOK, Deciding
<1>4. /\ records \in Seq([decision : PublicationDecisions, createdAt : 0..MaxSeconds])
      /\ records' \in Seq([decision : PublicationDecisions, createdAt : 0..MaxSeconds])
      /\ Len(records') = Len(records) + 1 /\ Len(records) \in Nat
      /\ DOMAIN records = 1..Len(records) /\ DOMAIN records' = 1..Len(records')
      /\ \A i \in DOMAIN records : records'[i] = records[i]
  BY <1>1, <1>3 DEF PublicationTypeOK
<1>5. done \in Deciding /\ done.pc = "audit" /\ done.record = Len(records')
  <2>1. Len(records') \in 0..MaxRecords
    BY <1>1, <1>4
  <2>2. QED
    BY <2>1, <1>2 DEF Deciding
<1>6. PublicationTypeOK' /\ RecordsAreBounded'
  BY <1>1, <1>4, <1>5 DEF PublicationTypeOK, RecordsAreBounded
<1>7. DecisionIsRecorded' /\ ExportsOfThePast'
  <2>1. ASSUME NEW q \in Sheets, q # p
        PROVE  /\ DecidesOn(q)' => sheet'[q].record \in DOMAIN records'
               /\ Exports(q)' => /\ sheet'[q].after \subseteq DOMAIN records'
                                /\ sheet'[q].upto <= Len(records')
    <3>1. sheet'[q] = sheet[q]
      BY <2>1, <1>1 DEF PublicationTypeOK
    <3>2. DecidesOn(q) => sheet[q].record \in DOMAIN records'
      BY <1>4 DEF DecisionIsRecorded
    <3>3. Exports(q) => sheet[q].after \subseteq DOMAIN records' /\ sheet[q].upto <= Len(records')
      <4> SUFFICES ASSUME Exports(q)
                   PROVE  sheet[q].after \subseteq DOMAIN records' /\ sheet[q].upto <= Len(records')
        OBVIOUS
      <4>1. sheet[q].upto \in Nat
        BY SheetForms DEF Exporting
      <4>2. QED
        BY <4>1, <1>4 DEF ExportsOfThePast
    <3>4. QED
      BY <3>1, <3>2, <3>3
  <2>2. sheet'[p] = done
    BY <1>1 DEF PublicationTypeOK
  <2>3. ~Exports(p)' /\ sheet'[p].record \in DOMAIN records'
    BY <2>2, <1>4, <1>5
  <2>4. QED
    BY <2>1, <2>3 DEF DecisionIsRecorded, ExportsOfThePast
<1>8. PassedIsLifted'
  <2> SUFFICES ASSUME NEW q \in Sheets, PastGate(q)'
               PROVE  LiftedSince(q)'
    BY DEF PassedIsLifted
  <2>1. q # p /\ sheet'[q] = sheet[q] /\ PastGate(q)
    BY <1>1, <1>5 DEF PublicationTypeOK
  <2>2. /\ LiftedSince(q) /\ sheet[q].after \subseteq DOMAIN records
        /\ 1..sheet[q].upto \subseteq DOMAIN records
    <3>1. sheet[q] \in Exporting
      BY <2>1, SheetForms
    <3>2. QED
      BY <2>1, <3>1, <1>4 DEF PassedIsLifted, ExportsOfThePast, Exporting
  <2>3. QED
    BY <2>1, <2>2, <1>4 DEF LiftedSince
<1>9. QED
  BY <1>6, <1>7, <1>8

(* The gate: the latest decision, or one of its second, is no rejection.   *)
LEMMA PassIsApproved ==
  ASSUME PublicationIInv, NEW p \in Sheets, Pass(p)
  PROVE  LiftedSince(p)'
<1> SUFFICES ASSUME NEW i \in sheet'[p].after, records'[i].decision = "rejected"
             PROVE  \E k \in 1..sheet'[p].upto :
                      /\ records'[k].decision # "rejected"
                      /\ records'[k].createdAt >= records'[i].createdAt
  BY DEF LiftedSince
<1> USE DEF PublicationIInv
<1>1. sheet[p] \in Exporting /\ i \in DOMAIN records
  <2>1. sheet[p] \in Exporting /\ sheet[p].after \subseteq DOMAIN records
    BY SheetForms DEF Pass, ExportsOfThePast
  <2>2. sheet'[p].after = sheet[p].after
    BY <2>1 DEF Pass, SheetIs, PublicationTypeOK, Exporting
  <2>3. QED
    BY <2>1, <2>2
<1>2. PICK k \in Latest : records[k].decision # "rejected"
  BY <1>1 DEF Pass
<1>3. /\ k \in 1..Len(records) /\ records[k].decision # "rejected"
      /\ records[k].createdAt >= records[i].createdAt
  <2>1. k \in DOMAIN records /\ records[k].createdAt >= records[i].createdAt
    <3>1. k \in DOMAIN records /\ records[i].createdAt <= records[k].createdAt
      BY <1>1, <1>2 DEF Latest
    <3>2. records[i].createdAt \in Nat /\ records[k].createdAt \in Nat
      BY <3>1, <1>1, RecordFacts
    <3>3. QED
      BY <3>1, <3>2
  <2>2. k \in 1..Len(records)
    BY <2>1, RecordFacts
  <2>3. QED
    BY <2>1, <2>2, <1>2
<1>4. sheet'[p].upto = Len(records) /\ records' = records
  BY <1>1 DEF Pass, SheetIs, PublicationTypeOK, Exporting
<1>5. QED
  BY <1>3, <1>4

LEMMA PublicationStepIInv ==
  ASSUME MaxRecords \in Nat, MaxSeconds \in Nat, PublicationIInv, [PublicationNext]_publicationVars
  PROVE  PublicationIInv'
<1> USE DEF PublicationIInv
<1> DEFINE SheetOK(p) ==
             /\ sheet[p].pc \in {"record", "audit", "answered"} => sheet[p] \in Deciding
             /\ Exports(p) => sheet[p] \in Exporting
<1>0. \A p \in Sheets : SheetOK(p)
  BY SheetForms
<1>a. known \subseteq DOMAIN records
  BY DEF PublicationTypeOK
<1>b. EmptySheet.pc = "idle"
  BY DEF EmptySheet
<1>1. CASE UNCHANGED publicationVars
  BY <1>1 DEF publicationVars, PublicationTypeOK, RecordsAreBounded, DecisionIsRecorded,
       ExportsOfThePast, PassedIsLifted, LiftedSince
<1>2. CASE Tick
  BY <1>2, TickKeepsIInv
<1>3. ASSUME NEW p \in Sheets, NEW decision \in PublicationDecisions, DecidePublication(p, decision)
      PROVE  PublicationIInv'
  <2> DEFINE r == [pc |-> "record", decision |-> decision, record |-> 0]
  <2>1. r \in Deciding /\ SheetIs(p, r) /\ UNCHANGED <<clock, records, known>>
    BY <1>3 DEF DecidePublication, Deciding
  <2>2. QED
    BY <2>1, <1>a, SheetStep
<1>4. ASSUME NEW p \in Sheets, RecordStandalone(p)
      PROVE  PublicationIInv'
  BY <1>4, RecordKeepsIInv
<1>5. ASSUME NEW p \in Sheets, Audit(p)
      PROVE  PublicationIInv'
  <2> DEFINE r == [sheet[p] EXCEPT !.pc = "answered"]
  <2>1. sheet[p] \in Deciding /\ SheetIs(p, r) /\ UNCHANGED <<clock, records, known>>
    BY <1>5, <1>0 DEF Audit
  <2>2. r \in Deciding /\ r.pc = "answered" /\ r.record \in DOMAIN records
    BY <2>1, <1>5 DEF Audit, Deciding, DecisionIsRecorded
  <2>3. QED
    BY <2>1, <2>2, <1>a, SheetStep
<1>6. ASSUME NEW p \in Sheets, ShowDecision(p)
      PROVE  PublicationIInv'
  BY <1>6, <1>a, <1>b, SheetStep DEF ShowDecision, DecisionIsRecorded
<1>7. ASSUME NEW p \in Sheets, FailDecision(p) \/ Refuse(p) \/ Download(p)
      PROVE  PublicationIInv'
  BY <1>7, <1>a, <1>b, SheetStep DEF FailDecision, Refuse, Download
<1>8. ASSUME NEW p \in Sheets, NEW format \in {"stored", "rows", "pdf"}, Export(p, format)
      PROVE  PublicationIInv'
  <2> DEFINE r == [pc |-> "gate", format |-> format, after |-> known, upto |-> 0]
  <2>1. SheetIs(p, r) /\ UNCHANGED <<clock, records, known>>
    BY <1>8 DEF Export
  <2>2. known \subseteq 1..MaxRecords /\ Len(records) \in Nat
    BY <1>a DEF PublicationTypeOK, RecordsAreBounded
  <2>3. r \in Exporting /\ r.pc = "gate" /\ r.after = known /\ r.upto = 0
    BY <2>2 DEF Exporting
  <2> HIDE DEF r
  <2>4. r.after \subseteq DOMAIN records /\ r.upto <= Len(records) /\ known' \subseteq DOMAIN records
    BY <2>1, <2>2, <2>3, <1>a
  <2>5. QED
    BY <2>1, <2>3, <2>4, SheetStep
<1>9. ASSUME NEW p \in Sheets, Pass(p)
      PROVE  PublicationIInv'
  <2> DEFINE r == [sheet[p] EXCEPT !.upto = Len(records), !.pc = AwaitFor[sheet[p].format]]
  <2>1. sheet[p] \in Exporting /\ SheetIs(p, r) /\ UNCHANGED <<clock, records, known>>
    BY <1>9, <1>0 DEF Pass
  <2>2. Len(records) \in 0..MaxRecords
    BY DEF PublicationTypeOK, RecordsAreBounded
  <2>3. AwaitFor[sheet[p].format] \in {"rows", "render", "file"}
    BY <2>1 DEF AwaitFor, Exporting
  <2>4. /\ r \in Exporting /\ r.pc \in {"rows", "render", "file"}
        /\ r.after = sheet[p].after /\ r.upto = Len(records)
    BY <2>1, <2>2, <2>3 DEF Exporting
  <2>5. r.after \subseteq DOMAIN records
    BY <2>4, <1>9 DEF Pass, ExportsOfThePast
  <2>6. LiftedSince(p)'
    BY <1>9, PassIsApproved
  <2> HIDE DEF r
  <2>7. QED
    BY <2>1, <2>2, <2>4, <2>5, <2>6, <1>a, SheetStep
<1>10. ASSUME NEW p \in Sheets, NEW r \in Exporting, PastGate(p), SheetIs(p, r),
              UNCHANGED <<clock, records, known>>,
              r.pc = "file", r.after = sheet[p].after, r.upto = sheet[p].upto
       PROVE  PublicationIInv'
  <2>1. r.after \subseteq DOMAIN records /\ r.upto <= Len(records)
    BY <1>10 DEF ExportsOfThePast
  <2>2. sheet'[p] = r /\ records' = records
    BY <1>10 DEF SheetIs, PublicationTypeOK
  <2>3. LiftedSince(p)'
    BY <1>10, <2>2 DEF PassedIsLifted, LiftedSince
  <2>4. QED
    BY <2>1, <2>3, <1>10, <1>a, SheetStep
<1>11. ASSUME NEW p \in Sheets, ReadRows(p)
       PROVE  PublicationIInv'
  <2> DEFINE r == [sheet[p] EXCEPT !.pc = "file"]
  <2>1. PastGate(p) /\ sheet[p] \in Exporting
    BY <1>11, <1>0 DEF ReadRows
  <2>2. r \in Exporting /\ r.pc = "file" /\ r.after = sheet[p].after /\ r.upto = sheet[p].upto
    BY <2>1 DEF Exporting
  <2>3. QED
    BY <1>10, <1>11, <2>1, <2>2 DEF ReadRows
<1>12. ASSUME NEW p \in Sheets, RenderPdf(p)
       PROVE  PublicationIInv'
  <2>1. PICK format \in {"pdf", "stored"} :
          SheetIs(p, [sheet[p] EXCEPT !.pc = "file", !.format = format])
    BY <1>12 DEF RenderPdf
  <2> DEFINE r == [sheet[p] EXCEPT !.pc = "file", !.format = format]
  <2>2. PastGate(p) /\ sheet[p] \in Exporting
    BY <1>12, <1>0 DEF RenderPdf
  <2>3. r \in Exporting /\ r.pc = "file" /\ r.after = sheet[p].after /\ r.upto = sheet[p].upto
    BY <2>2 DEF Exporting
  <2>4. QED
    BY <1>10, <1>12, <2>1, <2>2, <2>3 DEF RenderPdf
<1>13. QED
  BY <1>1, <1>2, <1>3, <1>4, <1>5, <1>6, <1>7, <1>8, <1>9, <1>11, <1>12 DEF PublicationNext

(* However many pages decide and export at a time: after a page has said   *)
(* that the report is rejected no page gets a file of it, unless another   *)
(* decision was made since, or in the same second.                         *)
THEOREM RejectedReportsStay ==
  ASSUME MaxRecords \in Nat, MaxSeconds \in Nat
  PROVE  PublicationSpec => [](PublicationTypeOK /\ RejectedStaysIn)
<1>1. PublicationInit => PublicationIInv
  BY DEF PublicationInit, PublicationIInv, PublicationTypeOK, RecordsAreBounded,
     DecisionIsRecorded, ExportsOfThePast, PassedIsLifted, EmptySheet
<1>2. PublicationIInv /\ [PublicationNext]_publicationVars => PublicationIInv'
  BY PublicationStepIInv
<1>3. PublicationIInv => PublicationTypeOK /\ RejectedStaysIn
  BY DEF PublicationIInv, PassedIsLifted, LiftedSince, RejectedStaysIn
<1>4. QED
  BY <1>1, <1>2, <1>3, PTL DEF PublicationSpec
-----------------------------------------------------------------------------
(* Rows of runs.  Until two handlers have held rows at a time there is one *)
(* that will save a row, and it holds the row as it is stored.             *)
OneHandlerHolds == \A h, g \in Handlers : HoldsRun(h) /\ HoldsRun(g) => h = g

HeldRowIsStored == \A h \in Handlers : HoldsRun(h) => task[h].held = row[task[h].run]

RecordIInv ==
  /\ RecordTypeOK
  /\ ~raced => row = meant /\ OneHandlerHolds /\ HeldRowIsStored

LEMMA NewRows ==
  ASSUME MaxReports \in Nat, NEW status \in {"none", "running", "passed", "failed"}
  PROVE  [NoRun EXCEPT !.status = status] \in Row /\ NoRun \in Row
<1>1. NoRun.report \in Reports /\ NoRun.baseline \in BOOLEAN
  BY DEF NoRun, Reports
<1>2. QED
  BY <1>1 DEF NoRun, Row, Verdicts

(* A handler with a pc is one that holds what it says. *)
LEMMA HandlingFacts ==
  ASSUME RecordTypeOK, NEW h \in Handlers, task[h].pc # "idle"
  PROVE  task[h] \in Handling /\ task[h].run \in Runs /\ task[h].held \in Row
BY DEF RecordTypeOK, Idle, Handling

(* A save of the row that is held, as the handler changes it. *)
LEMMA SaveRowKeepsIInv ==
  ASSUME RecordIInv, NEW h \in Handlers, HoldsRun(h),
         NEW x \in Row, NEW y \in Row, task[h].held = meant[task[h].run] => x = y,
         row' = [row EXCEPT ![task[h].run] = x],
         meant' = IF raced THEN row' ELSE [meant EXCEPT ![task[h].run] = y],
         TaskIs(h, Idle), UNCHANGED raced
  PROVE  RecordIInv'
<1>1. task' = [task EXCEPT ![h] = Idle] /\ task[h].run \in Runs
  BY HandlingFacts DEF TaskIs, HoldsRun, RecordIInv
<1>2. RecordTypeOK'
  BY <1>1 DEF RecordIInv, RecordTypeOK
<1>3. ASSUME ~raced'
      PROVE  row' = meant' /\ OneHandlerHolds' /\ HeldRowIsStored'
  <2>1. row = meant /\ OneHandlerHolds /\ HeldRowIsStored /\ ~raced
    BY <1>3 DEF RecordIInv
  <2>2. x = y
    BY <2>1 DEF HeldRowIsStored
  <2>3. \A g \in Handlers : ~HoldsRun(g)'
    BY <1>1, <2>1 DEF OneHandlerHolds, HoldsRun, RecordIInv, RecordTypeOK, Idle
  <2>4. QED
    BY <2>1, <2>2, <2>3 DEF OneHandlerHolds, HeldRowIsStored
<1>4. QED
  BY <1>2, <1>3 DEF RecordIInv

(* A handler that takes the row as it is stored: the only one, or a race.  *)
LEMMA TakeKeepsIInv ==
  ASSUME RecordIInv, NEW h \in Handlers, NEW r \in Runs, NEW held \in Row,
         NEW pc \in {"promote", "rendered", "dispatched", "import"},
         ~HoldsRun(h), Take(h, pc, r, held),
         row' \in [Runs -> Row], meant' \in [Runs -> Row], row = meant => row' = meant',
         held = row'[r]
  PROVE  RecordIInv'
<1>1. /\ task' = [task EXCEPT ![h] = [pc |-> pc, run |-> r, held |-> held]]
      /\ raced' = (raced \/ \E g \in Handlers \ {h} : HoldsRun(g))
  BY DEF Take, TaskIs
<1>2. RecordTypeOK'
  <2>1. [pc |-> pc, run |-> r, held |-> held] \in Handling
    BY DEF Handling
  <2>2. QED
    BY <1>1, <2>1 DEF RecordIInv, RecordTypeOK
<1>3. ASSUME ~raced'
      PROVE  row' = meant' /\ OneHandlerHolds' /\ HeldRowIsStored'
  <2>1. ~raced /\ \A g \in Handlers \ {h} : ~HoldsRun(g)
    BY <1>1, <1>3
  <2>2. \A g \in Handlers : HoldsRun(g)' => g = h
    BY <1>1, <2>1 DEF HoldsRun, RecordIInv, RecordTypeOK
  <2>3. task'[h] = [pc |-> pc, run |-> r, held |-> held]
    BY <1>1 DEF RecordIInv, RecordTypeOK
  <2>4. QED
    BY <2>1, <2>2, <2>3 DEF RecordIInv, OneHandlerHolds, HeldRowIsStored
<1>4. QED
  BY <1>2, <1>3 DEF RecordIInv

LEMMA ClearOthersKeepsIInv ==
  ASSUME RecordIInv, NEW h \in Handlers, ClearOthers(h)
  PROVE  RecordIInv'
<1> DEFINE r == task[h].run
<1>1. /\ row' = Cleared(row, r) /\ meant' = Cleared(meant, r) /\ raced' = raced
      /\ task' = [task EXCEPT ![h] = [task[h] EXCEPT !.pc = "cleared"]]
      /\ task[h] \in Handling /\ task[h].pc = "promote"
  BY HandlingFacts DEF ClearOthers, TaskIs, At, RecordIInv
<1>2. [task[h] EXCEPT !.pc = "cleared"] \in Handling
  BY <1>1 DEF Handling
<1>3. row' \in [Runs -> Row] /\ meant' \in [Runs -> Row]
  BY <1>1 DEF Cleared, RecordIInv, RecordTypeOK, Row
<1>4. RecordTypeOK'
  BY <1>1, <1>2, <1>3 DEF RecordIInv, RecordTypeOK
<1>5. ASSUME ~raced'
      PROVE  row' = meant' /\ OneHandlerHolds' /\ HeldRowIsStored'
  <2>1. row = meant /\ OneHandlerHolds /\ HeldRowIsStored /\ HoldsRun(h)
    BY <1>1, <1>5 DEF RecordIInv, HoldsRun
  <2>2. \A g \in Handlers : HoldsRun(g)' => g = h
    BY <1>1, <2>1 DEF HoldsRun, OneHandlerHolds, RecordIInv, RecordTypeOK
  <2>3. task'[h].held = task[h].held /\ task'[h].run = r /\ r \in Runs
    BY <1>1 DEF RecordIInv, RecordTypeOK, Handling
  <2>4. row'[r] = row[r]
    BY <1>1, <2>3 DEF Cleared, RecordIInv, RecordTypeOK, Row
  <2>5. task[h].held = row[r]
    BY <2>1 DEF HeldRowIsStored
  <2>6. QED
    BY <1>1, <2>1, <2>2, <2>3, <2>4, <2>5 DEF OneHandlerHolds, HeldRowIsStored
<1>6. QED
  BY <1>4, <1>5 DEF RecordIInv

LEMMA RecordStepIInv ==
  ASSUME MaxReports \in Nat, RecordIInv, [RecordNext]_recordVars
  PROVE  RecordIInv'
<1> USE DEF At
<1>1. CASE UNCHANGED recordVars
  BY <1>1 DEF recordVars, RecordIInv, RecordTypeOK, OneHandlerHolds, HeldRowIsStored, HoldsRun
<1>2. ASSUME NEW h \in Handlers, NEW r \in Runs, Promote(h, r) \/ Import(h, r)
      PROVE  RecordIInv'
  <2>1. /\ row' = row /\ meant' = meant /\ ~HoldsRun(h)
        /\ row[r] \in Row /\ row \in [Runs -> Row] /\ meant \in [Runs -> Row]
    BY <1>2 DEF Promote, Import, HoldsRun, RecordIInv, RecordTypeOK
  <2>2. CASE Take(h, "promote", r, row[r])
    BY <2>1, <2>2, TakeKeepsIInv
  <2>3. CASE Take(h, "import", r, row[r])
    BY <2>1, <2>3, TakeKeepsIInv
  <2>4. QED
    BY <1>2, <2>2, <2>3 DEF Promote, Import
<1>3. ASSUME NEW h \in Handlers, Render(h)
      PROVE  RecordIInv'
  <2> DEFINE r == task[h].run
  <2>1. /\ row' = row /\ meant' = meant /\ ~HoldsRun(h)
        /\ r \in Runs /\ row[r] \in Row /\ row \in [Runs -> Row] /\ meant \in [Runs -> Row]
    BY <1>3, HandlingFacts DEF Render, HoldsRun, RecordIInv, RecordTypeOK
  <2>2. Take(h, "rendered", r, row[r])
    BY <1>3 DEF Render, RowForReport
  <2>3. QED
    BY <2>1, <2>2, TakeKeepsIInv
<1>4. ASSUME NEW h \in Handlers, NEW r \in Runs, Dispatch(h, r)
      PROVE  RecordIInv'
  <2> DEFINE new == [NoRun EXCEPT !.status = "running"]
  <2>1. new \in Row
    BY NewRows
  <2>2. /\ row' = [row EXCEPT ![r] = new] /\ meant' = [meant EXCEPT ![r] = new]
        /\ ~HoldsRun(h) /\ Take(h, "dispatched", r, new)
    BY <1>4 DEF Dispatch, HoldsRun
  <2> HIDE DEF new
  <2>3. /\ row' \in [Runs -> Row] /\ meant' \in [Runs -> Row] /\ row'[r] = new
        /\ row = meant => row' = meant'
    BY <2>1, <2>2 DEF RecordIInv, RecordTypeOK
  <2>4. QED
    BY <2>1, <2>2, <2>3, TakeKeepsIInv
<1>5. ASSUME NEW h \in Handlers, ClearOthers(h)
      PROVE  RecordIInv'
  BY <1>5, ClearOthersKeepsIInv
<1>6. ASSUME NEW h \in Handlers, NEW r \in Runs, GenerateReport(h, r)
      PROVE  RecordIInv'
  <2> DEFINE t == [pc |-> "generate", run |-> r, held |-> row[r]]
  <2>1. /\ task' = [task EXCEPT ![h] = t] /\ t \in Handling /\ t.pc = "generate"
        /\ row' = row /\ meant' = meant /\ raced' = raced
    BY <1>6 DEF GenerateReport, TaskIs, Handling, RecordIInv, RecordTypeOK
  <2> HIDE DEF t
  <2>2. QED
    BY <2>1 DEF RecordIInv, RecordTypeOK, OneHandlerHolds, HeldRowIsStored, HoldsRun
<1>7. ASSUME NEW h \in Handlers, Fail(h)
      PROVE  RecordIInv'
  <2>1. /\ task' = [task EXCEPT ![h] = Idle] /\ Idle.pc = "idle"
        /\ row' = row /\ meant' = meant /\ raced' = raced
    BY <1>7 DEF Fail, TaskIs, Idle
  <2>2. QED
    BY <2>1 DEF RecordIInv, RecordTypeOK, OneHandlerHolds, HeldRowIsStored, HoldsRun
<1>8. ASSUME NEW h \in Handlers, HoldsRun(h), task[h].pc # "idle"
      PROVE  task[h].held \in Row /\ task[h].run \in Runs /\ meant[task[h].run] \in Row
  BY <1>8, HandlingFacts DEF RecordIInv, RecordTypeOK
<1>9. ASSUME NEW h \in Handlers, SaveBaseline(h)
      PROVE  RecordIInv'
  <2> DEFINE Upd(x) == [x EXCEPT !.baseline = TRUE]
  <2>1. HoldsRun(h) /\ task[h].held \in Row /\ meant[task[h].run] \in Row
    BY <1>8, <1>9 DEF SaveBaseline, HoldsRun
  <2>2. Upd(task[h].held) \in Row /\ Upd(meant[task[h].run]) \in Row
    BY <2>1 DEF Row
  <2>3. /\ row' = [row EXCEPT ![task[h].run] = Upd(task[h].held)]
        /\ meant' = IF raced THEN row' ELSE [meant EXCEPT ![task[h].run] = Upd(meant[task[h].run])]
        /\ TaskIs(h, Idle) /\ UNCHANGED raced
    BY <1>9 DEF SaveBaseline, SaveRow
  <2>4. QED
    BY <2>1, <2>2, <2>3, SaveRowKeepsIInv
<1>10. ASSUME NEW h \in Handlers, StoreReport(h)
       PROVE  RecordIInv'
  <2> DEFINE Upd(x) == [x EXCEPT !.report = meant[task[h].run].report + 1]
  <2>1. HoldsRun(h) /\ task[h].held \in Row /\ meant[task[h].run] \in Row
    BY <1>8, <1>10 DEF StoreReport, HoldsRun
  <2>2. Upd(task[h].held) \in Row /\ Upd(meant[task[h].run]) \in Row
    <3>1. meant[task[h].run].report + 1 \in Reports
      BY <2>1, <1>10 DEF Row, Reports, StoreReport
    <3>2. QED
      BY <2>1, <3>1 DEF Row
  <2>3. /\ row' = [row EXCEPT ![task[h].run] = Upd(task[h].held)]
        /\ meant' = IF raced THEN row' ELSE [meant EXCEPT ![task[h].run] = Upd(meant[task[h].run])]
        /\ TaskIs(h, Idle) /\ UNCHANGED raced
    BY <1>10 DEF StoreReport, SaveRow
  <2>4. QED
    BY <2>1, <2>2, <2>3, SaveRowKeepsIInv
<1>11. ASSUME NEW h \in Handlers, SaveDispatched(h)
       PROVE  RecordIInv'
  <2>1. HoldsRun(h) /\ task[h].held \in Row /\ meant[task[h].run] \in Row
    BY <1>8, <1>11 DEF SaveDispatched, HoldsRun
  <2>2. /\ row' = [row EXCEPT ![task[h].run] = task[h].held]
        /\ meant' = IF raced THEN row' ELSE [meant EXCEPT ![task[h].run] = meant[task[h].run]]
        /\ TaskIs(h, Idle) /\ UNCHANGED raced
    BY <1>11 DEF SaveDispatched, SaveRow
  <2>3. QED
    BY <2>1, <2>2, SaveRowKeepsIInv
<1>12. ASSUME NEW h \in Handlers, NEW c \in DOMAIN Conclusions, SaveImported(h, c)
       PROVE  RecordIInv'
  <2> DEFINE Upd(x) == [x EXCEPT !.status = Conclusions[c]]
  <2>1. HoldsRun(h) /\ task[h].held \in Row /\ meant[task[h].run] \in Row
    BY <1>8, <1>12 DEF SaveImported, HoldsRun
  <2>2. Upd(task[h].held) \in Row /\ Upd(meant[task[h].run]) \in Row
    <3>1. Conclusions[c] \in Verdicts
      BY DEF Conclusions, Verdicts
    <3>2. QED
      BY <2>1, <3>1 DEF Row
  <2>3. /\ row' = [row EXCEPT ![task[h].run] = Upd(task[h].held)]
        /\ meant' = IF raced THEN row' ELSE [meant EXCEPT ![task[h].run] = Upd(meant[task[h].run])]
        /\ TaskIs(h, Idle) /\ UNCHANGED raced
    BY <1>12 DEF SaveImported, SaveRow
  <2>4. QED
    BY <2>1, <2>2, <2>3, SaveRowKeepsIInv
<1>13. QED
  BY <1>1, <1>2, <1>3, <1>4, <1>5, <1>6, <1>7, <1>9, <1>10, <1>11, <1>12 DEF RecordNext, Serve

(* However promotions, reports, dispatches and imports interleave and      *)
(* fail, what a handler wrote on a run is undone only by one that held a   *)
(* row at the same time.                                                   *)
THEOREM WritesAreLostOnlyByRace ==
  ASSUME MaxReports \in Nat
  PROVE  RecordSpec => [](RecordTypeOK /\ LostOnlyByRace)
<1>1. RecordInit => RecordIInv
  <2> SUFFICES ASSUME RecordInit
               PROVE  RecordIInv
    OBVIOUS
  <2>1. NoRun \in Row /\ [NoRun EXCEPT !.status = "passed"] \in Row /\ Idle.pc = "idle"
    BY NewRows DEF Idle
  <2>2. QED
    BY <2>1 DEF RecordInit, RecordIInv, RecordTypeOK, OneHandlerHolds, HeldRowIsStored, HoldsRun
<1>2. RecordIInv /\ [RecordNext]_recordVars => RecordIInv'
  BY RecordStepIInv
<1>3. RecordIInv => RecordTypeOK /\ LostOnlyByRace
  BY DEF RecordIInv, LostOnlyByRace
<1>4. QED
  BY <1>1, <1>2, <1>3, PTL DEF RecordSpec
-----------------------------------------------------------------------------
(* Uploads.  Of a file whose requests were never given up, every request   *)
(* before the current one has failed, and none after it was sent.          *)
OneAttemptCounts ==
  \A f \in Files \ undone, k \in 1..MaxUploads :
    /\ k < item[f].attempt => request[<<f, k>>] = "failed"
    /\ k > item[f].attempt => request[<<f, k>>] = "none"

RetryFollowsFailure ==
  \A f \in Files \ undone :
    /\ item[f].status # "cancelled"
    /\ item[f].status \in {"absent", "queued"} => item[f].attempt = 0
    /\ item[f].status = "error" /\ item[f].attempt > 0 =>
         request[<<f, item[f].attempt>>] = "failed"

SentIsCounted ==
  \A f \in Files : item[f].status \in {"uploading", "done"} => item[f].attempt > 0

StoredHasSegments ==
  \A r \in Attempts : request[r] = "stored" /\ document[r].row = "present" => r \in segments

UploadIInv ==
  /\ UploadTypeOK
  /\ OneAttemptCounts /\ RetryFollowsFailure /\ SentIsCounted
  /\ StoredHasSegments

(* A step of the backend on one request; a failed one stays failed, one    *)
(* that was not sent is not begun.                                         *)
LEMMA RequestStep ==
  ASSUME UploadIInv, NEW r \in Attempts,
         NEW s \in {"parsing", "storing", "stored", "rejected", "failed"},
         request[r] \notin {"none", "failed"},
         RequestIs(r, s), UNCHANGED page,
         document' \in [Attempts -> [row : {"none", "present", "removing", "removed"},
                                    parse : Parses \cup {"none"}]],
         segments' \subseteq Attempts, StoredHasSegments'
  PROVE  UploadIInv'
<1>1. /\ request' = [request EXCEPT ![r] = s]
      /\ kind' = kind /\ item' = item /\ undone' = undone
  BY DEF RequestIs, page
<1>2. UploadTypeOK'
  BY <1>1 DEF UploadIInv, UploadTypeOK
<1>3. \A q \in Attempts : request[q] \in {"none", "failed"} => request'[q] = request[q]
  BY <1>1 DEF UploadIInv, UploadTypeOK
<1>4. OneAttemptCounts'
  BY <1>1, <1>3 DEF UploadIInv, OneAttemptCounts, Attempts
<1>5. RetryFollowsFailure'
  <2> SUFFICES ASSUME NEW f \in Files \ undone, item[f].status = "error", item[f].attempt > 0
               PROVE  request'[<<f, item[f].attempt>>] = "failed"
    BY <1>1 DEF UploadIInv, RetryFollowsFailure
  <2>1. <<f, item[f].attempt>> \in Attempts
    BY DEF UploadIInv, UploadTypeOK, Attempts
  <2>2. QED
    BY <2>1, <1>3 DEF UploadIInv, RetryFollowsFailure
<1>6. SentIsCounted'
  BY <1>1 DEF UploadIInv, SentIsCounted
<1>7. QED
  BY <1>2, <1>4, <1>5, <1>6 DEF UploadIInv

(* A step of the page on one file that sends nothing.                      *)
LEMMA ItemStep ==
  ASSUME UploadIInv, NEW f \in Files,
         NEW status \in ItemStatuses, NEW shown \in Parses \cup {"none"},
         item' = [item EXCEPT ![f].status = status, ![f].shown = shown],
         undone' \in {undone, undone \cup {f}}, UNCHANGED <<kind, server>>,
         status \in {"uploading", "done"} => item[f].attempt > 0,
         f \notin undone' =>
           /\ status # "cancelled"
           /\ status \in {"absent", "queued"} => item[f].attempt = 0
           /\ status = "error" /\ item[f].attempt > 0 =>
                request[<<f, item[f].attempt>>] = "failed"
  PROVE  UploadIInv'
<1>1. /\ request' = request /\ document' = document /\ segments' = segments /\ kind' = kind
  BY DEF server
<1>2. /\ \A g \in Files \ {f} : item'[g] = item[g]
      /\ item'[f].status = status /\ item'[f].attempt = item[f].attempt
  BY DEF UploadIInv, UploadTypeOK
<1>3. item' \in [Files -> [status : ItemStatuses, attempt : 0..MaxUploads,
                         shown : Parses \cup {"none"}]]
  BY DEF UploadIInv, UploadTypeOK
<1>4. UploadTypeOK'
  BY <1>1, <1>3 DEF UploadIInv, UploadTypeOK
<1>5. OneAttemptCounts'
  BY <1>1, <1>2 DEF UploadIInv, OneAttemptCounts
<1>6. RetryFollowsFailure'
  BY <1>1, <1>2 DEF UploadIInv, RetryFollowsFailure
<1>7. StoredHasSegments'
  BY <1>1 DEF UploadIInv, StoredHasSegments
<1>8. SentIsCounted'
  BY <1>2 DEF UploadIInv, SentIsCounted
<1>9. QED
  BY <1>4, <1>5, <1>6, <1>7, <1>8 DEF UploadIInv

(* The page sends a file (again): its last request has failed, or the page *)
(* has given one up.                                                       *)
LEMMA UploadKeepsIInv ==
  ASSUME MaxUploads \in Nat, UploadIInv, NEW f \in Files, Upload(f)
  PROVE  UploadIInv'
<1> DEFINE n == item[f].attempt + 1
<1>1. /\ item' = [item EXCEPT ![f].status = "uploading", ![f].attempt = n]
      /\ request' = [request EXCEPT ![<<f, n>>] = "sent"]
      /\ kind' = kind /\ undone' = undone /\ document' = document /\ segments' = segments
      /\ item[f].status \in {"queued", "error", "cancelled"} /\ item[f].attempt < MaxUploads
  BY DEF Upload, Retryable
<1>2. item[f].attempt \in 0..MaxUploads /\ n \in 1..MaxUploads /\ <<f, n>> \in Attempts
  BY <1>1 DEF UploadIInv, UploadTypeOK, Attempts
<1>3. /\ \A g \in Files \ {f} : item'[g] = item[g]
      /\ item'[f].status = "uploading" /\ item'[f].attempt = n
      /\ item' \in [Files -> [status : ItemStatuses, attempt : 0..MaxUploads,
                             shown : Parses \cup {"none"}]]
  BY <1>1, <1>2 DEF UploadIInv, UploadTypeOK, ItemStatuses
<1>4. /\ \A r \in Attempts : r # <<f, n>> => request'[r] = request[r]
      /\ request'[<<f, n>>] = "sent"
  BY <1>1, <1>2 DEF UploadIInv, UploadTypeOK
<1>5. UploadTypeOK'
  BY <1>1, <1>3 DEF UploadIInv, UploadTypeOK
<1>6. OneAttemptCounts'
  <2> SUFFICES ASSUME NEW g \in Files \ undone, NEW k \in 1..MaxUploads
               PROVE  /\ k < item'[g].attempt => request'[<<g, k>>] = "failed"
                      /\ k > item'[g].attempt => request'[<<g, k>>] = "none"
    BY <1>1 DEF OneAttemptCounts
  <2>1. <<g, k>> \in Attempts
    BY DEF Attempts
  <2>2. CASE g # f
    BY <2>1, <2>2, <1>3, <1>4 DEF UploadIInv, OneAttemptCounts
  <2>3. CASE g = f /\ k > n
    BY <2>1, <2>3, <1>2, <1>3, <1>4 DEF UploadIInv, OneAttemptCounts
  <2>4. CASE g = f /\ k < item[f].attempt
    BY <2>1, <2>4, <1>2, <1>3, <1>4 DEF UploadIInv, OneAttemptCounts
  <2>5. CASE g = f /\ k = item[f].attempt
    <3>1. request[<<f, k>>] = "failed"
      BY <2>5, <1>1, <1>2 DEF UploadIInv, RetryFollowsFailure
    <3>2. QED
      BY <3>1, <2>1, <2>5, <1>2, <1>3, <1>4
  <2>6. QED
    BY <2>2, <2>3, <2>4, <2>5, <1>2, <1>3
<1>7. RetryFollowsFailure'
  <2> SUFFICES ASSUME NEW g \in Files \ undone, g # f
               PROVE  item[g].status = "error" /\ item[g].attempt > 0 =>
                        request'[<<g, item[g].attempt>>] = "failed"
    BY <1>1, <1>3 DEF UploadIInv, RetryFollowsFailure
  <2>1. item[g].attempt \in 0..MaxUploads
    BY DEF UploadIInv, UploadTypeOK
  <2>2. item[g].attempt > 0 => <<g, item[g].attempt>> \in Attempts
    BY <2>1 DEF Attempts
  <2>3. QED
    BY <2>2, <1>4 DEF UploadIInv, RetryFollowsFailure
<1>8. StoredHasSegments'
  BY <1>1, <1>4 DEF UploadIInv, StoredHasSegments
<1>9. SentIsCounted'
  BY <1>2, <1>3 DEF UploadIInv, SentIsCounted
<1>10. QED
  BY <1>5, <1>6, <1>7, <1>8, <1>9 DEF UploadIInv
LEMMA UploadStepIInv ==
  ASSUME MaxUploads \in Nat, UploadIInv, [UploadNext]_uploadVars
  PROVE  UploadIInv'
<1> USE DEF UploadIInv
<1>1. CASE UNCHANGED uploadVars
  BY <1>1 DEF uploadVars, UploadTypeOK, OneAttemptCounts, RetryFollowsFailure, SentIsCounted,
       StoredHasSegments
<1>2. ASSUME NEW f \in Files, Upload(f)
      PROVE  UploadIInv'
  BY <1>2, UploadKeepsIInv
<1>3. ASSUME NEW f \in Files, NEW status \in ItemStatuses, NEW shown \in Parses \cup {"none"},
             item' = [item EXCEPT ![f].status = status, ![f].shown = shown],
             undone' \in {undone, undone \cup {f}}, UNCHANGED <<kind, server>>,
             status \in {"uploading", "done"} => item[f].attempt > 0,
             f \notin undone' =>
               /\ status # "cancelled"
               /\ status \in {"absent", "queued"} => item[f].attempt = 0
               /\ status = "error" /\ item[f].attempt > 0 =>
                    request[<<f, item[f].attempt>>] = "failed"
      PROVE  UploadIInv'
  BY <1>3, ItemStep
<1>4. ASSUME NEW f \in Files
      PROVE  /\ item[f].status \in ItemStatuses /\ item[f].shown \in Parses \cup {"none"}
             /\ item[f].attempt \in 0..MaxUploads
             /\ \A status : [item EXCEPT ![f].status = status] =
                              [item EXCEPT ![f].status = status, ![f].shown = item[f].shown]
  BY <1>4 DEF UploadTypeOK
<1>5. ASSUME NEW f \in Files, AddFile(f)
      PROVE  UploadIInv'
  <2> DEFINE status == IF kind[f] = "large" THEN "error" ELSE "queued"
  <2>1. /\ item' = [item EXCEPT ![f].status = status] /\ undone' = undone
        /\ UNCHANGED <<kind, server>> /\ item[f].status = "absent"
    BY <1>5 DEF AddFile
  <2>2. status \in {"error", "queued"} /\ status \in ItemStatuses
    BY DEF ItemStatuses
  <2>3. f \notin undone => item[f].attempt = 0
    BY <2>1 DEF RetryFollowsFailure
  <2> HIDE DEF status
  <2>4. item' = [item EXCEPT ![f].status = status, ![f].shown = item[f].shown]
    BY <2>1, <1>4
  <2>5. item[f].shown \in Parses \cup {"none"} /\ status \notin {"uploading", "done", "cancelled"}
    BY <2>2, <1>4
  <2>6. f \notin undone' =>
           /\ status # "cancelled"
           /\ status \in {"absent", "queued"} => item[f].attempt = 0
           /\ status = "error" /\ item[f].attempt > 0 =>
                request[<<f, item[f].attempt>>] = "failed"
    BY <2>1, <2>3, <2>5
  <2>7. undone' \in {undone, undone \cup {f}} /\ UNCHANGED <<kind, server>>
    BY <2>1
  <2>8. QED
    BY <2>2, <2>4, <2>5, <2>6, <2>7, ItemStep
<1>6. ASSUME NEW f \in Files, NEW s \in {"cancelled", "error"}, GiveUp(f, s)
      PROVE  UploadIInv'
  <2>1. /\ item' = [item EXCEPT ![f].status = s, ![f].shown = item[f].shown]
        /\ undone' = undone \cup {f} /\ f \in undone' /\ UNCHANGED <<kind, server>>
    BY <1>6, <1>4 DEF GiveUp
  <2>2. /\ s \in ItemStatuses /\ s \notin {"uploading", "done"}
        /\ item[f].shown \in Parses \cup {"none"} /\ undone' \in {undone, undone \cup {f}}
    BY <2>1, <1>4 DEF ItemStatuses
  <2>3. QED
    BY <2>1, <2>2, ItemStep
<1>7. ASSUME NEW f \in Files, Answered(f)
      PROVE  UploadIInv'
  <2> DEFINE r == <<f, item[f].attempt>>
             told == IF ParseStatus(r) = "none" THEN "parsed" ELSE ParseStatus(r)
  <2>1. undone' = undone /\ UNCHANGED <<kind, server>> /\ item[f].attempt > 0
    BY <1>7 DEF Answered, SentIsCounted
  <2>2. CASE item' = [item EXCEPT ![f].status = "done", ![f].shown = told]
               /\ request[r] \in {"stored", "rejected"}
    <3>1. r \in Attempts
      BY <2>1, <1>4 DEF Attempts
    <3>2. told \in Parses \cup {"none"} /\ "done" \in ItemStatuses
      BY <3>1 DEF ParseStatus, Parses, UploadTypeOK, ItemStatuses
    <3> HIDE DEF told
    <3>3. QED
      BY <2>1, <2>2, <3>2, <1>3
  <2>3. CASE item' = [item EXCEPT ![f].status = "error"] /\ request[r] = "failed"
    <3>1. /\ item' = [item EXCEPT ![f].status = "error", ![f].shown = item[f].shown]
          /\ "error" \in ItemStatuses
      BY <2>3, <1>4 DEF ItemStatuses
    <3>2. QED
      BY <2>1, <2>3, <3>1, <1>3, <1>4
  <2>4. QED
    BY <1>7, <2>2, <2>3 DEF Answered
<1>8. ASSUME NEW f \in Files, RemoveItem(f)
      PROVE  UploadIInv'
  <2>1. /\ item' = [item EXCEPT ![f].status = "absent", ![f].shown = "none"]
        /\ undone' = undone \cup {f} /\ UNCHANGED <<kind, server>>
        /\ "absent" \in ItemStatuses
    BY <1>8 DEF RemoveItem, ItemStatuses
  <2>2. QED
    BY <2>1, <1>3
<1>9. ASSUME NEW r \in Attempts, Check(r) \/ FailRequest(r)
      PROVE  UploadIInv'
  <2>1. PICK s \in {"parsing", "rejected", "failed"} :
          /\ RequestIs(r, s) /\ UNCHANGED <<document, segments, page>>
          /\ request[r] \notin {"none", "failed"}
    BY <1>9 DEF Check, FailRequest
  <2>2. StoredHasSegments'
    BY <2>1 DEF StoredHasSegments, RequestIs, UploadTypeOK
  <2>3. QED
    BY <2>1, <2>2, RequestStep DEF UploadTypeOK
<1>10. ASSUME NEW r \in Attempts, NEW p \in Parses, StoreDocument(r, p)
       PROVE  UploadIInv'
  <2>1. /\ RequestIs(r, "storing") /\ request[r] = "parsing"
        /\ document' = [document EXCEPT ![r] = [row |-> "present", parse |-> p]]
        /\ UNCHANGED <<segments, page>>
    BY <1>10 DEF StoreDocument, AfterDocument
  <2>2. document' \in [Attempts -> [row : {"none", "present", "removing", "removed"},
                                    parse : Parses \cup {"none"}]]
    BY <2>1 DEF UploadTypeOK
  <2>3. StoredHasSegments'
    BY <2>1 DEF StoredHasSegments, RequestIs, UploadTypeOK
  <2>4. QED
    BY <2>1, <2>2, <2>3, RequestStep DEF UploadTypeOK
<1>11. ASSUME NEW r \in Attempts, StoreSegments(r)
       PROVE  UploadIInv'
  <2>1. /\ RequestIs(r, "stored") /\ request[r] = "storing" /\ segments' = segments \cup {r}
        /\ UNCHANGED <<document, page>>
    BY <1>11 DEF StoreSegments
  <2>2. StoredHasSegments'
    BY <2>1 DEF StoredHasSegments, RequestIs, UploadTypeOK
  <2>3. QED
    BY <2>1, <2>2, RequestStep DEF UploadTypeOK
<1>12. ASSUME NEW r \in Attempts, RemoveUploadedSegments(r) \/ RemoveUpload(r)
       PROVE  UploadIInv'
  <2>1. PICK s \in {"removing", "removed"} :
          /\ document' = [document EXCEPT ![r].row = s]
          /\ segments' \in {segments, segments \ {r}}
          /\ UNCHANGED <<request, page>>
    BY <1>12 DEF RemoveUploadedSegments, RemoveUpload
  <2>2. /\ request' = request /\ item' = item /\ undone' = undone /\ kind' = kind
    BY <2>1 DEF page
  <2>3. UploadTypeOK' /\ OneAttemptCounts' /\ RetryFollowsFailure' /\ SentIsCounted'
    BY <2>1, <2>2 DEF UploadTypeOK, OneAttemptCounts, RetryFollowsFailure, SentIsCounted
  <2>4. StoredHasSegments'
    BY <2>1, <2>2 DEF StoredHasSegments, UploadTypeOK
  <2>5. QED
    BY <2>3, <2>4
<1>13. QED
  BY <1>1, <1>2, <1>5, <1>6, <1>7, <1>8, <1>9, <1>10, <1>11, <1>12 DEF UploadNext

LEMMA UploadIInvImplies ==
  ASSUME MaxUploads \in Nat, UploadIInv
  PROVE  UploadTypeOK /\ StoredOnce /\ DoneIsStored
<1>1. StoredOnce
  <2> SUFFICES ASSUME NEW f \in Files \ undone
               PROVE  Cardinality({r \in Attempts : FileOf(r) = f /\ request[r] = "stored"}) <= 1
    BY DEF StoredOnce
  <2> DEFINE S == {r \in Attempts : FileOf(r) = f /\ request[r] = "stored"}
             last == <<f, item[f].attempt>>
  <2>1. S \subseteq {last}
    <3> SUFFICES ASSUME NEW r \in S
                 PROVE  r = last
      OBVIOUS
    <3>1. PICK k \in 1..MaxUploads : r = <<f, k>>
      BY DEF Attempts, FileOf
    <3>2. item[f].attempt \in 0..MaxUploads
      BY DEF UploadIInv, UploadTypeOK
    <3>3. k = item[f].attempt
      BY <3>1, <3>2 DEF UploadIInv, OneAttemptCounts
    <3>4. QED
      BY <3>1, <3>3
  <2>2. Cardinality({last}) = 1 /\ IsFiniteSet({last})
    BY FS_Singleton
  <2> HIDE DEF S, last
  <2>3. Cardinality(S) <= 1
    BY <2>1, <2>2, FS_Subset
  <2>4. QED
    BY <2>3 DEF S
<1>2. DoneIsStored
  <2> SUFFICES ASSUME NEW f \in Files, request[<<f, item[f].attempt>>] = "stored",
                      document[<<f, item[f].attempt>>].row = "present",
                      item[f].status = "done"
               PROVE  <<f, item[f].attempt>> \in segments
    BY DEF DoneIsStored
  <2>1. item[f].attempt \in 1..MaxUploads
    BY DEF UploadIInv, UploadTypeOK, SentIsCounted
  <2>2. <<f, item[f].attempt>> \in Attempts
    BY <2>1 DEF Attempts
  <2>3. QED
    BY <2>2 DEF UploadIInv, StoredHasSegments
<1>3. QED
  BY <1>1, <1>2 DEF UploadIInv
(* Whatever the page retries, cancels and removes, and the backend loses   *)
(* or serves late, a file is stored once unless its request was given up;  *)
(* what is shown as done is there with its segments until it is removed.   *)
THEOREM FilesAreStoredOnce ==
  ASSUME MaxUploads \in Nat
  PROVE  UploadSpec => [](UploadTypeOK /\ StoredOnce /\ DoneIsStored)
<1>1. UploadInit => UploadIInv
  BY DEF UploadInit, UploadIInv, UploadTypeOK, OneAttemptCounts, RetryFollowsFailure, SentIsCounted,
     StoredHasSegments, NoItem, NoDocument, ItemStatuses, Attempts
<1>2. UploadIInv /\ [UploadNext]_uploadVars => UploadIInv'
  BY UploadStepIInv
<1>3. UploadIInv => UploadTypeOK /\ StoredOnce /\ DoneIsStored
  BY UploadIInvImplies
<1>4. QED
  BY <1>1, <1>2, <1>3, PTL DEF UploadSpec

-----------------------------------------------------------------------------
(* Results.  Between pytest and the row of a test stand three queues.  Of  *)
(* a queue it matters what it makes of the outcome that stood before it:   *)
(* its last event of the test, or nothing.                                 *)
Frame == StepEvent \cup Verdict

Tells(frame, t) == frame.type = "test" /\ frame.test = t

Leads(queue, t, before, outcome) ==
  \/ outcome = before /\ \A i \in 1..Len(queue) : ~Tells(queue[i], t)
  \/ \E i \in 1..Len(queue) : /\ Tells(queue[i], t) /\ queue[i].outcome = outcome
                              /\ \A j \in 1..Len(queue) : Tells(queue[j], t) => j <= i

Told(frame, t, before) == IF Tells(frame, t) THEN frame.outcome ELSE before

LEMMA LeadsAppend ==
  ASSUME NEW queue \in Seq(Frame), NEW frame \in Frame, NEW t, NEW before, NEW outcome,
         Leads(queue, t, before, outcome)
  PROVE  Leads(Append(queue, frame), t, before, Told(frame, t, outcome))
<1>1. PICK longer \in Seq(Frame), n \in Nat :
        /\ longer = Append(queue, frame) /\ n = Len(queue) /\ Len(longer) = n + 1
        /\ longer[n + 1] = frame /\ \A i \in 1..n : longer[i] = queue[i]
  <2>1. /\ Append(queue, frame) \in Seq(Frame) /\ Len(queue) \in Nat
        /\ Len(Append(queue, frame)) = Len(queue) + 1
        /\ Append(queue, frame)[Len(queue) + 1] = frame
        /\ \A i \in 1..Len(queue) : Append(queue, frame)[i] = queue[i]
    OBVIOUS
  <2>2. QED
    BY <2>1
<1>2. CASE Tells(frame, t)
  <2>1. /\ n + 1 \in 1..Len(longer) /\ Tells(longer[n + 1], t)
        /\ longer[n + 1].outcome = Told(frame, t, outcome)
        /\ \A j \in 1..Len(longer) : j <= n + 1
    BY <1>1, <1>2 DEF Told
  <2>2. QED
    BY <1>1, <2>1 DEF Leads
<1>3. CASE ~Tells(frame, t)
  <2>1. CASE outcome = before /\ \A i \in 1..Len(queue) : ~Tells(queue[i], t)
    BY <1>1, <1>3, <2>1 DEF Leads, Told
  <2>2. ASSUME NEW i \in 1..Len(queue), Tells(queue[i], t), queue[i].outcome = outcome,
               \A j \in 1..Len(queue) : Tells(queue[j], t) => j <= i
        PROVE  Leads(longer, t, before, Told(frame, t, outcome))
    <3>1. /\ i \in 1..Len(longer) /\ Tells(longer[i], t)
          /\ longer[i].outcome = Told(frame, t, outcome)
      BY <1>1, <1>3, <2>2 DEF Told
    <3>2. \A j \in 1..Len(longer) : Tells(longer[j], t) => j <= i
      BY <1>1, <1>3, <2>2
    <3>3. QED
      BY <3>1, <3>2 DEF Leads
  <2>3. QED
    BY <1>1, <2>1, <2>2 DEF Leads
<1>4. QED
  BY <1>2, <1>3

LEMMA LeadsTail ==
  ASSUME NEW queue \in Seq(Frame), queue # <<>>, NEW t, NEW before, NEW outcome,
         Leads(queue, t, before, outcome)
  PROVE  Leads(Tail(queue), t, Told(Head(queue), t, before), outcome)
<1>1. PICK rest \in Seq(Frame), n \in Nat, frame \in Frame :
        /\ rest = Tail(queue) /\ n = Len(rest) /\ Len(queue) = n + 1
        /\ frame = Head(queue) /\ queue[1] = frame /\ \A i \in 1..n : rest[i] = queue[i + 1]
  <2>1. /\ Tail(queue) \in Seq(Frame) /\ Len(Tail(queue)) \in Nat
        /\ Len(queue) = Len(Tail(queue)) + 1
        /\ Head(queue) \in Frame /\ queue[1] = Head(queue)
        /\ \A i \in 1..Len(Tail(queue)) : Tail(queue)[i] = queue[i + 1]
    OBVIOUS
  <2>2. QED
    BY <2>1
<1>2. CASE outcome = before /\ \A i \in 1..Len(queue) : ~Tells(queue[i], t)
  <2>1. ~Tells(frame, t) /\ \A i \in 1..n : ~Tells(rest[i], t)
    BY <1>1, <1>2
  <2>2. QED
    BY <1>1, <1>2, <2>1 DEF Leads, Told
<1>3. ASSUME NEW i \in 1..Len(queue), Tells(queue[i], t), queue[i].outcome = outcome,
             \A j \in 1..Len(queue) : Tells(queue[j], t) => j <= i
      PROVE  Leads(rest, t, Told(frame, t, before), outcome)
  <2>1. CASE i = 1
    <3>1. \A j \in 1..n : ~Tells(rest[j], t)
      BY <1>1, <1>3, <2>1
    <3>2. Told(frame, t, before) = outcome
      BY <1>1, <1>3, <2>1 DEF Told
    <3>3. QED
      BY <1>1, <3>1, <3>2 DEF Leads
  <2>2. CASE i # 1
    <3>1. PICK k \in 1..n : k + 1 = i
      <4>1. i - 1 \in 1..n /\ (i - 1) + 1 = i
        BY <1>1, <2>2
      <4>2. QED
        BY <4>1
    <3>2. Tells(rest[k], t) /\ rest[k].outcome = outcome
      BY <1>1, <1>3, <3>1
    <3>3. \A j \in 1..n : Tells(rest[j], t) => j <= k
      <4> SUFFICES ASSUME NEW j \in 1..n, Tells(rest[j], t)
                   PROVE  j <= k
        OBVIOUS
      <4>1. j + 1 \in 1..Len(queue) /\ Tells(queue[j + 1], t)
        BY <1>1
      <4>2. j + 1 <= k + 1
        BY <1>3, <3>1, <4>1
      <4>3. QED
        BY <4>2
    <3>4. QED
      BY <1>1, <3>2, <3>3 DEF Leads
  <2>3. QED
    BY <2>1, <2>2
<1>4. QED
  BY <1>1, <1>2, <1>3 DEF Leads

LEMMA LeadsEmpty ==
  ASSUME NEW t, NEW before, NEW outcome
  PROVE  Leads(<<>>, t, before, outcome) <=> outcome = before
BY DEF Leads

(* What the events of a test leave in its row.                             *)
Outcome(t) ==
  IF fate[t] \in Reported THEN fate[t] ELSE IF reruns[t] > 0 THEN "failed" ELSE "none"

EventsAreUnderWay ==
  ~lost => \A t \in Tests : \E handled, published :
    /\ Leads(chain, t, lastSeen[t], handled)
    /\ Leads(wire, t, handled, published)
    /\ Leads(steps, t, published, Outcome(t))

(* The verdict tells what pytest measured, and is under way until it is    *)
(* applied or dropped.                                                     *)
Final == pytest \in {"reported", "abandoned"}

SaysMeasured(frame) ==
  frame.type = "verdict" => Final /\ (pytest = "reported" => frame.metrics = Measured)

VerdictIsMeasured ==
  /\ \A i \in 1..Len(wire) : SaysMeasured(wire[i])
  /\ \A i \in 1..Len(chain) : SaysMeasured(chain[i])
  /\ Settled(run.status) /\ stream # "final" =>
       Final /\ (pytest = "reported" => run.metrics = Measured)

HasVerdict(queue) == \E i \in 1..Len(queue) : queue[i].type = "verdict"

VerdictIsUnderWay ==
  pytest = "reported" /\ ~dropped => run.metrics = Measured \/ HasVerdict(wire) \/ HasVerdict(chain)

(* The stages of a stream and of pytest.                                   *)
StagesInOrder ==
  /\ stream # "open" => wire = <<>>
  /\ stream \in {"open", "ended"} => rows = [t \in Tests |-> "none"]
  /\ stream \in {"stored", "final"} => chain = <<>> /\ rows = lastSeen
  /\ pytest # "running" => steps = <<>>
  /\ pytest \in {"exited", "reported"} => \A t \in Tests : fate[t] # "none"

RunType == [status : Ends \cup {"running"}, metrics : Metrics]

ReportIsCounted ==
  /\ report \in [state : {"none", "requested", "stored"}, of : RunType,
                 counts : {report.counts}, late : BOOLEAN]
  /\ report.late => stream = "final" /\ report.counts = BuildCounts(report.of.metrics)

ResultIInv ==
  /\ ResultTypeOK /\ run \in RunType
  /\ EventsAreUnderWay
  /\ VerdictIsMeasured /\ VerdictIsUnderWay
  /\ StagesInOrder
  /\ ReportIsCounted

LEMMA CountsAreNumbers ==
  ASSUME IsFiniteSet(Tests)
  PROVE  /\ \A S \in SUBSET Tests : Cardinality(S) \in Nat /\ Cardinality(S) <= Cardinality(Tests)
         /\ Measured \in Metrics /\ NoMetrics \in Metrics
<1>1. \A S \in SUBSET Tests : Cardinality(S) \in Nat /\ Cardinality(S) <= Cardinality(Tests)
  BY FS_Subset, FS_CardinalityType
<1>2. \A f, o : Count(f, o) \in Nat
  BY <1>1 DEF Count
<1>3. Cardinality({t \in Tests : reruns[t] > 0 /\ fate[t] = "passed"}) \in Nat
      /\ Cardinality(Tests) \in Nat
  BY <1>1
<1>4. NoMetrics \in Metrics
  BY DEF NoMetrics, Metrics
<1>5. Measured \in Metrics
  BY <1>2, <1>3, <1>4 DEF Measured, Metrics
<1>6. QED
  BY <1>1, <1>4, <1>5

LEMMA MeasuredStays ==
  ASSUME UNCHANGED <<fate, reruns>>,
         pytest' = pytest \/ (pytest = "exited" /\ pytest' = "reported")
  PROVE  Measured' = Measured
BY DEF Measured, Count

LEMMA CountsStay ==
  ASSUME UNCHANGED rows
  PROVE  \A m : BuildCounts(m)' = BuildCounts(m)
BY DEF BuildCounts, AnyRow

LEMMA ResultInitIInv ==
  ASSUME IsFiniteSet(Tests), MaxReruns \in Nat, QueueLimit \in Nat \ {0}, ResultInit
  PROVE  ResultIInv
<1> USE DEF ResultInit
<1>1. run \in RunType
  BY CountsAreNumbers DEF RunType
<1>2. ResultTypeOK
  <2>1. /\ steps \in Seq(StepEvent) /\ Len(steps) <= QueueLimit
        /\ wire \in Seq(StepEvent \cup Verdict) /\ chain \in Seq(StepEvent \cup Verdict)
    OBVIOUS
  <2>2. /\ fate \in [Tests -> Reported \cup {"none", "error"}] /\ reruns \in [Tests -> 0 .. MaxReruns]
        /\ lastSeen \in [Tests -> Reported \cup {"none"}]
        /\ rows \in [Tests -> Reported \cup {"none"}]
    OBVIOUS
  <2>3. run.status = "running" /\ run.metrics \in Metrics
    BY CountsAreNumbers
  <2>4. QED
    BY <2>1, <2>2, <2>3 DEF ResultTypeOK, NoReport
<1>3. EventsAreUnderWay
  <2> SUFFICES ASSUME NEW t \in Tests
               PROVE  \E handled, published :
                        /\ Leads(chain, t, lastSeen[t], handled)
                        /\ Leads(wire, t, handled, published)
                        /\ Leads(steps, t, published, Outcome(t))
    BY DEF EventsAreUnderWay
  <2>1. Outcome(t) = "none" /\ lastSeen[t] = "none"
    BY DEF Outcome, Reported
  <2>2. Leads(<<>>, t, "none", "none")
    BY LeadsEmpty
  <2>3. QED
    BY <2>1, <2>2
<1>4. VerdictIsMeasured /\ VerdictIsUnderWay /\ StagesInOrder
  BY DEF VerdictIsMeasured, VerdictIsUnderWay, StagesInOrder, Settled
<1>5. ReportIsCounted
  BY CountsAreNumbers DEF ReportIsCounted, NoReport, RunType
<1>6. QED
  BY <1>1, <1>2, <1>3, <1>4, <1>5 DEF ResultIInv

(* pytest adds an event to its queue.                                      *)
LEMMA EmitFacts ==
  ASSUME IsFiniteSet(Tests), QueueLimit \in Nat \ {0}, ResultIInv,
         NEW t \in Tests, NEW outcome \in Reported, EmitStep(t, outcome)
  PROVE  /\ steps' \in Seq(StepEvent) /\ Len(steps') <= QueueLimit /\ lost' \in BOOLEAN
         /\ ~lost' => ~lost /\ \E step \in StepEvent :
                         /\ step.test = t /\ step.outcome = outcome /\ step.type = "test"
                         /\ steps' = Append(steps, step)
<1>1. PICK step \in StepEvent : step = [type |-> "test", test |-> t, outcome |-> outcome]
  BY DEF StepEvent
<1>2. steps \in Seq(StepEvent) /\ Len(steps) <= QueueLimit /\ lost \in BOOLEAN
  BY DEF ResultIInv, ResultTypeOK
<1>3. CASE Len(steps) < QueueLimit
  <2>1. steps' = Append(steps, step) /\ lost' = lost
    BY <1>1, <1>3 DEF EmitStep
  <2>2. QED
    BY <1>1, <1>2, <1>3, <2>1
<1>4. CASE ~(Len(steps) < QueueLimit)
  <2>1. steps' = Append(Tail(steps), step) /\ lost' = TRUE
    BY <1>1, <1>4 DEF EmitStep
  <2>2. steps # <<>>
    BY <1>2, <1>4
  <2>3. Tail(steps) \in Seq(StepEvent) /\ Len(Tail(steps)) = Len(steps) - 1
    BY <1>2, <2>2
  <2>4. QED
    BY <1>1, <1>2, <2>1, <2>3
<1>5. QED
  BY <1>3, <1>4

LEMMA EventsAreFrames ==
  ASSUME ResultTypeOK
  PROVE  /\ steps \in Seq(Frame) /\ wire \in Seq(Frame) /\ chain \in Seq(Frame)
         /\ steps \in Seq(StepEvent)
         /\ \A frame \in Frame : frame.type \in {"test", "verdict"}
         /\ \A frame \in Frame : frame.type = "test" <=> frame \in StepEvent
         /\ \A frame \in Frame : frame.type = "verdict" <=> frame \in Verdict
<1>1. steps \in Seq(Frame)
  BY DEF ResultTypeOK, Frame
<1>2. QED
  BY <1>1 DEF ResultTypeOK, Frame, StepEvent, Verdict

(* A test is run again or ends.                                            *)
LEMMA TestKeepsIInv ==
  ASSUME IsFiniteSet(Tests), MaxReruns \in Nat, QueueLimit \in Nat \ {0}, ResultIInv, NEW t \in Tests,
         Rerun(t) \/ \E o \in Reported \cup {"error"} : EndTest(t, o)
  PROVE  ResultIInv'
<1>1. /\ pytest = "running" /\ fate[t] = "none"
      /\ UNCHANGED <<pytest, wire, chain, lastSeen, stream, run, rows, report, dropped>>
      /\ fate' \in [Tests -> Reported \cup {"none", "error"}] /\ reruns' \in [Tests -> 0 .. MaxReruns]
      /\ \A u \in Tests : u # t => fate'[u] = fate[u] /\ reruns'[u] = reruns[u]
  <2>1. fate \in [Tests -> Reported \cup {"none", "error"}] /\ reruns \in [Tests -> 0 .. MaxReruns]
    BY DEF ResultIInv, ResultTypeOK
  <2>2. CASE Rerun(t)
    <3>1. reruns[t] + 1 \in 0..MaxReruns /\ reruns' = [reruns EXCEPT ![t] = @ + 1] /\ fate' = fate
      BY <2>1, <2>2 DEF Rerun
    <3>2. QED
      BY <2>1, <2>2, <3>1 DEF Rerun
  <2>3. ASSUME NEW o \in Reported \cup {"error"}, EndTest(t, o)
        PROVE  /\ fate' \in [Tests -> Reported \cup {"none", "error"}]
               /\ reruns' = reruns /\ \A u \in Tests : u # t => fate'[u] = fate[u]
    BY <2>1, <2>3 DEF EndTest
  <2>4. QED
    BY <2>1, <2>2, <2>3 DEF EndTest
<1>2. \/ /\ steps' = steps /\ lost' = lost /\ Outcome(t)' = Outcome(t)
      \/ EmitStep(t, Outcome(t)') /\ Outcome(t)' \in Reported
  <2>1. CASE Rerun(t)
    <3>1. EmitStep(t, "failed") /\ fate' = fate /\ reruns'[t] > 0
      BY <2>1 DEF Rerun, ResultIInv, ResultTypeOK
    <3>2. Outcome(t)' = "failed"
      BY <1>1, <3>1 DEF Outcome, Reported
    <3>3. QED
      BY <3>1, <3>2 DEF Reported
  <2>2. ASSUME NEW o \in Reported \cup {"error"}, EndTest(t, o)
        PROVE  \/ /\ steps' = steps /\ lost' = lost /\ Outcome(t)' = Outcome(t)
               \/ EmitStep(t, Outcome(t)') /\ Outcome(t)' \in Reported
    <3>1. fate'[t] = o /\ reruns' = reruns
      BY <2>2 DEF EndTest, ResultIInv, ResultTypeOK
    <3>2. CASE o = "error"
      BY <1>1, <2>2, <3>1, <3>2 DEF EndTest, Outcome, Reported
    <3>3. CASE o \in Reported
      <4>1. Outcome(t)' = o /\ o # "error"
        BY <3>1, <3>3 DEF Outcome, Reported
      <4>2. QED
        BY <2>2, <3>3, <4>1 DEF EndTest
    <3>4. QED
      BY <3>2, <3>3
  <2>3. QED
    BY <2>1, <2>2
<1>3. /\ steps' \in Seq(StepEvent) /\ Len(steps') <= QueueLimit /\ lost' \in BOOLEAN
      /\ ~lost' => /\ ~lost
                   /\ \/ steps' = steps /\ Outcome(t)' = Outcome(t)
                      \/ \E step \in StepEvent :
                            /\ step.test = t /\ step.outcome = Outcome(t)' /\ step.type = "test"
                            /\ steps' = Append(steps, step)
  BY <1>2, EmitFacts DEF ResultIInv, ResultTypeOK
<1>4. ResultTypeOK' /\ (run \in RunType)'
  BY <1>1, <1>3 DEF ResultIInv, ResultTypeOK
<1>5. EventsAreUnderWay'
  <2> SUFFICES ASSUME ~lost', NEW u \in Tests
               PROVE  (\E handled, published :
                         /\ Leads(chain, u, lastSeen[u], handled)
                         /\ Leads(wire, u, handled, published)
                         /\ Leads(steps, u, published, Outcome(u)))'
    BY DEF EventsAreUnderWay
  <2>1. PICK handled, published : /\ Leads(chain, u, lastSeen[u], handled)
                                  /\ Leads(wire, u, handled, published)
                                  /\ Leads(steps, u, published, Outcome(u))
    BY <1>3 DEF ResultIInv, EventsAreUnderWay
  <2>2. u # t => Outcome(u)' = Outcome(u)
    BY <1>1 DEF Outcome
  <2>3. Leads(steps', u, published, Outcome(u)')
    <3>1. CASE steps' = steps /\ Outcome(t)' = Outcome(t)
      BY <2>1, <2>2, <3>1
    <3>2. ASSUME NEW step \in StepEvent, step.test = t, step.outcome = Outcome(t)', step.type = "test",
                 steps' = Append(steps, step)
          PROVE  Leads(steps', u, published, Outcome(u)')
      <4>1. step \in Frame /\ steps \in Seq(Frame)
        BY EventsAreFrames DEF Frame, ResultIInv
      <4>2. Told(step, u, Outcome(u)) = Outcome(u)'
        BY <2>2, <3>2 DEF Told, Tells
      <4>3. Leads(Append(steps, step), u, published, Told(step, u, Outcome(u)))
        BY <2>1, <4>1, LeadsAppend
      <4>4. QED
        BY <3>2, <4>2, <4>3
    <3>3. QED
      BY <1>3, <3>1, <3>2
  <2>4. Leads(chain', u, lastSeen'[u], handled) /\ Leads(wire', u, handled, published)
    BY <1>1, <2>1
  <2>5. QED
    BY <2>3, <2>4 DEF Leads
<1>6. VerdictIsMeasured'
  BY <1>1 DEF ResultIInv, VerdictIsMeasured, SaysMeasured, Final
<1>7. VerdictIsUnderWay' /\ StagesInOrder'
  BY <1>1 DEF ResultIInv, VerdictIsUnderWay, StagesInOrder
<1>8. ReportIsCounted'
  BY <1>1, CountsStay DEF ResultIInv, ReportIsCounted
<1>9. QED
  BY <1>4, <1>5, <1>6, <1>7, <1>8 DEF ResultIInv

LEMMA NoVerdictYet ==
  ASSUME ResultIInv, ~Final
  PROVE  /\ \A i \in 1..Len(wire) : wire[i].type # "verdict"
         /\ \A i \in 1..Len(chain) : chain[i].type # "verdict"
         /\ Settled(run.status) => stream = "final"
BY DEF ResultIInv, VerdictIsMeasured, SaysMeasured

(* The sender posts an event.                                              *)
LEMMA SendKeepsIInv ==
  ASSUME QueueLimit \in Nat \ {0}, ResultIInv, NEW arrives \in BOOLEAN, SendStep(arrives)
  PROVE  ResultIInv'
<1>1. /\ pytest = "running" /\ ~Final /\ steps # <<>> /\ steps' = Tail(steps)
      /\ UNCHANGED <<fate, reruns, pytest, chain, lastSeen, stream, run, rows, report, dropped>>
  BY DEF SendStep, Final
<1>2. PICK frame \in Frame : frame = Head(steps) /\ frame.type = "test" /\ frame \in StepEvent
  <2>1. Head(steps) \in StepEvent
    BY <1>1, EventsAreFrames DEF ResultIInv
  <2>2. QED
    BY <2>1, EventsAreFrames DEF ResultIInv, Frame
<1>3. \/ stream = "open" /\ wire' = Append(wire, frame) /\ lost' = lost
      \/ lost' = TRUE /\ wire' = wire
  BY <1>2 DEF SendStep
<1>4. steps' \in Seq(StepEvent) /\ Len(steps') <= QueueLimit
  <2>1. Len(steps') = Len(steps) - 1 /\ steps' \in Seq(StepEvent)
    BY <1>1, EventsAreFrames DEF ResultIInv
  <2>2. QED
    BY <2>1, EventsAreFrames DEF ResultIInv, ResultTypeOK
<1>5. wire' \in Seq(StepEvent \cup Verdict)
  BY <1>3, EventsAreFrames DEF ResultIInv, Frame
<1>6. ResultTypeOK' /\ (run \in RunType)'
  BY <1>1, <1>3, <1>4, <1>5 DEF ResultIInv, ResultTypeOK
<1>7. EventsAreUnderWay'
  <2> SUFFICES ASSUME ~lost', NEW t \in Tests
               PROVE  (\E handled, published :
                         /\ Leads(chain, t, lastSeen[t], handled)
                         /\ Leads(wire, t, handled, published)
                         /\ Leads(steps, t, published, Outcome(t)))'
    BY DEF EventsAreUnderWay
  <2>1. ~lost /\ wire' = Append(wire, frame)
    BY <1>3
  <2>2. PICK handled, published : /\ Leads(chain, t, lastSeen[t], handled)
                                  /\ Leads(wire, t, handled, published)
                                  /\ Leads(steps, t, published, Outcome(t))
    BY <2>1 DEF ResultIInv, EventsAreUnderWay
  <2>3. Leads(wire', t, handled, Told(frame, t, published))
    BY <2>1, <2>2, LeadsAppend, EventsAreFrames DEF ResultIInv
  <2>4. Leads(steps', t, Told(frame, t, published), Outcome(t))
    BY <1>1, <1>2, <2>2, LeadsTail, EventsAreFrames DEF ResultIInv
  <2>5. Outcome(t)' = Outcome(t)
    BY <1>1 DEF Outcome
  <2>6. Leads(chain', t, lastSeen'[t], handled)
    BY <1>1, <2>2
  <2>7. QED
    BY <2>3, <2>4, <2>5, <2>6 DEF Leads
<1>8. \A i \in 1..Len(wire') : wire'[i].type # "verdict"
  <2>1. wire \in Seq(Frame) /\ \A i \in 1..Len(wire) : wire[i].type # "verdict"
    BY <1>1, NoVerdictYet, EventsAreFrames DEF ResultIInv
  <2>2. CASE wire' = Append(wire, frame)
    <3> SUFFICES ASSUME NEW i \in 1..Len(wire')
                 PROVE  wire'[i].type # "verdict"
      OBVIOUS
    <3>1. Len(wire) \in Nat /\ Len(wire') = Len(wire) + 1
      BY <2>1, <2>2
    <3>2. CASE i = Len(wire) + 1
      BY <1>2, <2>1, <2>2, <3>2
    <3>3. CASE i \in 1..Len(wire)
      BY <2>1, <2>2, <3>3
    <3>4. QED
      BY <3>1, <3>2, <3>3
  <2>3. QED
    BY <1>3, <2>1, <2>2
<1>9. VerdictIsMeasured'
  BY <1>1, <1>8, NoVerdictYet DEF VerdictIsMeasured, SaysMeasured, Settled
<1>10. VerdictIsUnderWay' /\ StagesInOrder'
  BY <1>1, <1>3 DEF ResultIInv, VerdictIsUnderWay, StagesInOrder
<1>11. ReportIsCounted'
  BY <1>1, CountsStay DEF ResultIInv, ReportIsCounted
<1>12. QED
  BY <1>6, <1>7, <1>9, <1>10, <1>11 DEF ResultIInv

(* Queues that nobody touches, or from which an event was lost.            *)
LEMMA EventsStay ==
  ASSUME ResultIInv,
         ~lost' => ~lost /\ UNCHANGED <<fate, reruns, steps, wire, chain, lastSeen>>
  PROVE  EventsAreUnderWay'
<1> SUFFICES ASSUME ~lost', NEW t \in Tests
             PROVE  (\E handled, published :
                       /\ Leads(chain, t, lastSeen[t], handled)
                       /\ Leads(wire, t, handled, published)
                       /\ Leads(steps, t, published, Outcome(t)))'
  BY DEF EventsAreUnderWay
<1>1. PICK handled, published : /\ Leads(chain, t, lastSeen[t], handled)
                                /\ Leads(wire, t, handled, published)
                                /\ Leads(steps, t, published, Outcome(t))
  BY DEF ResultIInv, EventsAreUnderWay
<1>2. Outcome(t)' = Outcome(t)
  BY DEF Outcome
<1>3. /\ Leads(chain', t, lastSeen'[t], handled)
      /\ Leads(wire', t, handled, published)
      /\ Leads(steps', t, published, Outcome(t)')
  BY <1>1, <1>2
<1>4. QED
  BY <1>3 DEF Leads

LEMMA ExitKeepsIInv ==
  ASSUME QueueLimit \in Nat \ {0}, ResultIInv, NEW how \in {"exited", "killed"}, Exit(how)
  PROVE  ResultIInv'
<1>1. /\ pytest = "running" /\ ~Final /\ pytest' = how /\ steps' = <<>>
      /\ lost' = (lost \/ steps # <<>>)
      /\ how = "exited" => \A t \in Tests : fate[t] # "none"
      /\ UNCHANGED <<fate, reruns, wire, chain, lastSeen, stream, run, rows, report, dropped>>
  BY DEF Exit, Final
<1>2. steps' \in Seq(StepEvent) /\ Len(steps') <= QueueLimit /\ lost' \in BOOLEAN
  <2>1. Len(steps') = 0 /\ Len(steps) \in Nat /\ Len(steps) <= QueueLimit
    BY <1>1, EventsAreFrames DEF ResultIInv, ResultTypeOK
  <2>2. Len(steps') <= QueueLimit
    <3>1. CASE steps = <<>>
      BY <1>1, <3>1, <2>1
    <3>2. CASE steps # <<>>
      BY <2>1 DEF ResultIInv, ResultTypeOK
    <3>3. QED
      BY <3>1, <3>2
  <2>3. QED
    BY <1>1, <2>2
<1>3. ResultTypeOK' /\ (run \in RunType)'
  BY <1>1, <1>2 DEF ResultIInv, ResultTypeOK
<1>4. EventsAreUnderWay'
  <2>1. ~lost' => ~lost /\ steps' = steps
    BY <1>1
  <2>2. QED
    BY <1>1, <2>1, EventsStay
<1>5. VerdictIsMeasured'
  BY <1>1, NoVerdictYet DEF VerdictIsMeasured, SaysMeasured, Settled
<1>6. VerdictIsUnderWay' /\ StagesInOrder'
  BY <1>1 DEF ResultIInv, VerdictIsUnderWay, StagesInOrder
<1>7. ReportIsCounted'
  BY <1>1, CountsStay DEF ResultIInv, ReportIsCounted
<1>8. QED
  BY <1>3, <1>4, <1>5, <1>6, <1>7 DEF ResultIInv

(* The engine publishes its verdict.                                       *)
LEMMA VerdictKeepsIInv ==
  ASSUME IsFiniteSet(Tests), ResultIInv, ReportVerdict
  PROVE  ResultIInv'
<1>1. /\ pytest \in {"exited", "killed"} /\ ~Final
      /\ pytest' = IF pytest = "exited" THEN "reported" ELSE "abandoned"
      /\ UNCHANGED <<fate, reruns, steps, chain, lastSeen, stream, run, rows, report, lost>>
  BY DEF ReportVerdict, Final
<1>2. PICK verdict \in Verdict :
        /\ verdict = [type |-> "verdict", metrics |-> Measured,
                      status |-> IF pytest = "killed" THEN "timed_out"
                                 ELSE IF Measured.errors > 0 /\ Measured.passed + Measured.failed = 0
                                 THEN "error" ELSE "completed"]
        /\ verdict.type = "verdict" /\ verdict.metrics = Measured
  <2>1. PICK m \in Metrics : m = Measured
    BY CountsAreNumbers
  <2>2. PICK status \in {"completed", "error", "timed_out"} :
          status = IF pytest = "killed" THEN "timed_out"
                   ELSE IF Measured.errors > 0 /\ Measured.passed + Measured.failed = 0
                   THEN "error" ELSE "completed"
    OBVIOUS
  <2>3. [type |-> "verdict", metrics |-> m, status |-> status] \in Verdict
    BY DEF Verdict
  <2>4. QED
    BY <2>1, <2>2, <2>3
<1>3. \/ stream = "open" /\ wire' = Append(wire, verdict) /\ dropped' = dropped
      \/ stream # "open" /\ dropped' = TRUE /\ wire' = wire
  BY <1>2 DEF ReportVerdict
<1>4. wire' \in Seq(StepEvent \cup Verdict) /\ dropped' \in BOOLEAN
  <2>1. wire \in Seq(Frame) /\ verdict \in Frame /\ dropped \in BOOLEAN
    BY EventsAreFrames DEF ResultIInv, Frame, ResultTypeOK
  <2>2. dropped' \in BOOLEAN
    BY <1>3, <2>1
  <2>3. Append(wire, verdict) \in Seq(Frame)
    BY <2>1
  <2>4. QED
    BY <1>3, <2>1, <2>2, <2>3 DEF Frame
<1>5. ResultTypeOK' /\ (run \in RunType)'
  BY <1>1, <1>4 DEF ResultIInv, ResultTypeOK
<1>6. EventsAreUnderWay'
  <2> SUFFICES ASSUME ~lost', NEW t \in Tests
               PROVE  (\E handled, published :
                         /\ Leads(chain, t, lastSeen[t], handled)
                         /\ Leads(wire, t, handled, published)
                         /\ Leads(steps, t, published, Outcome(t)))'
    BY DEF EventsAreUnderWay
  <2>1. PICK handled, published : /\ Leads(chain, t, lastSeen[t], handled)
                                  /\ Leads(wire, t, handled, published)
                                  /\ Leads(steps, t, published, Outcome(t))
    BY <1>1 DEF ResultIInv, EventsAreUnderWay
  <2>2. Told(verdict, t, published) = published
    BY <1>2 DEF Told, Tells
  <2>3. Leads(Append(wire, verdict), t, handled, Told(verdict, t, published))
    BY <2>1, LeadsAppend, EventsAreFrames DEF ResultIInv, Frame
  <2>4. Leads(wire', t, handled, published)
    BY <1>3, <2>1, <2>2, <2>3
  <2>5. Outcome(t)' = Outcome(t)
    BY <1>1 DEF Outcome
  <2>6. Leads(chain', t, lastSeen'[t], handled) /\ Leads(steps', t, published, Outcome(t)')
    BY <1>1, <2>1, <2>5
  <2>7. QED
    BY <2>4, <2>6 DEF Leads
<1>7. pytest' = "reported" => Measured' = Measured
  BY <1>1, MeasuredStays
<1>8. wire \in Seq(Frame) /\ Len(wire) \in Nat /\ \A i \in 1..Len(wire) : wire[i].type # "verdict"
  BY <1>1, NoVerdictYet, EventsAreFrames DEF ResultIInv
<1>9. stream = "open" => /\ Len(wire') = Len(wire) + 1 /\ wire'[Len(wire) + 1] = verdict
                         /\ \A i \in 1..Len(wire) : wire'[i] = wire[i]
  BY <1>3, <1>8 DEF Frame
<1>10. VerdictIsMeasured'
  <2>1. Final'
    BY <1>1 DEF Final
  <2>2. \A i \in 1..Len(wire') : wire'[i].type = "verdict" => wire'[i] = verdict
    <3>1. CASE stream = "open"
      BY <1>8, <1>9, <3>1
    <3>2. CASE stream # "open"
      BY <1>3, <1>8, <3>2
    <3>3. QED
      BY <3>1, <3>2
  <2>3. \A i \in 1..Len(wire') : SaysMeasured(wire[i])'
    BY <1>2, <1>7, <2>1, <2>2 DEF SaysMeasured
  <2>4. \A i \in 1..Len(chain') : SaysMeasured(chain[i])'
    BY <1>1, NoVerdictYet DEF SaysMeasured
  <2>5. ~(Settled(run.status) /\ stream # "final")'
    BY <1>1, NoVerdictYet DEF Settled
  <2>6. QED
    BY <2>3, <2>4, <2>5 DEF VerdictIsMeasured
<1>11. VerdictIsUnderWay'
  <2>1. stream = "open" => HasVerdict(wire')
    BY <1>2, <1>8, <1>9 DEF HasVerdict
  <2>2. stream # "open" => dropped'
    BY <1>3
  <2>3. QED
    BY <2>1, <2>2 DEF VerdictIsUnderWay, HasVerdict
<1>12. StagesInOrder'
  BY <1>1, <1>3 DEF ResultIInv, StagesInOrder
<1>13. ReportIsCounted'
  BY <1>1, CountsStay DEF ResultIInv, ReportIsCounted
<1>14. QED
  BY <1>5, <1>6, <1>10, <1>11, <1>12, <1>13 DEF ResultIInv

(* Queues shift: a frame goes from one to the next.                        *)
LEMMA ShiftFacts ==
  ASSUME NEW queue \in Seq(Frame), queue # <<>>, NEW next \in Seq(Frame)
  PROVE  /\ Head(queue) \in Frame /\ Tail(queue) \in Seq(Frame)
         /\ Append(next, Head(queue)) \in Seq(Frame)
         /\ \A i \in 1..Len(Tail(queue)) : \E j \in 1..Len(queue) : Tail(queue)[i] = queue[j]
         /\ \E j \in 1..Len(queue) : Head(queue) = queue[j]
         /\ \A i \in 1..Len(Append(next, Head(queue))) :
              \/ Append(next, Head(queue))[i] = Head(queue)
              \/ \E j \in 1..Len(next) : Append(next, Head(queue))[i] = next[j]
         /\ HasVerdict(queue) => HasVerdict(Tail(queue)) \/ Head(queue).type = "verdict"
         /\ HasVerdict(next) \/ Head(queue).type = "verdict" => HasVerdict(Append(next, Head(queue)))
<1>1. PICK rest \in Seq(Frame), n \in Nat, frame \in Frame :
        /\ rest = Tail(queue) /\ n = Len(rest) /\ Len(queue) = n + 1
        /\ frame = Head(queue) /\ queue[1] = frame /\ \A i \in 1..n : rest[i] = queue[i + 1]
  <2>1. /\ Tail(queue) \in Seq(Frame) /\ Len(Tail(queue)) \in Nat
        /\ Len(queue) = Len(Tail(queue)) + 1
        /\ Head(queue) \in Frame /\ queue[1] = Head(queue)
        /\ \A i \in 1..Len(Tail(queue)) : Tail(queue)[i] = queue[i + 1]
    OBVIOUS
  <2>2. QED
    BY <2>1
<1>2. PICK longer \in Seq(Frame), m \in Nat :
        /\ longer = Append(next, frame) /\ m = Len(next) /\ Len(longer) = m + 1
        /\ longer[m + 1] = frame /\ \A i \in 1..m : longer[i] = next[i]
  <2>1. /\ Append(next, frame) \in Seq(Frame) /\ Len(next) \in Nat
        /\ Len(Append(next, frame)) = Len(next) + 1
        /\ Append(next, frame)[Len(next) + 1] = frame
        /\ \A i \in 1..Len(next) : Append(next, frame)[i] = next[i]
    OBVIOUS
  <2>2. QED
    BY <2>1
<1>3. \A i \in 1..n : i + 1 \in 1..Len(queue) /\ rest[i] = queue[i + 1]
  BY <1>1
<1>4. 1 \in 1..Len(queue)
  BY <1>1
<1>5. \A i \in 1..Len(longer) : longer[i] = frame \/ (i \in 1..m /\ longer[i] = next[i])
  BY <1>2
<1>6. HasVerdict(queue) => HasVerdict(rest) \/ frame.type = "verdict"
  <2> SUFFICES ASSUME NEW i \in 1..Len(queue), queue[i].type = "verdict", frame.type # "verdict"
               PROVE  HasVerdict(rest)
    BY DEF HasVerdict
  <2>1. i # 1
    BY <1>1
  <2>2. i - 1 \in 1..n /\ (i - 1) + 1 = i
    BY <1>1, <2>1
  <2>3. rest[i - 1].type = "verdict"
    BY <1>1, <2>2
  <2>4. QED
    BY <1>1, <2>2, <2>3 DEF HasVerdict
<1>7. HasVerdict(next) \/ frame.type = "verdict" => HasVerdict(longer)
  <2>1. CASE frame.type = "verdict"
    <3>1. m + 1 \in 1..Len(longer) /\ longer[m + 1].type = "verdict"
      BY <1>2, <2>1
    <3>2. QED
      BY <3>1 DEF HasVerdict
  <2>2. ASSUME NEW i \in 1..m, next[i].type = "verdict"
        PROVE  HasVerdict(longer)
    <3>1. i \in 1..Len(longer) /\ longer[i].type = "verdict"
      BY <1>2, <2>2
    <3>2. QED
      BY <3>1 DEF HasVerdict
  <2>3. QED
    BY <1>2, <2>1, <2>2 DEF HasVerdict
<1>8. QED
  BY <1>1, <1>2, <1>3, <1>4, <1>5, <1>6, <1>7

(* The backend reads a frame.                                              *)
LEMMA ReadKeepsResults ==
  ASSUME ResultIInv, ReadFrame
  PROVE  ResultIInv'
<1>1. /\ stream = "open" /\ wire # <<>> /\ chain' = Append(chain, Head(wire)) /\ wire' = Tail(wire)
      /\ UNCHANGED <<fate, reruns, steps, pytest, lastSeen, stream, run, rows, report, lost, dropped>>
  BY DEF ReadFrame
<1>2. wire \in Seq(Frame) /\ chain \in Seq(Frame)
  BY EventsAreFrames DEF ResultIInv
<1>3. PICK frame \in Frame : frame = Head(wire)
  BY <1>1, <1>2, ShiftFacts
<1>4. ResultTypeOK' /\ (run \in RunType)'
  <2>1. wire' \in Seq(Frame) /\ chain' \in Seq(Frame)
    BY <1>1, <1>2, ShiftFacts
  <2>2. QED
    BY <1>1, <2>1 DEF ResultIInv, ResultTypeOK, Frame
<1>5. EventsAreUnderWay'
  <2> SUFFICES ASSUME ~lost', NEW t \in Tests
               PROVE  (\E handled, published :
                         /\ Leads(chain, t, lastSeen[t], handled)
                         /\ Leads(wire, t, handled, published)
                         /\ Leads(steps, t, published, Outcome(t)))'
    BY DEF EventsAreUnderWay
  <2>1. PICK handled, published : /\ Leads(chain, t, lastSeen[t], handled)
                                  /\ Leads(wire, t, handled, published)
                                  /\ Leads(steps, t, published, Outcome(t))
    BY <1>1 DEF ResultIInv, EventsAreUnderWay
  <2>2. Leads(chain', t, lastSeen[t], Told(frame, t, handled))
    BY <1>1, <1>2, <1>3, <2>1, LeadsAppend
  <2>3. Leads(wire', t, Told(frame, t, handled), published)
    BY <1>1, <1>2, <1>3, <2>1, LeadsTail
  <2>4. Outcome(t)' = Outcome(t)
    BY <1>1 DEF Outcome
  <2>5. Leads(chain', t, lastSeen'[t], Told(frame, t, handled)) /\ Leads(steps', t, published, Outcome(t)')
    BY <1>1, <2>1, <2>2, <2>4
  <2>6. QED
    BY <2>3, <2>5 DEF Leads
<1>6. Measured' = Measured
  BY <1>1, MeasuredStays
<1>7. VerdictIsMeasured'
  <2>1. \A f : SaysMeasured(f)' <=> SaysMeasured(f)
    BY <1>1, <1>6 DEF SaysMeasured, Final
  <2>2. \A i \in 1..Len(wire') : SaysMeasured(wire'[i])
    BY <1>1, <1>2, ShiftFacts DEF ResultIInv, VerdictIsMeasured
  <2>3. \A i \in 1..Len(chain') : SaysMeasured(chain'[i])
    BY <1>1, <1>2, ShiftFacts DEF ResultIInv, VerdictIsMeasured
  <2>4. \A i \in 1..Len(wire') : SaysMeasured(wire[i])'
    BY <1>1, <1>6, <2>2 DEF SaysMeasured, Final
  <2>5. \A i \in 1..Len(chain') : SaysMeasured(chain[i])'
    BY <1>1, <1>6, <2>3 DEF SaysMeasured, Final
  <2>6. QED
    BY <1>1, <1>6, <2>4, <2>5 DEF ResultIInv, VerdictIsMeasured, Settled, Final
<1>8. VerdictIsUnderWay'
  <2>1. HasVerdict(wire) \/ HasVerdict(chain) => HasVerdict(wire') \/ HasVerdict(chain')
    BY <1>1, <1>2, ShiftFacts
  <2>2. QED
    BY <1>1, <1>6, <2>1 DEF ResultIInv, VerdictIsUnderWay, HasVerdict
<1>9. StagesInOrder'
  BY <1>1 DEF ResultIInv, StagesInOrder
<1>10. ReportIsCounted'
  BY <1>1, CountsStay DEF ResultIInv, ReportIsCounted
<1>11. QED
  BY <1>4, <1>5, <1>7, <1>8, <1>9, <1>10 DEF ResultIInv

(* The stream ends: what was on the wire is lost.                          *)
LEMMA EndKeepsIInv ==
  ASSUME ResultIInv, NEW broken \in BOOLEAN, EndStream(broken)
  PROVE  ResultIInv'
<1>1. /\ stream = "open" /\ stream' = "ended" /\ wire' = <<>>
      /\ UNCHANGED <<fate, reruns, steps, pytest, chain, lastSeen, run, rows, report>>
  BY DEF EndStream
<1>2. wire \in Seq(Frame) /\ DOMAIN wire = 1..Len(wire)
  BY EventsAreFrames DEF ResultIInv
<1>3. /\ lost' = (lost \/ \E i \in 1..Len(wire) : wire[i].type = "test")
      /\ dropped' = (dropped \/ HasVerdict(wire))
  BY <1>2 DEF EndStream, HasVerdict
<1>4. wire' \in Seq(StepEvent \cup Verdict) /\ lost' \in BOOLEAN /\ dropped' \in BOOLEAN
  BY <1>1, <1>3 DEF ResultIInv, ResultTypeOK
<1>5. ResultTypeOK' /\ (run \in RunType)'
  BY <1>1, <1>4 DEF ResultIInv, ResultTypeOK
<1>6. EventsAreUnderWay'
  <2> SUFFICES ASSUME ~lost', NEW t \in Tests
               PROVE  (\E handled, published :
                         /\ Leads(chain, t, lastSeen[t], handled)
                         /\ Leads(wire, t, handled, published)
                         /\ Leads(steps, t, published, Outcome(t)))'
    BY DEF EventsAreUnderWay
  <2>1. ~lost /\ \A i \in 1..Len(wire) : wire[i].type # "test"
    BY <1>3
  <2>2. PICK handled, published : /\ Leads(chain, t, lastSeen[t], handled)
                                  /\ Leads(wire, t, handled, published)
                                  /\ Leads(steps, t, published, Outcome(t))
    BY <2>1 DEF ResultIInv, EventsAreUnderWay
  <2>3. published = handled
    BY <2>1, <2>2 DEF Leads, Tells
  <2>4. Leads(wire', t, handled, published)
    BY <1>1, <2>3, LeadsEmpty
  <2>5. Outcome(t)' = Outcome(t)
    BY <1>1 DEF Outcome
  <2>6. Leads(chain', t, lastSeen'[t], handled) /\ Leads(steps', t, published, Outcome(t)')
    BY <1>1, <2>2, <2>5
  <2>7. QED
    BY <2>4, <2>6 DEF Leads
<1>7. Measured' = Measured
  BY <1>1, MeasuredStays
<1>8. VerdictIsMeasured'
  <2>1. Len(wire') = 0
    BY <1>1
  <2>2. QED
    BY <1>1, <1>7, <2>1 DEF ResultIInv, VerdictIsMeasured, SaysMeasured, Settled, Final
<1>9. VerdictIsUnderWay'
  <2>1. ~dropped' => ~dropped /\ ~HasVerdict(wire)
    BY <1>3
  <2>2. QED
    BY <1>1, <1>7, <2>1 DEF ResultIInv, VerdictIsUnderWay, HasVerdict
<1>10. StagesInOrder'
  BY <1>1 DEF ResultIInv, StagesInOrder
<1>11. ReportIsCounted'
  BY <1>1, CountsStay DEF ResultIInv, ReportIsCounted
<1>12. QED
  BY <1>5, <1>6, <1>8, <1>9, <1>10, <1>11 DEF ResultIInv

(* The last handler on the chain settles, or its event cannot be stored.   *)
LEMMA OutcomesOfRuns ==
  ASSUME NEW m
  PROVE  OutcomeFrom(m) \in Ends
BY DEF OutcomeFrom, Ends

LEMMA HandleKeepsIInv ==
  ASSUME ResultIInv, HandleFrame
  PROVE  ResultIInv'
<1>1. /\ chain # <<>> /\ chain' = Tail(chain)
      /\ UNCHANGED <<fate, reruns, steps, pytest, wire, stream, rows, report, lost, dropped>>
  BY DEF HandleFrame
<1>2. chain \in Seq(Frame)
  BY EventsAreFrames DEF ResultIInv
<1>3. PICK frame \in Frame : frame = Head(chain) /\ SaysMeasured(frame)
  BY <1>1, <1>2, ShiftFacts DEF ResultIInv, VerdictIsMeasured
<1>4. stream \in {"open", "ended"}
  BY <1>1 DEF ResultIInv, StagesInOrder, ResultTypeOK
<1>5. /\ lastSeen' \in [Tests -> Reported \cup {"none"}]
      /\ \A t \in Tests : lastSeen'[t] = Told(frame, t, lastSeen[t])
  <2>1. lastSeen \in [Tests -> Reported \cup {"none"}]
    BY DEF ResultIInv, ResultTypeOK
  <2>2. CASE frame.type = "test"
    <3>1. frame.test \in Tests /\ frame.outcome \in Reported
      BY <2>2, EventsAreFrames DEF ResultIInv, StepEvent
    <3>2. lastSeen' = [lastSeen EXCEPT ![frame.test] = frame.outcome]
      BY <1>3, <2>2 DEF HandleFrame, WithOutcome
    <3>3. QED
      BY <2>1, <2>2, <3>1, <3>2 DEF Told, Tells
  <2>3. CASE frame.type # "test"
    <3>1. lastSeen' = lastSeen
      BY <1>3, <2>3 DEF HandleFrame
    <3>2. QED
      BY <2>1, <2>3, <3>1 DEF Told, Tells
  <2>4. QED
    BY <2>2, <2>3
<1>6. \/ run' = run /\ (frame.type = "verdict" => Settled(run.status))
      \/ /\ frame.type = "verdict" /\ run' \in RunType /\ run'.metrics = frame.metrics
  <2>1. CASE frame.type = "verdict" /\ ~Settled(run.status)
    <3>1. frame.metrics \in Metrics
      BY <2>1, EventsAreFrames DEF ResultIInv, Verdict
    <3>2. PICK status \in Ends :
            status = CASE frame.status = "timed_out" -> "timed_out"
                       [] frame.status = "error" -> "failed"
                       [] OTHER -> OutcomeFrom(frame.metrics)
      BY OutcomesOfRuns DEF Ends
    <3>3. run' = [status |-> status, metrics |-> frame.metrics]
      BY <1>3, <2>1, <3>2 DEF HandleFrame
    <3>4. QED
      BY <2>1, <3>1, <3>3 DEF RunType
  <2>2. CASE ~(frame.type = "verdict" /\ ~Settled(run.status))
    BY <1>3, <2>2 DEF HandleFrame
  <2>3. QED
    BY <2>1, <2>2
<1>7. ResultTypeOK' /\ (run \in RunType)'
  <2>1. chain' \in Seq(Frame)
    BY <1>1, <1>2, ShiftFacts
  <2>2. run' \in RunType
    BY <1>6 DEF ResultIInv
  <2>3. run'.status \in Ends \cup {"running"} /\ run'.metrics \in Metrics
    BY <2>2 DEF RunType
  <2>4. QED
    BY <1>1, <1>5, <2>1, <2>2, <2>3 DEF ResultIInv, ResultTypeOK, Frame
<1>8. EventsAreUnderWay'
  <2> SUFFICES ASSUME ~lost', NEW t \in Tests
               PROVE  (\E handled, published :
                         /\ Leads(chain, t, lastSeen[t], handled)
                         /\ Leads(wire, t, handled, published)
                         /\ Leads(steps, t, published, Outcome(t)))'
    BY DEF EventsAreUnderWay
  <2>1. PICK handled, published : /\ Leads(chain, t, lastSeen[t], handled)
                                  /\ Leads(wire, t, handled, published)
                                  /\ Leads(steps, t, published, Outcome(t))
    BY <1>1 DEF ResultIInv, EventsAreUnderWay
  <2>2. Leads(chain', t, lastSeen'[t], handled)
    BY <1>1, <1>2, <1>3, <1>5, <2>1, LeadsTail
  <2>3. Outcome(t)' = Outcome(t)
    BY <1>1 DEF Outcome
  <2>4. Leads(wire', t, handled, published) /\ Leads(steps', t, published, Outcome(t)')
    BY <1>1, <2>1, <2>3
  <2>5. QED
    BY <2>2, <2>4 DEF Leads
<1>9. Measured' = Measured
  BY <1>1, MeasuredStays
<1>10. \/ Final /\ (pytest = "reported" => run'.metrics = Measured)
       \/ run' = run
  BY <1>3, <1>6 DEF SaysMeasured
<1>11. VerdictIsMeasured'
  <2>1. \A i \in 1..Len(chain') : SaysMeasured(chain'[i])
    BY <1>1, <1>2, ShiftFacts DEF ResultIInv, VerdictIsMeasured
  <2>2. \A i \in 1..Len(chain') : SaysMeasured(chain[i])'
    BY <1>1, <1>9, <2>1 DEF SaysMeasured, Final
  <2>3. \A i \in 1..Len(wire') : SaysMeasured(wire[i])'
    BY <1>1, <1>9 DEF ResultIInv, VerdictIsMeasured, SaysMeasured, Final
  <2>4. (Settled(run.status) /\ stream # "final" =>
           Final /\ (pytest = "reported" => run.metrics = Measured))'
    BY <1>1, <1>9, <1>10 DEF ResultIInv, VerdictIsMeasured, Final, Settled
  <2>5. QED
    BY <2>2, <2>3, <2>4 DEF VerdictIsMeasured
<1>12. VerdictIsUnderWay'
  <2> SUFFICES ASSUME pytest' = "reported", ~dropped'
               PROVE  (run.metrics = Measured \/ HasVerdict(wire) \/ HasVerdict(chain))'
    BY DEF VerdictIsUnderWay
  <2>1. CASE frame.type = "verdict"
    <3>1. run'.metrics = Measured
      <4>1. Settled(run.status) => run.metrics = Measured
        BY <1>1, <1>4 DEF ResultIInv, VerdictIsMeasured
      <4>2. frame.metrics = Measured
        BY <1>1, <1>3, <2>1 DEF SaysMeasured
      <4>3. QED
        BY <1>6, <2>1, <4>1, <4>2
    <3>2. QED
      BY <1>9, <3>1
  <2>2. CASE frame.type # "verdict"
    <3>1. run' = run
      BY <1>6, <2>2
    <3>2. HasVerdict(chain) => HasVerdict(chain')
      BY <1>1, <1>2, <1>3, <2>2, ShiftFacts
    <3>3. run.metrics = Measured \/ HasVerdict(wire) \/ HasVerdict(chain)
      BY <1>1 DEF ResultIInv, VerdictIsUnderWay
    <3>4. QED
      BY <1>1, <1>9, <3>1, <3>2, <3>3 DEF HasVerdict
  <2>3. QED
    BY <2>1, <2>2
<1>13. StagesInOrder'
  BY <1>1, <1>4 DEF ResultIInv, StagesInOrder
<1>14. ReportIsCounted'
  BY <1>1, CountsStay DEF ResultIInv, ReportIsCounted
<1>15. QED
  BY <1>7, <1>8, <1>11, <1>12, <1>13, <1>14 DEF ResultIInv

LEMMA FailFrameKeepsIInv ==
  ASSUME ResultIInv, FailFrame
  PROVE  ResultIInv'
<1>1. /\ chain # <<>> /\ chain' = Tail(chain)
      /\ lost' = (lost \/ Head(chain).type = "test")
      /\ dropped' = (dropped \/ Head(chain).type = "verdict")
      /\ UNCHANGED <<fate, reruns, steps, pytest, wire, lastSeen, stream, run, rows, report>>
  BY DEF FailFrame
<1>2. chain \in Seq(Frame)
  BY EventsAreFrames DEF ResultIInv
<1>3. PICK frame \in Frame : frame = Head(chain)
  BY <1>1, <1>2, ShiftFacts
<1>4. ResultTypeOK' /\ (run \in RunType)'
  <2>1. chain' \in Seq(Frame)
    BY <1>1, <1>2, ShiftFacts
  <2>2. lost' \in BOOLEAN /\ dropped' \in BOOLEAN
    BY <1>1
  <2>3. QED
    BY <1>1, <2>1, <2>2 DEF ResultIInv, ResultTypeOK, Frame
<1>5. EventsAreUnderWay'
  <2> SUFFICES ASSUME ~lost', NEW t \in Tests
               PROVE  (\E handled, published :
                         /\ Leads(chain, t, lastSeen[t], handled)
                         /\ Leads(wire, t, handled, published)
                         /\ Leads(steps, t, published, Outcome(t)))'
    BY DEF EventsAreUnderWay
  <2>1. ~lost /\ frame.type # "test"
    BY <1>1, <1>3
  <2>2. PICK handled, published : /\ Leads(chain, t, lastSeen[t], handled)
                                  /\ Leads(wire, t, handled, published)
                                  /\ Leads(steps, t, published, Outcome(t))
    BY <2>1 DEF ResultIInv, EventsAreUnderWay
  <2>3. Told(frame, t, lastSeen[t]) = lastSeen[t]
    BY <2>1 DEF Told, Tells
  <2>4. Leads(Tail(chain), t, Told(frame, t, lastSeen[t]), handled)
    BY <1>1, <1>2, <1>3, <2>2, LeadsTail
  <2>5. Outcome(t)' = Outcome(t)
    BY <1>1 DEF Outcome
  <2>6. /\ Leads(chain', t, lastSeen'[t], handled) /\ Leads(wire', t, handled, published)
        /\ Leads(steps', t, published, Outcome(t)')
    BY <1>1, <2>2, <2>3, <2>4, <2>5
  <2>7. QED
    BY <2>6 DEF Leads
<1>6. Measured' = Measured
  BY <1>1, MeasuredStays
<1>7. VerdictIsMeasured'
  <2>1. \A i \in 1..Len(chain') : SaysMeasured(chain'[i])
    BY <1>1, <1>2, ShiftFacts DEF ResultIInv, VerdictIsMeasured
  <2>2. \A i \in 1..Len(chain') : SaysMeasured(chain[i])'
    BY <1>1, <1>6, <2>1 DEF SaysMeasured, Final
  <2>3. QED
    BY <1>1, <1>6, <2>2 DEF ResultIInv, VerdictIsMeasured, SaysMeasured, Final, Settled
<1>8. VerdictIsUnderWay'
  <2>1. ~dropped' => ~dropped /\ frame.type # "verdict"
    BY <1>1, <1>3
  <2>2. frame.type # "verdict" /\ HasVerdict(chain) => HasVerdict(chain')
    BY <1>1, <1>2, <1>3, ShiftFacts
  <2>3. QED
    BY <1>1, <1>6, <2>1, <2>2 DEF ResultIInv, VerdictIsUnderWay, HasVerdict
<1>9. StagesInOrder'
  BY <1>1 DEF ResultIInv, StagesInOrder, ResultTypeOK
<1>10. ReportIsCounted'
  BY <1>1, CountsStay DEF ResultIInv, ReportIsCounted
<1>11. QED
  BY <1>4, <1>5, <1>7, <1>8, <1>9, <1>10 DEF ResultIInv

(* The rows are stored, the run is settled, a report is asked for or built. *)
LEMMA VerdictStays ==
  ASSUME ResultIInv, UNCHANGED <<fate, reruns, pytest, wire, chain, dropped>>,
         run'.metrics = run.metrics,
         stream' = "final" \/ (run' = run /\ (stream' # "final" => stream # "final"))
  PROVE  VerdictIsMeasured' /\ VerdictIsUnderWay'
<1>1. Measured' = Measured
  BY MeasuredStays
<1>2. VerdictIsMeasured'
  <2>1. /\ \A i \in 1..Len(wire') : SaysMeasured(wire[i])'
        /\ \A i \in 1..Len(chain') : SaysMeasured(chain[i])'
    BY <1>1 DEF ResultIInv, VerdictIsMeasured, SaysMeasured, Final
  <2>2. (Settled(run.status) /\ stream # "final" =>
           Final /\ (pytest = "reported" => run.metrics = Measured))'
    BY <1>1 DEF ResultIInv, VerdictIsMeasured, Settled, Final
  <2>3. QED
    BY <2>1, <2>2 DEF VerdictIsMeasured
<1>3. VerdictIsUnderWay'
  BY <1>1 DEF ResultIInv, VerdictIsUnderWay, HasVerdict
<1>4. QED
  BY <1>2, <1>3

LEMMA StoreKeepsIInv ==
  ASSUME ResultIInv, StoreResults
  PROVE  ResultIInv'
<1>1. /\ stream = "ended" /\ chain = <<>> /\ stream' = "stored"
      /\ UNCHANGED <<fate, reruns, steps, pytest, wire, chain, lastSeen, run, report, lost, dropped>>
  BY DEF StoreResults, Drained
<1>2. rows' = lastSeen
  BY <1>1 DEF StoreResults, ResultIInv, StagesInOrder
<1>3. ResultTypeOK' /\ (run \in RunType)'
  BY <1>1, <1>2 DEF ResultIInv, ResultTypeOK
<1>4. EventsAreUnderWay'
  BY <1>1, EventsStay
<1>5. VerdictIsMeasured' /\ VerdictIsUnderWay'
  BY <1>1, VerdictStays
<1>6. StagesInOrder'
  BY <1>1, <1>2 DEF ResultIInv, StagesInOrder
<1>7. ReportIsCounted'
  BY <1>1 DEF ResultIInv, ReportIsCounted
<1>8. QED
  BY <1>3, <1>4, <1>5, <1>6, <1>7 DEF ResultIInv

LEMMA SettleKeepsIInv ==
  ASSUME ResultIInv, SettleRun
  PROVE  ResultIInv'
<1>1. /\ stream = "stored" /\ stream' = "final"
      /\ UNCHANGED <<fate, reruns, steps, pytest, wire, chain, lastSeen, rows, report, lost, dropped>>
  BY DEF SettleRun
<1>2. run' \in RunType /\ run'.metrics = run.metrics
  <2>1. CASE Settled(run.status)
    BY <2>1 DEF SettleRun, ResultIInv
  <2>2. CASE ~Settled(run.status)
    <3>1. PICK status \in Ends : status = OutcomeFrom(run.metrics)
      BY OutcomesOfRuns
    <3>2. run' = [run EXCEPT !.status = status]
      BY <2>2, <3>1 DEF SettleRun
    <3>3. QED
      BY <3>2 DEF ResultIInv, RunType
  <2>3. QED
    BY <2>1, <2>2
<1>3. ResultTypeOK' /\ (run \in RunType)'
  <2>1. run'.status \in Ends \cup {"running"} /\ run'.metrics \in Metrics
    BY <1>2 DEF RunType
  <2>2. QED
    BY <1>1, <1>2, <2>1 DEF ResultIInv, ResultTypeOK
<1>4. EventsAreUnderWay'
  BY <1>1, EventsStay
<1>5. VerdictIsMeasured' /\ VerdictIsUnderWay'
  BY <1>1, <1>2, VerdictStays
<1>6. StagesInOrder'
  BY <1>1 DEF ResultIInv, StagesInOrder
<1>7. ReportIsCounted'
  BY <1>1 DEF ResultIInv, ReportIsCounted
<1>8. QED
  BY <1>3, <1>4, <1>5, <1>6, <1>7 DEF ResultIInv

LEMMA ReportKeepsIInv ==
  ASSUME ResultIInv, AskForReport \/ BuildReport
  PROVE  ResultIInv'
<1>1. UNCHANGED <<fate, reruns, steps, pytest, wire, chain, lastSeen, stream, run, rows, lost, dropped>>
  BY DEF AskForReport, BuildReport
<1>2. report'.state \in {"none", "requested", "stored"} /\ ReportIsCounted'
  <2>1. CASE AskForReport
    <3>1. report' = [state |-> "requested", of |-> run, counts |-> <<>>, late |-> FALSE]
      BY <2>1 DEF AskForReport
    <3>2. QED
      BY <3>1 DEF ReportIsCounted, ResultIInv
  <2>2. CASE BuildReport
    <3>0. PICK late \in BOOLEAN : late = (stream = "final")
      OBVIOUS
    <3>1. PICK counts : counts = BuildCounts(report.of.metrics)
      OBVIOUS
    <3>2. report' = [report EXCEPT !.state = "stored", !.counts = counts, !.late = late]
      BY <2>2, <3>0, <3>1 DEF BuildReport
    <3>3. report' = [state |-> "stored", of |-> report.of, counts |-> counts, late |-> late]
      BY <3>2 DEF ResultIInv, ReportIsCounted
    <3>4. report'.of = report.of /\ report.of \in RunType
      BY <3>3 DEF ResultIInv, ReportIsCounted
    <3>5. BuildCounts(report.of.metrics)' = counts
      <4>1. \A m : BuildCounts(m)' = BuildCounts(m)
        BY <1>1, CountsStay
      <4>2. QED
        BY <3>1, <3>4, <4>1
    <3>6. QED
      BY <1>1, <3>0, <3>3, <3>4, <3>5 DEF ReportIsCounted
  <2>3. QED
    BY <2>1, <2>2
<1>3. ResultTypeOK' /\ (run \in RunType)'
  BY <1>1, <1>2 DEF ResultIInv, ResultTypeOK
<1>4. EventsAreUnderWay'
  BY <1>1, EventsStay
<1>5. VerdictIsMeasured' /\ VerdictIsUnderWay'
  BY <1>1, VerdictStays
<1>6. StagesInOrder'
  BY <1>1 DEF ResultIInv, StagesInOrder
<1>7. QED
  BY <1>2, <1>3, <1>4, <1>5, <1>6 DEF ResultIInv

LEMMA ResultStepIInv ==
  ASSUME IsFiniteSet(Tests), MaxReruns \in Nat, QueueLimit \in Nat \ {0},
         ResultIInv, [ResultNext]_resultVars
  PROVE  ResultIInv'
<1>1. CASE UNCHANGED resultVars
  <2>1. UNCHANGED <<fate, reruns, steps, pytest, wire, chain, lastSeen, stream, run, rows, report,
                    lost, dropped>>
    BY <1>1 DEF resultVars
  <2>2. ResultTypeOK' /\ (run \in RunType)'
    BY <2>1 DEF ResultIInv, ResultTypeOK
  <2>3. EventsAreUnderWay' /\ VerdictIsMeasured' /\ VerdictIsUnderWay'
    BY <2>1, EventsStay, VerdictStays
  <2>4. StagesInOrder' /\ ReportIsCounted'
    BY <2>1, CountsStay DEF ResultIInv, StagesInOrder, ReportIsCounted
  <2>5. QED
    BY <2>2, <2>3, <2>4 DEF ResultIInv
<1>2. QED
  BY <1>1, TestKeepsIInv, SendKeepsIInv, ExitKeepsIInv, VerdictKeepsIInv, ReadKeepsResults,
     EndKeepsIInv, HandleKeepsIInv, FailFrameKeepsIInv, StoreKeepsIInv, SettleKeepsIInv,
     ReportKeepsIInv
  DEF ResultNext

(* At the end nothing is under way: rows tell what pytest made of the      *)
(* tests, and the metrics are what it measured.                            *)
LEMMA VerdictIsIn ==
  ASSUME ResultIInv
  PROVE  VerdictIsApplied
<1>1. stream = "final" => Len(wire) = 0 /\ Len(chain) = 0
  BY DEF ResultIInv, StagesInOrder
<1>2. stream = "final" => ~HasVerdict(wire) /\ ~HasVerdict(chain)
  BY <1>1 DEF HasVerdict
<1>3. QED
  BY <1>2 DEF VerdictIsApplied, ResultIInv, VerdictIsUnderWay

LEMMA RowsAreOutcomes ==
  ASSUME ResultIInv, stream = "final", ~lost, pytest = "reported", NEW t \in Tests
  PROVE  rows[t] = Outcome(t) /\ fate[t] \in Reported \cup {"error"}
<1>1. chain = <<>> /\ wire = <<>> /\ steps = <<>> /\ rows = lastSeen /\ fate[t] # "none"
  BY DEF ResultIInv, StagesInOrder
<1>2. PICK handled, published : /\ Leads(chain, t, lastSeen[t], handled)
                                /\ Leads(wire, t, handled, published)
                                /\ Leads(steps, t, published, Outcome(t))
  BY DEF ResultIInv, EventsAreUnderWay
<1>3. Outcome(t) = lastSeen[t]
  BY <1>1, <1>2, LeadsEmpty
<1>4. QED
  BY <1>1, <1>3 DEF ResultIInv, ResultTypeOK

LEMMA ReportIsIn ==
  ASSUME IsFiniteSet(Tests), MaxReruns \in Nat, ResultIInv
  PROVE  ReportIsOfRun
<1> SUFFICES ASSUME report.late, ~lost, ~dropped, pytest = "reported", run.status # "timed_out",
                    report.of = run, AnyRow
             PROVE  /\ report.counts.passed = Count(fate, "passed")
                    /\ report.counts.failed =
                         Cardinality({t \in Tests : fate[t] = "failed" \/ (fate[t] = "error" /\ reruns[t] > 0)})
                    /\ report.counts.skipped = Count(fate, "skipped")
                    /\ report.counts.total = Cardinality(Tests)
  BY DEF ReportIsOfRun
<1>1. stream = "final" /\ report.counts = BuildCounts(run.metrics)
  BY DEF ResultIInv, ReportIsCounted
<1>2. run.metrics = Measured
  BY <1>1, VerdictIsIn DEF VerdictIsApplied
<1>3. run.metrics.known /\ run.metrics.total = Cardinality(Tests)
  BY <1>2 DEF Measured
<1> DEFINE P == {t \in Tests : rows[t] \in {"passed"}}
           F == {t \in Tests : rows[t] \in {"failed"}}
           S == {t \in Tests : rows[t] \in {"skipped"}}
           B == {t \in Tests : rows[t] \in {"error", "blocked"}}
           Y == {t \in Tests : rows[t] \in {"flaky"}}
<1>4. \A t \in Tests : rows[t] = Outcome(t) /\ fate[t] \in Reported \cup {"error"}
  BY <1>1, RowsAreOutcomes
<1>5. /\ P = {t \in Tests : fate[t] = "passed"}
      /\ F = {t \in Tests : fate[t] = "failed" \/ (fate[t] = "error" /\ reruns[t] > 0)}
      /\ S = {t \in Tests : fate[t] = "skipped"}
      /\ B = {} /\ Y = {}
  BY <1>4 DEF Outcome, Reported
<1>6. Cardinality(B) = 0 /\ Cardinality(Y) = 0
  BY <1>5, FS_EmptySet
<1>7. Cardinality(P) \in Nat /\ Cardinality(F) \in Nat /\ Cardinality(S) \in Nat
      /\ Cardinality(Tests) \in Nat /\ Cardinality(P) + Cardinality(F) + Cardinality(S) <= Cardinality(Tests)
  <2>1. IsFiniteSet(P) /\ IsFiniteSet(F) /\ IsFiniteSet(S)
    BY FS_Subset
  <2>2. P \cap F = {} /\ (P \cup F) \cap S = {} /\ P \cup F \cup S \subseteq Tests
    OBVIOUS
  <2>3. Cardinality(P) \in Nat /\ Cardinality(F) \in Nat /\ Cardinality(S) \in Nat
        /\ Cardinality(Tests) \in Nat
    BY <2>1, FS_CardinalityType
  <2> HIDE DEF P, F, S
  <2>4. IsFiniteSet(P \cup F) /\ Cardinality(P \cup F) = Cardinality(P) + Cardinality(F)
    <3>1. Cardinality(P \cap F) = 0
      BY <2>2, FS_EmptySet
    <3>2. QED
      BY <2>1, <2>3, <3>1, FS_Union
  <2>5. Cardinality((P \cup F) \cup S) = Cardinality(P) + Cardinality(F) + Cardinality(S)
    <3>1. Cardinality((P \cup F) \cap S) = 0
      BY <2>2, FS_EmptySet
    <3>2. Cardinality((P \cup F) \cup S)
            = Cardinality(P \cup F) + Cardinality(S) - Cardinality((P \cup F) \cap S)
      BY <2>1, <2>4, FS_Union
    <3>3. QED
      BY <2>3, <2>4, <3>1, <3>2
  <2>6. Cardinality((P \cup F) \cup S) <= Cardinality(Tests)
    BY <2>2, FS_Subset
  <2>7. QED
    BY <2>3, <2>5, <2>6
<1>8. /\ report.counts.passed = Cardinality(P) /\ report.counts.failed = Cardinality(F)
      /\ report.counts.skipped = Cardinality(S)
      /\ LET executed == Cardinality(P) + Cardinality(F) + Cardinality(S) + Cardinality(B) + Cardinality(Y)
         IN  report.counts.total = IF run.metrics.total > executed THEN run.metrics.total ELSE executed
  BY <1>1, <1>3 DEF BuildCounts
<1>9. report.counts.total = Cardinality(Tests)
  <2> HIDE DEF P, F, S, B, Y
  <2>1. QED
    BY <1>3, <1>6, <1>7, <1>8
<1>10. QED
  BY <1>5, <1>8, <1>9 DEF Count

(* Whatever is dropped, cut off and handled late: when a run is settled, a *)
(* verdict of the engine that was read has been applied, so that a green   *)
(* run is never filed as failed with empty metrics.                        *)
THEOREM VerdictsAreApplied ==
  ASSUME IsFiniteSet(Tests), MaxReruns \in Nat, QueueLimit \in Nat \ {0}
  PROVE  ResultSpec => [](ResultTypeOK /\ VerdictIsApplied)
<1>1. ResultInit => ResultIInv
  BY ResultInitIInv
<1>2. ResultIInv /\ [ResultNext]_resultVars => ResultIInv'
  BY ResultStepIInv
<1>3. ResultIInv => ResultTypeOK /\ VerdictIsApplied
  BY VerdictIsIn DEF ResultIInv
<1>4. QED
  BY <1>1, <1>2, <1>3, PTL DEF ResultSpec

(* A report that is built after finalize() counts what the tests of the    *)
(* run did, however its events were queued and handled, if none was lost.  *)
THEOREM RunsAreReported ==
  ASSUME IsFiniteSet(Tests), MaxReruns \in Nat, QueueLimit \in Nat \ {0}
  PROVE  ResultSpec => []ReportIsOfRun
<1>1. ResultInit => ResultIInv
  BY ResultInitIInv
<1>2. ResultIInv /\ [ResultNext]_resultVars => ResultIInv'
  BY ResultStepIInv
<1>3. ResultIInv => ReportIsOfRun
  BY ReportIsIn
<1>4. QED
  BY <1>1, <1>2, <1>3, PTL DEF ResultSpec

-----------------------------------------------------------------------------
(* Comparisons.  The results of a run are stored once: what a request has  *)
(* read of a run that had results when it was asked is what the run has.   *)
ComparePage == [runs : {"asked", "answered", "lost", "known"}, marked : Pickables \cup {NoPick},
          baseline : Pickables \cup {NoPick}, candidate : Pickables \cup {NoPick},
          shown : Nat]

Buckets == {"new", "missing", "skipped", "regression", "fix", "still_failing", "stable"}
Classified == UNION {[tests -> Buckets] : tests \in SUBSET Suite}

Comparison == [baseline : Pickables, candidate : Pickables, result : Classified,
               hasRegressions : BOOLEAN, recorded : BOOLEAN]

Request == [pc : {"asked", "baseline", "both", "saved"}, baseline : Pickables, candidate : Pickables,
            base : Results, current : Results, recorded : BOOLEAN]

ComparedTyped ==
  /\ testRows \in [Pickables -> Results]
  /\ comparisons \in Seq(Comparison) /\ Len(comparisons) <= MaxComparisons
  /\ comparing \in Request \cup {NotComparing}
  /\ comparePage \in ComparePage /\ comparePage.shown <= Len(comparisons)
  /\ history \in H!Query

(* A request that is under way has a place for its comparison, and one     *)
(* that was answered has taken it.                                         *)
PlaceIsKept ==
  /\ comparing.pc \in {"asked", "baseline", "both"} => Len(comparisons) < MaxComparisons
  /\ comparing.pc = "saved" => Len(comparisons) > 0

HasResults(r) == testRows[r] # NoResults

ReadIsStored ==
  comparing.pc # "idle" /\ comparing.recorded =>
    /\ HasResults(comparing.baseline) /\ HasResults(comparing.candidate)
    /\ comparing.pc # "asked" => comparing.base = testRows[comparing.baseline]
    /\ comparing.pc \in {"both", "saved"} => comparing.current = testRows[comparing.candidate]

StoredIsOf(c) ==
  c.recorded =>
    /\ HasResults(c.baseline) /\ HasResults(c.candidate)
    /\ c.result = CompareRuns(testRows[c.baseline], testRows[c.candidate])
    /\ c.hasRegressions = HasRegressions(c.result)

ComparisonsAreOfRows == \A i \in 1..Len(comparisons) : StoredIsOf(comparisons[i])

RegressionIInv == ComparedTyped /\ PlaceIsKept /\ ReadIsStored /\ ComparisonsAreOfRows

(* What the engine makes of two results.                                   *)
LEMMA CompareRunsFacts ==
  ASSUME NEW baseline \in Results, NEW current \in Results
  PROVE  /\ CompareRuns(baseline, current) \in Classified
         /\ HasRegressions(CompareRuns(baseline, current)) \in BOOLEAN
         /\ \A t \in DOMAIN CompareRuns(baseline, current) :
              CompareRuns(baseline, current)[t] = "regression" <=>
                /\ t \in DOMAIN baseline /\ baseline[t] = "passed"
                /\ t \in DOMAIN current /\ current[t] \in {"failed", "error"}
         /\ DOMAIN CompareRuns(baseline, current) = DOMAIN baseline \cup DOMAIN current
         /\ DOMAIN baseline \subseteq Suite /\ DOMAIN current \subseteq Suite
<1>1. PICK B \in SUBSET Suite : baseline \in [B -> TestOutcomes]
  BY DEF Results
<1>2. PICK C \in SUBSET Suite : current \in [C -> TestOutcomes]
  BY DEF Results
<1>3. \A o \in TestOutcomes : /\ StatusOf(o) \in {"pass", "fail", "skip"}
                              /\ StatusOf(o) = "pass" <=> o = "passed"
                              /\ StatusOf(o) = "fail" <=> o \in {"failed", "error"}
  BY DEF StatusOf, TestOutcomes
<1>4. ASSUME NEW t \in B \cup C
      PROVE  /\ Bucket(baseline, current, t) \in Buckets
             /\ Bucket(baseline, current, t) = "regression" <=>
                  /\ t \in B /\ baseline[t] = "passed"
                  /\ t \in C /\ current[t] \in {"failed", "error"}
  <2>1. CASE t \notin B
    BY <2>1, <1>1 DEF Bucket, Buckets
  <2>2. CASE t \in B /\ t \notin C
    BY <2>2, <1>1, <1>2 DEF Bucket, Buckets
  <2>3. CASE t \in B /\ t \in C
    <3>1. PICK before \in {"pass", "fail", "skip"}, now \in {"pass", "fail", "skip"} :
            before = StatusOf(baseline[t]) /\ now = StatusOf(current[t])
      BY <1>1, <1>2, <1>3, <2>3
    <3>2. Bucket(baseline, current, t) =
            CASE "skip" \in {before, now} -> "skipped"
              [] before = "pass" /\ now = "fail" -> "regression"
              [] before = "fail" /\ now = "pass" -> "fix"
              [] before = "fail" /\ now = "fail" -> "still_failing"
              [] OTHER -> "stable"
      BY <1>1, <1>2, <2>3, <3>1 DEF Bucket
    <3>3. /\ Bucket(baseline, current, t) \in Buckets
          /\ Bucket(baseline, current, t) = "regression" <=> before = "pass" /\ now = "fail"
      BY <3>1, <3>2 DEF Buckets
    <3>4. QED
      BY <1>1, <1>2, <1>3, <2>3, <3>1, <3>3
  <2>4. QED
    BY <2>1, <2>2, <2>3
<1>5. CompareRuns(baseline, current) = [t \in B \cup C |-> Bucket(baseline, current, t)]
  BY <1>1, <1>2 DEF CompareRuns
<1>6. CompareRuns(baseline, current) \in [B \cup C -> Buckets]
  BY <1>4, <1>5
<1>7. HasRegressions(CompareRuns(baseline, current)) \in BOOLEAN
  BY DEF HasRegressions
<1>8. QED
  BY <1>1, <1>2, <1>4, <1>5, <1>6, <1>7 DEF Classified

LEMMA RegressionInitIInv ==
  ASSUME MaxComparisons \in Nat, RegressionInit
  PROVE  RegressionIInv
<1>1. NoResults \in Results
  BY DEF NoResults, Results
<1>2. history \in H!Query
  BY DEF RegressionInit, H!Ask, H!Unasked, H!Query
<1>3. ComparedTyped
  <2>1. testRows \in [Pickables -> Results]
    BY <1>1 DEF RegressionInit
  <2>2. comparisons \in Seq(Comparison) /\ Len(comparisons) = 0
    BY DEF RegressionInit
  <2>3. comparePage \in ComparePage /\ comparePage.shown = 0
    BY DEF RegressionInit, ComparePage, NoComparison
  <2>4. QED
    BY <1>2, <2>1, <2>2, <2>3 DEF RegressionInit, ComparedTyped
<1>4. QED
  BY <1>3 DEF RegressionIInv, RegressionInit, PlaceIsKept, ReadIsStored, ComparisonsAreOfRows,
              NotComparing

(* The query of the history, whatever it shows.                            *)
LEMMA HistoryStep ==
  ASSUME MaxComparisons \in Nat, ComparedTyped,
         \/ history' = H!Invalidated(history, TRUE)
         \/ history' = H!Serve(history, StoredComparisons)
         \/ history' = H!Receive(history)
         \/ history' = H!Lose(history)
  PROVE  history' \in H!Query
<1>1. StoredComparisons \in SUBSET (1..MaxComparisons)
  BY DEF ComparedTyped, StoredComparisons
<1>2. CASE history' = H!Invalidated(history, TRUE)
  BY <1>2 DEF ComparedTyped, H!Query, H!Invalidated, H!Ask
<1>3. CASE history' = H!Serve(history, StoredComparisons)
  BY <1>1, <1>3 DEF ComparedTyped, H!Query, H!Serve
<1>4. CASE history' = H!Receive(history)
  BY <1>4 DEF ComparedTyped, H!Query, H!Receive
<1>5. CASE history' = H!Lose(history)
  BY <1>5 DEF ComparedTyped, H!Query, H!Lose
<1>6. QED
  BY <1>2, <1>3, <1>4, <1>5

(* A step that leaves rows, comparisons and request alone.                 *)
LEMMA PageKeepsIInv ==
  ASSUME RegressionIInv, UNCHANGED <<testRows, comparisons, comparing>>,
         comparePage' \in ComparePage, comparePage'.shown <= Len(comparisons), history' \in H!Query
  PROVE  RegressionIInv'
BY DEF RegressionIInv, ComparedTyped, PlaceIsKept, ReadIsStored, ComparisonsAreOfRows, StoredIsOf,
       HasResults

(* So does one that lets the request go.                                   *)
LEMMA IdleKeepsIInv ==
  ASSUME RegressionIInv, UNCHANGED <<testRows, comparisons>>, comparing' = NotComparing,
         comparePage' \in ComparePage, comparePage'.shown <= Len(comparisons), history' \in H!Query
  PROVE  RegressionIInv'
BY DEF RegressionIInv, ComparedTyped, PlaceIsKept, ReadIsStored, ComparisonsAreOfRows, StoredIsOf,
       HasResults, NotComparing

LEMMA StoreTestRowsKeepsIInv ==
  ASSUME RegressionIInv, NEW r \in Pickables, NEW results \in Results, StoreTestRows(r, results)
  PROVE  RegressionIInv'
<1>1. /\ testRows' \in [Pickables -> Results]
      /\ \A x \in Pickables : HasResults(x) => testRows'[x] = testRows[x] /\ HasResults(x)'
      /\ UNCHANGED <<comparisons, comparing, comparePage, history>>
  BY DEF StoreTestRows, RegressionIInv, ComparedTyped, HasResults
<1>2. ComparedTyped'
  BY <1>1 DEF RegressionIInv, ComparedTyped
<1>3. PlaceIsKept'
  BY <1>1 DEF RegressionIInv, PlaceIsKept
<1>4. ReadIsStored'
  <2>1. CASE comparing = NotComparing
    BY <1>1, <2>1 DEF ReadIsStored, NotComparing
  <2>2. CASE comparing \in Request
    <3>1. comparing.baseline \in Pickables /\ comparing.candidate \in Pickables
      BY <2>2 DEF Request
    <3>2. QED
      BY <1>1, <3>1 DEF RegressionIInv, ReadIsStored
  <2>3. QED
    BY <2>1, <2>2 DEF RegressionIInv, ComparedTyped
<1>5. ComparisonsAreOfRows'
  <2> SUFFICES ASSUME NEW i \in 1..Len(comparisons)
               PROVE  StoredIsOf(comparisons[i])'
    BY <1>1 DEF ComparisonsAreOfRows
  <2>1. StoredIsOf(comparisons[i])
    BY DEF RegressionIInv, ComparisonsAreOfRows
  <2>2. comparisons[i] \in Comparison
    BY DEF RegressionIInv, ComparedTyped
  <2>3. comparisons[i].baseline \in Pickables /\ comparisons[i].candidate \in Pickables
    BY <2>2 DEF Comparison
  <2>4. QED
    BY <1>1, <2>1, <2>3 DEF StoredIsOf
<1>6. QED
  BY <1>2, <1>3, <1>4, <1>5 DEF RegressionIInv

LEMMA ReadKeepsIInv ==
  ASSUME RegressionIInv, ReadBaseline \/ ReadCandidate
  PROVE  RegressionIInv'
<1>1. comparing \in Request
  BY DEF RegressionIInv, ComparedTyped, ReadBaseline, ReadCandidate, NotComparing
<1>2. CASE ReadBaseline
  <2>1. PICK base \in Results : base = testRows[comparing.baseline]
    BY <1>1 DEF RegressionIInv, ComparedTyped, Request
  <2>2. /\ comparing.pc = "asked"
        /\ comparing' = [comparing EXCEPT !.pc = "baseline", !.base = base]
        /\ UNCHANGED <<testRows, comparisons, comparePage, history>>
    BY <1>2, <2>1 DEF ReadBaseline
  <2>3. QED
    BY <1>1, <2>1, <2>2 DEF RegressionIInv, ComparedTyped, Request, PlaceIsKept, ReadIsStored,
       ComparisonsAreOfRows, StoredIsOf, HasResults
<1>3. CASE ReadCandidate
  <2>1. PICK current \in Results : current = testRows[comparing.candidate]
    BY <1>1 DEF RegressionIInv, ComparedTyped, Request
  <2>2. /\ comparing.pc = "baseline"
        /\ comparing' = [comparing EXCEPT !.pc = "both", !.current = current]
        /\ UNCHANGED <<testRows, comparisons, comparePage, history>>
    BY <1>3, <2>1 DEF ReadCandidate
  <2>3. QED
    BY <1>1, <2>1, <2>2 DEF RegressionIInv, ComparedTyped, Request, PlaceIsKept, ReadIsStored,
       ComparisonsAreOfRows, StoredIsOf, HasResults
<1>4. QED
  BY <1>2, <1>3

LEMMA SaveComparisonKeepsIInv ==
  ASSUME MaxComparisons \in Nat, RegressionIInv, SaveComparison
  PROVE  RegressionIInv'
<1>1. comparing \in Request /\ comparing.pc = "both"
  BY DEF RegressionIInv, ComparedTyped, SaveComparison, NotComparing
<1>0. PICK base \in Results, current \in Results :
        base = comparing.base /\ current = comparing.current
  BY <1>1 DEF Request
<1>2. PICK result \in Classified : result = CompareRuns(comparing.base, comparing.current)
  <2>1. CompareRuns(base, current) \in Classified
    BY CompareRunsFacts
  <2>2. QED
    BY <1>0, <2>1
<1>3. PICK told \in BOOLEAN : told = HasRegressions(result)
  <2>1. HasRegressions(result) \in BOOLEAN
    BY DEF HasRegressions
  <2>2. QED
    BY <2>1
<1>4. PICK c \in Comparison :
        c = [baseline |-> comparing.baseline, candidate |-> comparing.candidate,
             result |-> result, hasRegressions |-> told, recorded |-> comparing.recorded]
  BY <1>1 DEF Comparison, Request
<1>5. /\ comparisons' = Append(comparisons, c)
      /\ comparing' = [comparing EXCEPT !.pc = "saved"]
      /\ UNCHANGED <<testRows, comparePage, history>>
  BY <1>2, <1>3, <1>4 DEF SaveComparison
<1>6. /\ comparisons' \in Seq(Comparison) /\ Len(comparisons') = Len(comparisons) + 1
      /\ \A i \in 1..Len(comparisons) : comparisons'[i] = comparisons[i]
      /\ comparisons'[Len(comparisons) + 1] = c
  BY <1>5 DEF RegressionIInv, ComparedTyped
<1>7. StoredIsOf(c)'
  BY <1>1, <1>2, <1>3, <1>4, <1>5 DEF StoredIsOf, HasResults, RegressionIInv, ReadIsStored
<1>8. ComparedTyped'
  BY <1>1, <1>5, <1>6 DEF RegressionIInv, ComparedTyped, PlaceIsKept, Request, ComparePage
<1>9. PlaceIsKept'
  BY <1>1, <1>5, <1>6 DEF RegressionIInv, ComparedTyped, PlaceIsKept, Request
<1>10. ReadIsStored'
  BY <1>1, <1>5 DEF RegressionIInv, ReadIsStored, HasResults, Request
<1>11. ComparisonsAreOfRows'
  <2> SUFFICES ASSUME NEW i \in 1..Len(comparisons')
               PROVE  StoredIsOf(comparisons[i])'
    BY DEF ComparisonsAreOfRows
  <2>1. CASE i = Len(comparisons) + 1
    BY <1>6, <1>7, <2>1 DEF StoredIsOf
  <2>2. CASE i \in 1..Len(comparisons)
    BY <1>5, <1>6, <2>2 DEF RegressionIInv, ComparisonsAreOfRows, StoredIsOf, HasResults
  <2>3. QED
    BY <1>6, <2>1, <2>2 DEF RegressionIInv, ComparedTyped
<1>12. QED
  BY <1>8, <1>9, <1>10, <1>11 DEF RegressionIInv

LEMMA CompareKeepsIInv ==
  ASSUME RegressionIInv, Compare
  PROVE  RegressionIInv'
<1>1. comparePage.baseline \in Pickables /\ comparePage.candidate \in Pickables
  BY DEF Compare, RegressionIInv, ComparedTyped, ComparePage
<1>2. NoResults \in Results
  BY DEF NoResults, Results
<1>3. PICK told \in BOOLEAN : told = (HasResults(comparePage.baseline) /\ HasResults(comparePage.candidate))
  OBVIOUS
<1>4. /\ comparing' = [pc |-> "asked", baseline |-> comparePage.baseline,
                       candidate |-> comparePage.candidate, base |-> NoResults,
                       current |-> NoResults, recorded |-> told]
      /\ Len(comparisons) < MaxComparisons
      /\ UNCHANGED <<testRows, comparisons, comparePage, history>>
  <2>1. (NoResults \notin {testRows[comparePage.baseline], testRows[comparePage.candidate]}) = told
    BY <1>3 DEF HasResults
  <2>2. QED
    BY <2>1 DEF Compare
<1>5. comparing' \in Request
  BY <1>1, <1>2, <1>4 DEF Request
<1>6. QED
  BY <1>1, <1>3, <1>4, <1>5 DEF RegressionIInv, ComparedTyped, PlaceIsKept, ReadIsStored,
     ComparisonsAreOfRows, StoredIsOf, HasResults

LEMMA RegressionStepIInv ==
  ASSUME MaxComparisons \in Nat, RegressionIInv, [RegressionNext]_regressionVars
  PROVE  RegressionIInv'
<1>0. comparePage \in ComparePage /\ comparePage.shown <= Len(comparisons) /\ history \in H!Query
      /\ ComparedTyped /\ Len(comparisons) \in Nat
  BY DEF RegressionIInv, ComparedTyped
<1>1. ASSUME NEW r \in Pickables, NEW results \in Results, StoreTestRows(r, results)
      PROVE  RegressionIInv'
  BY <1>1, StoreTestRowsKeepsIInv
<1>2. CASE ReadBaseline \/ ReadCandidate
  BY <1>2, ReadKeepsIInv
<1>3. CASE SaveComparison
  BY <1>3, SaveComparisonKeepsIInv
<1>4. CASE FailCompare \/ LoseCompared
  BY <1>0, <1>4, IdleKeepsIInv DEF FailCompare, LoseCompared
<1>5. CASE ServeRuns
  <2>1. comparePage' \in ComparePage /\ comparePage'.shown = comparePage.shown
    BY <1>0, <1>5 DEF ServeRuns, ComparePage
  <2>2. QED
    BY <1>0, <1>5, <2>1, PageKeepsIInv DEF ServeRuns
<1>6. CASE ReceiveRuns \/ LoseRuns
  <2>1. comparePage' \in ComparePage /\ comparePage'.shown = comparePage.shown
    BY <1>0, <1>6 DEF ReceiveRuns, LoseRuns, ComparePage, Defaulted, NoPick
  <2>2. QED
    BY <1>0, <1>6, <2>1, PageKeepsIInv DEF ReceiveRuns, LoseRuns
<1>7. ASSUME NEW r \in Pickables \cup {NoPick}, PickBaseline(r) \/ PickCandidate(r)
      PROVE  RegressionIInv'
  <2>1. comparePage' \in ComparePage /\ comparePage'.shown = comparePage.shown
    BY <1>0, <1>7 DEF PickBaseline, PickCandidate, ComparePage, Defaulted
  <2>2. QED
    BY <1>0, <1>7, <2>1, PageKeepsIInv DEF PickBaseline, PickCandidate
<1>8. CASE Compare
  BY <1>8, CompareKeepsIInv
<1>9. CASE Compared
  <2>1. comparePage' \in ComparePage /\ comparePage'.shown = Len(comparisons)
    BY <1>0, <1>9 DEF Compared, ComparePage
  <2>2. history' \in H!Query
    BY <1>0, <1>9, HistoryStep DEF Compared
  <2>3. QED
    BY <1>0, <1>9, <2>1, <2>2, IdleKeepsIInv DEF Compared
<1>10. ASSUME NEW i \in StoredComparisons, View(i)
       PROVE  RegressionIInv'
  <2>1. comparePage' \in ComparePage /\ comparePage'.shown = i
    BY <1>0, <1>10 DEF View, ComparePage, StoredComparisons
  <2>2. QED
    BY <1>0, <1>10, <2>1, PageKeepsIInv DEF View, StoredComparisons
<1>11. CASE ServeHistory \/ ReceiveHistory \/ LoseHistory
  <2>1. history' \in H!Query
    BY <1>0, <1>11, HistoryStep DEF ServeHistory, ReceiveHistory, LoseHistory
  <2>2. QED
    BY <1>0, <1>11, <2>1, PageKeepsIInv DEF ServeHistory, ReceiveHistory, LoseHistory
<1>12. CASE UNCHANGED regressionVars
  BY <1>0, <1>12, PageKeepsIInv DEF regressionVars
<1>13. QED
  BY <1>1, <1>2, <1>3, <1>4, <1>5, <1>6, <1>7, <1>8, <1>9, <1>10, <1>11, <1>12
  DEF RegressionNext

LEMMA RegressionIInvImplies ==
  ASSUME RegressionIInv
  PROVE  RegressionTypeOK /\ ComparisonIsOfRuns
<1>1. RegressionTypeOK
  <2>1. \A i \in StoredComparisons : comparisons[i] \in Comparison
    BY DEF RegressionIInv, ComparedTyped, StoredComparisons
  <2>2. comparing.pc \in {"idle", "asked", "baseline", "both", "saved"}
    BY DEF RegressionIInv, ComparedTyped, Request, NotComparing
  <2>3. QED
    BY <2>1, <2>2
    DEF RegressionIInv, ComparedTyped, RegressionTypeOK, Comparison, ComparePage, StoredComparisons,
        NoComparison
<1>2. ComparisonIsOfRuns
  <2> SUFFICES ASSUME NEW i \in StoredComparisons, comparisons[i].recorded
               PROVE  LET c == comparisons[i]
                          regressed == {t \in Suite : Passed(c.baseline, t) /\ Broken(c.candidate, t)}
                      IN  /\ {t \in DOMAIN c.result : c.result[t] = "regression"} = regressed
                          /\ c.hasRegressions = (regressed # {})
    BY DEF ComparisonIsOfRuns
  <2> DEFINE c == comparisons[i]
             regressed == {t \in Suite : Passed(c.baseline, t) /\ Broken(c.candidate, t)}
  <2>1. c \in Comparison /\ StoredIsOf(c)
    BY DEF RegressionIInv, ComparedTyped, ComparisonsAreOfRows, StoredComparisons
  <2>2. PICK base \in Results, current \in Results :
          base = testRows[c.baseline] /\ current = testRows[c.candidate]
    BY <2>1 DEF RegressionIInv, ComparedTyped, Comparison
  <2>3. c.result = CompareRuns(base, current) /\ c.hasRegressions = HasRegressions(c.result)
    BY <2>1, <2>2 DEF StoredIsOf
  <2>4. regressed = {t \in Suite : /\ t \in DOMAIN base /\ base[t] = "passed"
                                   /\ t \in DOMAIN current /\ current[t] \in {"failed", "error"}}
    BY <2>2 DEF Passed, Broken
  <2>5. {t \in DOMAIN c.result : c.result[t] = "regression"} = regressed
    <3>1. PICK result : result = CompareRuns(base, current)
      OBVIOUS
    <3>2. /\ \A t \in DOMAIN result : result[t] = "regression" <=>
                /\ t \in DOMAIN base /\ base[t] = "passed"
                /\ t \in DOMAIN current /\ current[t] \in {"failed", "error"}
          /\ DOMAIN result = DOMAIN base \cup DOMAIN current
          /\ DOMAIN base \subseteq Suite /\ DOMAIN current \subseteq Suite
      BY <3>1, CompareRunsFacts
    <3>3. {t \in DOMAIN result : result[t] = "regression"} = regressed
      BY <2>4, <3>2
    <3>4. QED
      BY <2>3, <3>1, <3>3
  <2>6. HasRegressions(c.result) = ({t \in DOMAIN c.result : c.result[t] = "regression"} # {})
    BY DEF HasRegressions, Range
  <2>7. QED
    BY <2>3, <2>5, <2>6
<1>3. QED
  BY <1>1, <1>2

(* However results arrive, requests fail and the page is used: a stored    *)
(* comparison of two runs that had results when it was asked for names     *)
(* exactly the tests that passed in the one and broke in the other.        *)
THEOREM ComparisonsAreOfRuns ==
  ASSUME MaxComparisons \in Nat
  PROVE  RegressionSpec => [](RegressionTypeOK /\ ComparisonIsOfRuns)
<1>1. RegressionInit => RegressionIInv
  BY RegressionInitIInv
<1>2. RegressionIInv /\ [RegressionNext]_regressionVars => RegressionIInv'
  BY RegressionStepIInv
<1>3. RegressionIInv => RegressionTypeOK /\ ComparisonIsOfRuns
  BY RegressionIInvImplies
<1>4. QED
  BY <1>1, <1>2, <1>3, PTL DEF RegressionSpec

-----------------------------------------------------------------------------
(* The live feed of a log.  A line is stored before it is sent, and a      *)
(* console in the room gets what is sent: once a whole replay was read     *)
(* there, a stored line is on the page or about to be sent.  That a replay *)
(* does not take a line for one that is shown rests on the numbers, so the *)
(* invariant has them: nobody writes before the counter was read from the  *)
(* table, and then every number given is new.                              *)
Logged == feed # "timeline" /\ ~unsafe

RowOf(w) == [seq |-> writer[w].seq, line |-> writer[w].line]
Saving == {RowOf(w) : w \in {v \in Writers : WriterAt(v, "save")}}
Sending == {RowOf(w) : w \in {v \in Writers : WriterAt(v, "emit")}}
Numbered == storedLines \cup Saving

Numbers == [seq : Nat \ {0}, line : Nat \ {0}]
WriterStates == [pc : {"idle", "read", "seed", "wait", "take", "save", "emit"},
                 on : SUBSET Writers, base : Nat, seq : Nat, line : Nat]

HasHighest(taken) == taken # {} => \E r \in taken : \A q \in taken : q.seq <= r.seq

WritersAreTyped ==
  /\ feed \in {"log", "job"} /\ seeded \in BOOLEAN /\ seeding \subseteq Writers
  /\ counter \in Nat /\ lines \in Nat
  /\ writer \in [Writers -> WriterStates]
  /\ Numbered \subseteq Numbers
  /\ HasHighest(storedLines)

(* The table is read by one writer while nobody else has a number.         *)
SeedsAlone ==
  /\ \A w \in Writers : writer[w].pc \in {"read", "seed"} =>
       feed = "log" /\ ~seeded /\ seeding = {w}
  /\ feed = "log" /\ ~seeded => \A w \in Writers : writer[w].pc \notin {"take", "save", "emit"}
  /\ \A w \in Writers : WriterAt(w, "seed") => \A r \in storedLines : r.seq <= writer[w].base

NumbersAreNew ==
  /\ \A r, q \in Numbered : r.seq = q.seq => r = q
  /\ feed = "job" \/ seeded => \A r \in Numbered : r.seq <= counter

WriterInv == WritersAreTyped /\ SeedsAlone /\ NumbersAreNew /\ Sending \subseteq storedLines

Shape(a) == [from : {a.from}, read : {a.read}, joined : {a.joined}, rows : {a.rows}]

PageIsShaped ==
  /\ feedPage = [rows |-> feedPage.rows, lastSeq |-> feedPage.lastSeq,
                 connectedOnce |-> feedPage.connectedOnce]
  /\ \A a \in asks : a \in Shape(a)

(* What the page and the answers on their way to it hold, and what is not  *)
(* missing from them.                                                      *)
AskInv(a) ==
  /\ a.rows \subseteq storedLines
  /\ a.joined \in BOOLEAN
  /\ a.joined => socket = "joined"
  /\ a.joined /\ a.from = 0 => storedLines \subseteq feedPage.rows \cup a.rows \cup Sending

PageInv ==
  /\ PageIsShaped
  /\ feedPage.rows \subseteq storedLines
  /\ resumed # "no" => socket = "joined"
  /\ resumed = "whole" => storedLines \subseteq feedPage.rows \cup Sending
  /\ \A a \in asks : AskInv(a)

FeedInv == Logged => WriterInv /\ PageInv

-----------------------------------------------------------------------------
LEMMA MaxOfTwo ==
  ASSUME NEW a \in Nat, NEW b \in Nat
  PROVE  Max({a, b}) \in Nat /\ a <= Max({a, b}) /\ b <= Max({a, b})
<1>1. \E x \in {a, b} : \A y \in {a, b} : x >= y
  OBVIOUS
<1>2. Max({a, b}) \in {a, b} /\ \A y \in {a, b} : Max({a, b}) >= y
  BY <1>1 DEF Max
<1>3. QED
  BY <1>2

LEMMA HighestIsAbove ==
  ASSUME NEW taken \in SUBSET Numbers, HasHighest(taken)
  PROVE  HighestOf(taken) \in Nat /\ \A r \in taken : r.seq <= HighestOf(taken)
<1>1. CASE taken = {}
  BY <1>1 DEF HighestOf
<1>2. CASE taken # {}
  <2>1. \E x \in SeqsOf(taken) : \A y \in SeqsOf(taken) : x >= y
    BY <1>2 DEF HasHighest, SeqsOf, Numbers
  <2>2. /\ Max(SeqsOf(taken)) \in SeqsOf(taken)
        /\ \A y \in SeqsOf(taken) : Max(SeqsOf(taken)) >= y
    BY <2>1 DEF Max
  <2>3. QED
    BY <1>2, <2>2 DEF HighestOf, SeqsOf, Numbers
<1>3. QED
  BY <1>1, <1>2

(* A replay or a line adds what it brings to the page and hides nothing.   *)
LEMMA AppendEffect ==
  ASSUME Logged, WriterInv, PageInv, NEW taken \in SUBSET storedLines, AppendRows(taken)
  PROVE  /\ feedPage'.rows = feedPage.rows \cup taken
         /\ feedPage' = [rows |-> feedPage'.rows, lastSeq |-> feedPage'.lastSeq,
                         connectedOnce |-> feedPage'.connectedOnce]
<1> DEFINE fresh == Fresh(taken)
           kept == {r \in feedPage.rows : r.seq \notin SeqsOf(fresh)}
           highest == Max({feedPage.lastSeq} \cup SeqsOf(fresh))
<1>1. fresh = {r \in taken : r.seq \notin SeqsOf(feedPage.rows)}
  BY DEF Fresh, Logged
<1>2. kept = feedPage.rows
  BY <1>1 DEF SeqsOf
<1>3. \A r \in taken : r \in fresh \/ r \in feedPage.rows
  BY <1>1 DEF WriterInv, NumbersAreNew, Numbered, PageInv, SeqsOf
<1>4. kept \cup fresh = feedPage.rows \cup taken
  BY <1>1, <1>2, <1>3
<1>5. feedPage' = [feedPage EXCEPT !.rows = kept \cup fresh, !.lastSeq = highest]
  BY DEF AppendRows
<1>6. feedPage = [rows |-> feedPage.rows, lastSeq |-> feedPage.lastSeq,
                  connectedOnce |-> feedPage.connectedOnce]
  BY DEF PageInv, PageIsShaped
<1> HIDE DEF fresh, kept, highest
<1>7. feedPage' = [rows |-> kept \cup fresh, lastSeq |-> highest,
                   connectedOnce |-> feedPage.connectedOnce]
  BY <1>5, <1>6
<1>8. QED
  BY <1>4, <1>7

-----------------------------------------------------------------------------
(* Steps that neither number, store nor send a line.                       *)
LEMMA SetsAreKept ==
  ASSUME \A v \in Writers :
           writer'[v].pc \in {"save", "emit"} \/ writer[v].pc \in {"save", "emit"} =>
             writer'[v] = writer[v]
  PROVE  Saving' = Saving /\ Sending' = Sending
<1>1. \A v \in Writers : /\ WriterAt(v, "save")' <=> WriterAt(v, "save")
                         /\ WriterAt(v, "save") => RowOf(v)' = RowOf(v)
                         /\ WriterAt(v, "emit")' <=> WriterAt(v, "emit")
                         /\ WriterAt(v, "emit") => RowOf(v)' = RowOf(v)
  BY DEF WriterAt, RowOf
<1>2. QED
  BY <1>1 DEF Saving, Sending

LEMMA WritersAtRest ==
  ASSUME WriterInv, UNCHANGED <<feed, counter, seeded, seeding, writer, lines, storedLines>>
  PROVE  WriterInv' /\ Sending' = Sending
<1>1. Saving' = Saving /\ Sending' = Sending
  BY SetsAreKept
<1>2. QED
  BY <1>1 DEF WriterInv, WritersAreTyped, SeedsAlone, NumbersAreNew, Numbered, WriterAt

LEMMA PageAtRest ==
  ASSUME PageInv, UNCHANGED <<storedLines, pageVars>>, Sending' = Sending
  PROVE  PageInv'
<1>1. UNCHANGED <<socket, feedPage, asks, resumed>>
  BY DEF pageVars
<1>2. ASSUME NEW a \in asks PROVE AskInv(a)'
  BY <1>1, <1>2 DEF PageInv, AskInv
<1>3. QED
  BY <1>1, <1>2 DEF PageInv, PageIsShaped

LEMMA NoLines ==
  ASSUME WriterInv, feed = "log", ~seeded
  PROVE  Saving = {} /\ Sending = {}
  BY DEF WriterInv, SeedsAlone, Saving, Sending, WriterAt

(* A writer goes on before it has a number. *)
LEMMA StartStep ==
  ASSUME WriterInv, Logged, NEW w \in Writers, StartWrite(w) \/ ReadHighest(w) \/ Seed(w)
  PROVE  WriterInv' /\ Sending' = Sending
<1> USE DEF WriterInv
<1>1. feed' = feed /\ UNCHANGED <<lines, storedLines>>
  BY DEF StartWrite, ReadHighest, Seed
<1>2. writer[w] \in WriterStates /\ writer[w].pc \in {"idle", "read", "seed"}
  BY DEF WritersAreTyped, StartWrite, ReadHighest, Seed, WriterAt
<1>3. CASE StartWrite(w)
  <2>1. PICK x \in WriterStates :
          /\ writer' = [writer EXCEPT ![w] = x]
          /\ \/ (feed # "log" \/ seeded) /\ x.pc = "take" /\ UNCHANGED seeding
             \/ feed = "log" /\ ~seeded /\ seeding = {} /\ x.pc = "read" /\ seeding' = {w}
             \/ feed = "log" /\ ~seeded /\ x.pc = "wait" /\ UNCHANGED seeding
    <3>1. CASE (feed # "log" \/ seeded) /\ WriterGoes(w, "take") /\ UNCHANGED seeding
      <4>1. /\ [writer[w] EXCEPT !.pc = "take"] \in WriterStates
            /\ [writer[w] EXCEPT !.pc = "take"].pc = "take"
        BY <1>2 DEF WriterStates
      <4>2. QED
        BY <3>1, <4>1 DEF WriterGoes, WriterIs
    <3>2. CASE /\ feed = "log" /\ ~seeded
               /\ WriterIs(w, [NotWriting EXCEPT !.pc = IF seeding = {} THEN "read" ELSE "wait",
                                                 !.on = seeding])
               /\ seeding' = IF seeding = {} THEN {w} ELSE seeding
      <4>1. seeding \subseteq Writers
        BY DEF WritersAreTyped
      <4>2. [NotWriting EXCEPT !.pc = IF seeding = {} THEN "read" ELSE "wait", !.on = seeding]
              \in WriterStates
        BY <4>1 DEF WriterStates, NotWriting
      <4>3. QED
        BY <3>2, <4>2 DEF WriterIs, NotWriting
    <3>3. \/ (feed # "log" \/ seeded) /\ WriterGoes(w, "take") /\ UNCHANGED seeding
          \/ /\ feed = "log" /\ ~seeded
             /\ WriterIs(w, [NotWriting EXCEPT !.pc = IF seeding = {} THEN "read" ELSE "wait",
                                               !.on = seeding])
             /\ seeding' = IF seeding = {} THEN {w} ELSE seeding
      BY <1>3 DEF StartWrite
    <3>4. QED
      BY <3>1, <3>2, <3>3
  <2>2. Saving' = Saving /\ Sending' = Sending
    <3>1. \A v \in Writers :
           writer'[v].pc \in {"save", "emit"} \/ writer[v].pc \in {"save", "emit"} =>
             writer'[v] = writer[v]
      BY <1>2, <1>3, <2>1 DEF WritersAreTyped, StartWrite, WriterAt
    <3>2. QED
      BY <3>1, SetsAreKept
  <2>3. QED
    BY <1>1, <1>2, <1>3, <2>1, <2>2
       DEF WritersAreTyped, SeedsAlone, NumbersAreNew, Numbered, StartWrite, WriterAt
<1>4. CASE ReadHighest(w)
  <2>1. HighestOf(storedLines) \in Nat /\ \A r \in storedLines : r.seq <= HighestOf(storedLines)
    BY HighestIsAbove DEF WritersAreTyped, Numbered
  <2>2. PICK x \in WriterStates : /\ writer' = [writer EXCEPT ![w] = x] /\ x.pc = "seed"
                                  /\ x.base = HighestOf(storedLines)
    <3>1. [NotWriting EXCEPT !.pc = "seed", !.base = HighestOf(storedLines)] \in WriterStates
      BY <2>1 DEF WriterStates, NotWriting
    <3>2. QED
      BY <1>4, <3>1 DEF ReadHighest, WriterIs, NotWriting
  <2>3. Saving' = Saving /\ Sending' = Sending
    <3>1. \A v \in Writers :
           writer'[v].pc \in {"save", "emit"} \/ writer[v].pc \in {"save", "emit"} =>
             writer'[v] = writer[v]
      BY <1>2, <2>2 DEF WritersAreTyped
    <3>2. QED
      BY <3>1, SetsAreKept
  <2>4. QED
    BY <1>1, <1>4, <2>1, <2>2, <2>3
       DEF WritersAreTyped, SeedsAlone, NumbersAreNew, Numbered, ReadHighest, WriterAt
<1>5. CASE Seed(w)
  <2>1. feed = "log" /\ ~seeded /\ seeding = {w} /\ writer[w].base \in Nat
    BY <1>2, <1>5 DEF SeedsAlone, Seed, WriterAt, WriterStates
  <2>2. Saving = {} /\ Sending = {}
    BY <2>1, NoLines
  <2>3. /\ counter' \in Nat /\ counter <= counter' /\ writer[w].base <= counter'
    BY <1>5, <2>1, MaxOfTwo DEF Seed, SeededCounter, WritersAreTyped
  <2>4. [NotWriting EXCEPT !.pc = "take"] \in WriterStates
    BY DEF WriterStates, NotWriting
  <2>5. /\ writer' \in [Writers -> WriterStates] /\ seeded' = TRUE
        /\ \A v \in Writers : (writer'[v] = writer[v] /\ v # w) \/ writer'[v].pc = "take"
    BY <1>5, <2>4 DEF Seed, Waiting, WritersAreTyped, NotWriting
  <2>6. \A v \in Writers : writer'[v].pc \notin {"read", "seed", "save", "emit"}
    BY <2>1, <2>5 DEF SeedsAlone
  <2>7. Saving' = {} /\ Sending' = {}
    BY <2>6 DEF Saving, Sending, WriterAt
  <2>8. Numbered' = Numbered /\ seeding' = {}
    BY <1>1, <1>5, <2>2, <2>7 DEF Numbered, Seed
  <2>9. WritersAreTyped'
    BY <1>1, <2>3, <2>5, <2>8 DEF WritersAreTyped
  <2>10. SeedsAlone'
    BY <2>5, <2>6 DEF SeedsAlone, WriterAt
  <2>11. \A r \in Numbered : r.seq <= writer[w].base /\ r.seq \in Nat
    BY <1>5, <2>2 DEF SeedsAlone, Seed, Numbered, WritersAreTyped, Numbers
  <2>12. \A r \in Numbered : r.seq <= counter'
    BY <2>1, <2>3, <2>11
  <2>13. QED
    BY <2>2, <2>7, <2>8, <2>9, <2>10, <2>12 DEF NumbersAreNew
<1>6. QED
  BY <1>3, <1>4, <1>5

LEMMA NewNumber ==
  ASSUME WriterInv, Logged, NEW w \in Writers, TakeNumber(w)
  PROVE  WriterInv' /\ Sending' = Sending
<1> DEFINE x == [NotWriting EXCEPT !.pc = "save", !.seq = counter', !.line = lines']
           new == [seq |-> counter', line |-> lines']
<1> USE DEF WriterInv
<1>1. /\ WriterAt(w, "take") /\ counter' = counter + 1 /\ lines' = lines + 1
      /\ writer' = [writer EXCEPT ![w] = x]
      /\ UNCHANGED <<feed, seeded, seeding, storedLines>>
  BY DEF TakeNumber, WriterIs
<1>2. x \in WriterStates /\ x.pc = "save" /\ [seq |-> x.seq, line |-> x.line] = new
      /\ new \in Numbers /\ new.seq = counter'
  <2>1. counter' \in Nat \ {0} /\ lines' \in Nat \ {0}
    BY <1>1 DEF WritersAreTyped
  <2>2. x \in WriterStates /\ x.pc = "save" /\ x.seq = counter' /\ x.line = lines'
    BY <2>1 DEF WriterStates, NotWriting
  <2>3. QED
    BY <2>1, <2>2 DEF Numbers
<1> HIDE DEF x, new
<1>3. /\ writer' \in [Writers -> WriterStates] /\ writer'[w] = x
      /\ \A v \in Writers \ {w} : writer'[v] = writer[v]
  BY <1>1, <1>2 DEF WritersAreTyped
<1>4. Sending' = Sending /\ Saving' \subseteq Saving \cup {new}
  <2>1. \A v \in Writers \ {w} : /\ RowOf(v)' = RowOf(v)
                                 /\ WriterAt(v, "emit")' <=> WriterAt(v, "emit")
                                 /\ WriterAt(v, "save")' <=> WriterAt(v, "save")
    BY <1>3 DEF RowOf, WriterAt
  <2>2. ~WriterAt(w, "emit") /\ ~WriterAt(w, "emit")' /\ RowOf(w)' = new
    BY <1>1, <1>2, <1>3 DEF WriterAt, RowOf
  <2>3. QED
    BY <2>1, <2>2 DEF Sending, Saving
<1>5. Numbered' \subseteq Numbered \cup {new}
  BY <1>1, <1>4 DEF Numbered
<1>6. feed = "job" \/ seeded
  BY <1>1 DEF WritersAreTyped, SeedsAlone, WriterAt
<1>7. \A r \in Numbered : r.seq <= counter /\ r.seq \in Nat
  BY <1>6 DEF NumbersAreNew, WritersAreTyped, Numbers
<1>8. WritersAreTyped'
  BY <1>1, <1>2, <1>3, <1>5 DEF WritersAreTyped
<1>9. SeedsAlone'
  BY <1>1, <1>2, <1>3, <1>6 DEF SeedsAlone, WriterAt, WritersAreTyped
<1>10. counter \in Nat
  BY DEF WritersAreTyped
<1>11. NumbersAreNew'
  <2>1. \A r \in Numbered' : r \in Numbered \/ r = new
    BY <1>5
  <2>2. \A r \in Numbered : r.seq # new.seq /\ r.seq <= counter'
    BY <1>1, <1>2, <1>7, <1>10
  <2>3. ASSUME NEW r \in Numbered', NEW q \in Numbered', r.seq = q.seq PROVE r = q
    BY <2>1, <2>2, <2>3 DEF NumbersAreNew
  <2>4. ASSUME NEW r \in Numbered' PROVE r.seq <= counter'
    BY <1>1, <1>2, <1>10, <2>1, <2>2
  <2>5. QED
    BY <2>3, <2>4 DEF NumbersAreNew
<1>12. QED
  BY <1>1, <1>4, <1>8, <1>9, <1>11

(* A line is stored and about to be sent.                                  *)
LEMMA SaveStep ==
  ASSUME WriterInv, PageInv, Logged, NEW w \in Writers, SaveLine(w)
  PROVE  WriterInv' /\ PageInv'
<1> DEFINE x == [writer[w] EXCEPT !.pc = "emit"]
<1>1. /\ WriterAt(w, "save") /\ writer' = [writer EXCEPT ![w] = x]
      /\ storedLines' = storedLines \cup {RowOf(w)}
      /\ UNCHANGED <<feed, counter, seeded, seeding, lines, socket, feedPage, asks, resumed>>
  BY DEF SaveLine, RowOf, WriterGoes, WriterIs, AfterSave, Logged, pageVars
<1>2. x \in WriterStates /\ x.pc = "emit" /\ x.seq = writer[w].seq /\ x.line = writer[w].line
  BY DEF WriterInv, WritersAreTyped, WriterStates
<1> HIDE DEF x
<1>3. /\ writer' \in [Writers -> WriterStates] /\ writer'[w] = x
      /\ \A v \in Writers \ {w} : writer'[v] = writer[v]
  BY <1>1, <1>2 DEF WriterInv, WritersAreTyped
<1>4. Sending' = Sending \cup {RowOf(w)} /\ Saving' \subseteq Saving /\ RowOf(w) \in Saving
  <2>1. \A v \in Writers \ {w} : /\ WriterAt(v, "emit")' <=> WriterAt(v, "emit")
                                 /\ WriterAt(v, "save")' <=> WriterAt(v, "save")
    BY <1>3 DEF WriterAt
  <2>2. \A v \in Writers : RowOf(v)' = RowOf(v)
    BY <1>2, <1>3 DEF RowOf
  <2>3. ~WriterAt(w, "emit") /\ WriterAt(w, "emit")' /\ ~WriterAt(w, "save")'
    BY <1>1, <1>2, <1>3 DEF WriterAt
  <2>4. QED
    BY <1>1, <2>1, <2>2, <2>3 DEF Sending, Saving
<1>5. Numbered' \subseteq Numbered /\ RowOf(w) \in Numbers
  BY <1>1, <1>4 DEF Numbered, WriterInv, WritersAreTyped
<1>6. HasHighest(storedLines')
  <2>1. \A r \in storedLines' : r.seq \in Nat
    BY <1>1, <1>5 DEF WriterInv, WritersAreTyped, Numbered, Numbers
  <2>2. CASE storedLines = {}
    BY <1>1, <2>1, <2>2 DEF HasHighest
  <2>3. CASE storedLines # {}
    <3>1. PICK r \in storedLines : \A q \in storedLines : q.seq <= r.seq
      BY <2>3 DEF WriterInv, WritersAreTyped, HasHighest
    <3>2. \A q \in storedLines' : q.seq <= r.seq \/ q = RowOf(w)
      BY <1>1, <3>1
    <3>3. CASE RowOf(w).seq <= r.seq
      BY <1>1, <3>2, <3>3 DEF HasHighest
    <3>4. CASE ~(RowOf(w).seq <= r.seq)
      <4>1. \A q \in storedLines' : q.seq <= RowOf(w).seq
        BY <1>1, <2>1, <3>2, <3>4
      <4>2. QED
        BY <1>1, <4>1 DEF HasHighest
    <3>5. QED
      BY <3>3, <3>4
  <2>4. QED
    BY <2>2, <2>3
<1>7. WritersAreTyped'
  BY <1>1, <1>3, <1>5, <1>6 DEF WriterInv, WritersAreTyped
<1>8. SeedsAlone'
  <2>1. feed = "job" \/ seeded
    BY <1>1 DEF WriterInv, WritersAreTyped, SeedsAlone, WriterAt
  <2>2. \A v \in Writers : writer'[v].pc \notin {"read", "seed"}
    BY <1>2, <1>3, <2>1 DEF WriterInv, SeedsAlone
  <2>3. QED
    BY <1>1, <2>1, <2>2 DEF WriterInv, WritersAreTyped, SeedsAlone, WriterAt
<1>9. WriterInv'
  BY <1>1, <1>4, <1>5, <1>7, <1>8 DEF WriterInv, NumbersAreNew
<1>10. PageInv'
  <2>1. ASSUME NEW a \in asks PROVE AskInv(a)'
    BY <1>1, <1>4, <2>1 DEF PageInv, AskInv
  <2>2. QED
    BY <1>1, <1>4, <2>1 DEF PageInv, PageIsShaped
<1>11. QED
  BY <1>9, <1>10

(* A line is sent: who is in the room has it.                              *)
LEMMA LineSentStep ==
  ASSUME WriterInv, PageInv, Logged, NEW w \in Writers, EmitLine(w)
  PROVE  WriterInv' /\ PageInv'
<1>1. /\ WriterAt(w, "emit") /\ writer' = [writer EXCEPT ![w] = NotWriting]
      /\ Broadcast(writer[w].seq, writer[w].line)
      /\ UNCHANGED <<feed, counter, seeded, seeding, lines, storedLines, socket, asks, resumed>>
  BY DEF EmitLine, WriterGoes, WriterIs
<1>2. NotWriting \in WriterStates /\ NotWriting.pc = "idle"
  BY DEF NotWriting, WriterStates
<1>3. /\ writer' \in [Writers -> WriterStates] /\ writer'[w] = NotWriting
      /\ \A v \in Writers \ {w} : writer'[v] = writer[v]
  BY <1>1, <1>2 DEF WriterInv, WritersAreTyped
<1>4. /\ Sending' \subseteq Sending /\ Sending \subseteq Sending' \cup {RowOf(w)}
      /\ Saving' = Saving /\ RowOf(w) \in Sending
  <2>1. \A v \in Writers \ {w} : /\ RowOf(v)' = RowOf(v)
                                 /\ WriterAt(v, "emit")' <=> WriterAt(v, "emit")
                                 /\ WriterAt(v, "save")' <=> WriterAt(v, "save")
    BY <1>3 DEF RowOf, WriterAt
  <2>2. /\ ~WriterAt(w, "emit")' /\ ~WriterAt(w, "save") /\ ~WriterAt(w, "save")'
    BY <1>1, <1>2, <1>3 DEF WriterAt
  <2>3. QED
    BY <1>1, <2>1, <2>2 DEF Sending, Saving
<1>5. WriterInv'
  <2>1. Numbered' = Numbered
    BY <1>1, <1>4 DEF Numbered
  <2>2. SeedsAlone'
    BY <1>1, <1>2, <1>3 DEF WriterInv, SeedsAlone, WriterAt
  <2>3. QED
    BY <1>1, <1>3, <1>4, <2>1, <2>2 DEF WriterInv, WritersAreTyped, NumbersAreNew
<1>6. /\ feedPage' = [rows |-> feedPage'.rows, lastSeq |-> feedPage'.lastSeq,
                      connectedOnce |-> feedPage'.connectedOnce]
      /\ feedPage.rows \subseteq feedPage'.rows /\ feedPage'.rows \subseteq storedLines
      /\ socket = "joined" => RowOf(w) \in feedPage'.rows
  <2>1. CASE socket = "joined"
    <3>1. AppendRows({RowOf(w)})
      BY <1>1, <2>1 DEF Broadcast, RowOf
    <3>2. {RowOf(w)} \in SUBSET storedLines
      BY <1>4 DEF WriterInv
    <3>3. feedPage'.rows = feedPage.rows \cup {RowOf(w)}
      BY <3>1, <3>2, AppendEffect
    <3>4. QED
      BY <3>1, <3>2, <3>3, AppendEffect DEF PageInv
  <2>2. CASE socket # "joined"
    BY <1>1, <2>2 DEF Broadcast, PageInv, PageIsShaped
  <2>3. QED
    BY <2>1, <2>2
<1>7. PageInv'
  <2>1. ASSUME NEW a \in asks PROVE AskInv(a)'
    BY <1>1, <1>4, <1>6, <2>1 DEF PageInv, AskInv
  <2>2. QED
    BY <1>1, <1>4, <1>6, <2>1 DEF PageInv, PageIsShaped
<1>8. QED
  BY <1>5, <1>7

(* The numbers are forgotten while nobody writes, or the feed is unsafe.   *)
LEMMA ForgetStep ==
  ASSUME WriterInv, PageInv, Logged, Logged', Release \/ Restart
  PROVE  WriterInv' /\ PageInv'
<1>1. /\ feed = "log" /\ InFlight = {} /\ feed' = feed
      /\ counter' = 0 /\ seeded' = FALSE /\ seeding' = {}
      /\ UNCHANGED <<lines, storedLines, feedPage>>
  BY DEF Release, Restart, Logged, WriterInv, WritersAreTyped, pageVars
<1>2. \A v \in Writers : writer[v].pc = "idle"
  BY <1>1 DEF InFlight, WriterAt
<1>3. writer' \in [Writers -> WriterStates] /\ \A v \in Writers : writer'[v].pc = "idle"
  <2>1. NotWriting \in WriterStates /\ NotWriting.pc = "idle"
    BY DEF NotWriting, WriterStates
  <2>2. writer' = writer \/ writer' = [v \in Writers |-> NotWriting]
    BY DEF Release, Restart
  <2>3. QED
    BY <1>2, <2>1, <2>2 DEF WriterInv, WritersAreTyped
<1>4. Saving = {} /\ Sending = {} /\ Saving' = {} /\ Sending' = {}
  BY <1>2, <1>3 DEF Saving, Sending, WriterAt
<1>5. WriterInv'
  <2>1. Numbered' = Numbered
    BY <1>1, <1>4 DEF Numbered
  <2>2. SeedsAlone'
    BY <1>3 DEF SeedsAlone, WriterAt
  <2>3. QED
    BY <1>1, <1>3, <1>4, <2>1, <2>2 DEF WriterInv, WritersAreTyped, NumbersAreNew
<1>6. CASE Release
  <2>1. UNCHANGED <<storedLines, pageVars>> /\ Sending' = Sending
    BY <1>1, <1>4, <1>6 DEF Release
  <2>2. QED
    BY <1>5, <2>1, PageAtRest
<1>7. CASE Restart
  <2>1. asks' = {} /\ resumed' = "no"
    BY <1>7 DEF Restart, LeaveRoom
  <2>2. QED
    BY <1>1, <1>5, <2>1 DEF PageInv, PageIsShaped
<1>8. QED
  BY <1>6, <1>7

-----------------------------------------------------------------------------
(* The console.                                                            *)
LEMMA AskedFresh ==
  ASSUME NEW from PROVE /\ AskFrom(from) \in Shape(AskFrom(from)) /\ AskFrom(from).rows = {}
                        /\ AskFrom(from).joined = FALSE
  BY DEF AskFrom, Shape

(* A console that leaves its room, or a page that starts over. *)
LEMMA LeaveStep ==
  ASSUME PageInv, Disconnect \/ Resubscribe \/ PollRun \/ Reload
  PROVE  PageInv' /\ UNCHANGED serverVars
<1>1. UNCHANGED serverVars /\ resumed' = "no" /\ storedLines' = storedLines
  BY DEF Disconnect, Resubscribe, PollRun, Reload, LeaveRoom, serverVars
<1>2. /\ feedPage' = [rows |-> feedPage'.rows, lastSeq |-> feedPage'.lastSeq,
                      connectedOnce |-> feedPage'.connectedOnce]
      /\ feedPage'.rows \subseteq storedLines
  <2>1. CASE Reload
    BY <2>1 DEF Reload, Opened
  <2>2. CASE Resubscribe
    <3>1. feedPage' = [feedPage EXCEPT !.connectedOnce = FALSE]
      BY <2>2 DEF Resubscribe
    <3>2. feedPage' = [rows |-> feedPage.rows, lastSeq |-> feedPage.lastSeq,
                       connectedOnce |-> FALSE]
      BY <3>1 DEF PageInv, PageIsShaped
    <3>3. QED
      BY <3>2 DEF PageInv
  <2>3. CASE Disconnect \/ PollRun
    BY <2>3 DEF Disconnect, PollRun, PageInv, PageIsShaped
  <2>4. QED
    BY <2>1, <2>2, <2>3
<1>3. \A a \in asks' : a \in Shape(a) /\ a.rows \subseteq storedLines /\ a.joined = FALSE
  <2>1. CASE Reload
    BY <2>1, AskedFresh DEF Reload
  <2>2. CASE Disconnect \/ Resubscribe \/ PollRun
    <3>1. asks' = {[a EXCEPT !.joined = FALSE] : a \in asks}
      BY <2>2 DEF Disconnect, Resubscribe, PollRun, LeaveRoom
    <3>2. ASSUME NEW a \in asks
          PROVE  /\ [a EXCEPT !.joined = FALSE] \in Shape([a EXCEPT !.joined = FALSE])
                 /\ [a EXCEPT !.joined = FALSE].rows \subseteq storedLines
                 /\ [a EXCEPT !.joined = FALSE].joined = FALSE
      <4>1. a \in Shape(a) /\ a.rows \subseteq storedLines
        BY <3>2 DEF PageInv, PageIsShaped, AskInv, Shape
      <4>2. QED
        BY <4>1 DEF Shape
    <3>3. QED
      BY <3>1, <3>2
  <2>3. QED
    BY <2>1, <2>2
<1>4. PageIsShaped'
  BY <1>2, <1>3 DEF PageIsShaped, Shape
<1>5. ASSUME NEW a \in asks' PROVE AskInv(a)'
  BY <1>1, <1>3 DEF AskInv
<1>6. QED
  BY <1>1, <1>2, <1>4, <1>5 DEF PageInv

(* The socket connects and is in the room later.                           *)
LEMMA ConnectStep ==
  ASSUME PageInv, Sending' = Sending, Connect \/ Join
  PROVE  PageInv' /\ UNCHANGED serverVars
<1>1. UNCHANGED serverVars /\ resumed' = resumed /\ storedLines' = storedLines
      /\ socket # "joined" /\ socket' \in {"connected", "joined"}
  BY DEF Connect, Join, serverVars
<1>2. /\ feedPage' = [rows |-> feedPage'.rows, lastSeq |-> feedPage'.lastSeq,
                      connectedOnce |-> feedPage'.connectedOnce]
      /\ feedPage'.rows = feedPage.rows
  <2>1. CASE Connect
    <3>1. feedPage' = [feedPage EXCEPT !.connectedOnce = TRUE]
      BY <2>1 DEF Connect
    <3>2. feedPage' = [rows |-> feedPage.rows, lastSeq |-> feedPage.lastSeq,
                       connectedOnce |-> TRUE]
      BY <3>1 DEF PageInv, PageIsShaped
    <3>3. QED
      BY <3>2
  <2>2. CASE Join
    BY <2>2 DEF Join, PageInv, PageIsShaped
  <2>3. QED
    BY <2>1, <2>2
<1>3. \A a \in asks' : a \in Shape(a) /\ a.rows \subseteq storedLines /\ a.joined = FALSE
  <2>1. \A a \in asks : a \in Shape(a) /\ a.rows \subseteq storedLines /\ a.joined = FALSE
    BY <1>1 DEF PageInv, PageIsShaped, AskInv, Shape
  <2>2. asks' \subseteq asks \cup {AskFrom(ReplayFrom)}
    BY DEF Connect, Join
  <2>3. QED
    BY <2>1, <2>2, AskedFresh
<1>4. PageIsShaped'
  BY <1>2, <1>3 DEF PageIsShaped, Shape
<1>5. ASSUME NEW a \in asks' PROVE AskInv(a)'
  BY <1>1, <1>3 DEF AskInv
<1>6. QED
  BY <1>1, <1>2, <1>4, <1>5 DEF PageInv

(* A replay is read: in the room, and with nothing left out, it has all    *)
(* that is stored.                                                         *)
LEMMA ReadStep ==
  ASSUME WriterInv, PageInv, Logged, NEW a \in asks, ReadStored(a), Sending' = Sending
  PROVE  PageInv' /\ UNCHANGED serverVars
<1> DEFINE taken == AnswerTo(a.from)
           whole == taken = LinesAfter(a.from)
           read == [a EXCEPT !.read = TRUE, !.joined = socket = "joined" /\ whole, !.rows = taken]
<1>1. /\ asks' = (asks \ {a}) \cup {read}
      /\ UNCHANGED <<feed, seeded, seeding, writer, lines, storedLines, over, socket, feedPage,
                     resumed>>
      /\ counter' = counter
  BY DEF ReadStored, Primed, Logged
<1>2. a \in Shape(a)
  BY DEF PageInv, PageIsShaped
<1>3. taken \subseteq storedLines
  BY DEF AnswerTo, LinesAfter
<1>4. a.from = 0 => LinesAfter(a.from) = storedLines
  BY DEF LinesAfter, WriterInv, WritersAreTyped, Numbered, Numbers
<1> HIDE DEF taken
<1>5. PICK in \in BOOLEAN : in = (socket = "joined" /\ taken = LinesAfter(a.from))
  OBVIOUS
<1>6. /\ read \in Shape(read) /\ read.rows = taken /\ read.joined = in /\ read.from = a.from
  BY <1>2, <1>5 DEF Shape
<1>7. PICK answer :
        /\ asks' = (asks \ {a}) \cup {answer} /\ answer \in Shape(answer)
        /\ answer.rows \subseteq storedLines /\ answer.joined \in BOOLEAN
        /\ answer.joined => socket = "joined" /\ answer.rows = LinesAfter(a.from)
        /\ answer.from = a.from
  <2> HIDE DEF read
  <2>1. QED
    BY <1>1, <1>3, <1>5, <1>6
<1>8. ASSUME NEW b \in asks' PROVE AskInv(b)' /\ b \in Shape(b)
  <2>1. CASE b = answer
    BY <1>1, <1>4, <1>7, <2>1 DEF AskInv
  <2>2. CASE b # answer
    <3>1. b \in asks
      BY <1>7, <2>2
    <3>2. QED
      BY <1>1, <3>1 DEF PageInv, PageIsShaped, AskInv, Shape
  <2>3. QED
    BY <2>1, <2>2
<1>9. UNCHANGED serverVars
  BY <1>1 DEF serverVars
<1>10. QED
  BY <1>1, <1>8, <1>9 DEF PageInv, PageIsShaped

(* A replay arrives, or fails.                                             *)
LEMMA ReceiveStep ==
  ASSUME WriterInv, PageInv, Logged, NEW a \in asks, ReceiveReplay(a), Sending' = Sending
  PROVE  PageInv' /\ UNCHANGED serverVars
<1>1. /\ asks' = asks \ {a} /\ AppendRows(a.rows) /\ UNCHANGED <<serverVars, socket>>
      /\ resumed' = IF ~a.joined \/ resumed = "whole" THEN resumed
                    ELSE IF a.from = 0 THEN "whole" ELSE "tail"
  BY DEF ReceiveReplay
<1>2. a.rows \in SUBSET storedLines
  BY DEF PageInv, AskInv
<1>3. /\ feedPage'.rows = feedPage.rows \cup a.rows
      /\ feedPage' = [rows |-> feedPage'.rows, lastSeq |-> feedPage'.lastSeq,
                      connectedOnce |-> feedPage'.connectedOnce]
  BY <1>1, <1>2, AppendEffect
<1>4. storedLines' = storedLines
  BY <1>1 DEF serverVars
<1>5. ASSUME NEW b \in asks' PROVE AskInv(b)' /\ b \in Shape(b)
  BY <1>1, <1>3, <1>4 DEF PageInv, PageIsShaped, AskInv, Shape
<1>6. /\ resumed' # "no" => socket = "joined"
      /\ resumed' = "whole" => storedLines \subseteq feedPage'.rows \cup Sending
  BY <1>1, <1>3 DEF PageInv, AskInv
<1>7. QED
  BY <1>1, <1>2, <1>3, <1>4, <1>5, <1>6 DEF PageInv, PageIsShaped, Shape

LEMMA FeedInvInit == FeedInit => FeedInv
<1> SUFFICES ASSUME FeedInit, Logged PROVE WriterInv /\ PageInv
  BY DEF FeedInv
<1>1. NotWriting \in WriterStates /\ NotWriting.pc = "idle"
  BY DEF NotWriting, WriterStates
<1>2. Saving = {} /\ Sending = {}
  BY <1>1 DEF FeedInit, Saving, Sending, WriterAt
<1>3. WriterInv
  BY <1>1, <1>2 DEF FeedInit, Logged, WriterInv, WritersAreTyped, SeedsAlone, NumbersAreNew,
                    Numbered, HasHighest, WriterAt
<1>4. PageInv
  <2>1. /\ feedPage = [rows |-> {}, lastSeq |-> 0, connectedOnce |-> FALSE]
        /\ asks = {AskFrom(0)} /\ resumed = "no"
    BY DEF FeedInit, Opened
  <2>2. QED
    BY <2>1, AskedFresh DEF PageInv, PageIsShaped, AskInv, Shape
<1>5. QED
  BY <1>3, <1>4

LEMMA FeedInvNext == FeedInv /\ [FeedNext]_feedVars => FeedInv'
<1> SUFFICES ASSUME FeedInv, [FeedNext]_feedVars, Logged' PROVE (WriterInv /\ PageInv)'
  BY DEF FeedInv
<1>1. CASE \E w \in Writers : StartWrite(w) \/ ReadHighest(w) \/ Seed(w) \/ TakeNumber(w)
  <2>1. PICK w \in Writers : StartWrite(w) \/ ReadHighest(w) \/ Seed(w) \/ TakeNumber(w)
    BY <1>1
  <2>2. Logged /\ UNCHANGED <<storedLines, pageVars>>
    BY <2>1 DEF StartWrite, ReadHighest, Seed, TakeNumber, Logged
  <2>3. WriterInv /\ PageInv
    BY <2>2 DEF FeedInv
  <2>4. WriterInv' /\ Sending' = Sending
    BY <2>1, <2>2, <2>3, StartStep, NewNumber
  <2>5. QED
    BY <2>2, <2>3, <2>4, PageAtRest
<1>2. CASE \E w \in Writers : FailSeed(w) \/ LoseLine(w) \/ EmitEvent(w)
  BY <1>2 DEF FailSeed, LoseLine, EmitEvent, Logged
<1>3. CASE \E w \in Writers : SaveLine(w) \/ EmitLine(w)
  <2>1. PICK w \in Writers : SaveLine(w) \/ EmitLine(w)
    BY <1>3
  <2>2. Logged
    BY <2>1 DEF SaveLine, EmitLine, Logged
  <2>3. QED
    BY <2>1, <2>2, SaveStep, LineSentStep DEF FeedInv
<1>4. CASE Release \/ Restart
  <2>1. Logged
    BY <1>4 DEF Release, Restart, Logged
  <2>2. QED
    BY <1>4, <2>1, ForgetStep DEF FeedInv
<1>5. CASE EndRun \/ UNCHANGED feedVars
  <2>1. /\ UNCHANGED <<feed, counter, seeded, seeding, writer, lines, storedLines, pageVars>>
        /\ unsafe' = unsafe
    BY <1>5 DEF EndRun, feedVars, serverVars
  <2>2. Logged
    BY <2>1 DEF Logged
  <2>3. QED
    BY <2>1, <2>2, WritersAtRest, PageAtRest DEF FeedInv
<1>6. CASE Console
  <2>1. UNCHANGED <<feed, seeded, seeding, writer, lines, storedLines, unsafe>>
    BY <1>6 DEF Console, Connect, Join, Disconnect, Resubscribe, Reload, PollRun, ReadStored,
                ReceiveReplay, FailReplay, serverVars
  <2>2. Logged
    BY <2>1 DEF Logged
  <2>3. WriterInv /\ PageInv
    BY <2>2 DEF FeedInv
  <2>4. Sending' = Sending
    BY <2>1, SetsAreKept
  <2>5. PageInv' /\ UNCHANGED serverVars
    <3>1. CASE Connect \/ Join
      BY <2>3, <2>4, <3>1, ConnectStep
    <3>2. CASE Disconnect \/ Resubscribe \/ PollRun \/ Reload
      BY <2>3, <3>2, LeaveStep
    <3>3. ASSUME NEW a \in asks, ReadStored(a) PROVE PageInv' /\ UNCHANGED serverVars
      BY <2>2, <2>3, <2>4, <3>3, ReadStep
    <3>4. ASSUME NEW a \in asks, ReceiveReplay(a) PROVE PageInv' /\ UNCHANGED serverVars
      BY <2>2, <2>3, <2>4, <3>4, ReceiveStep
    <3>5. ASSUME NEW a \in asks, FailReplay(a) PROVE PageInv' /\ UNCHANGED serverVars
      <4>1. UNCHANGED <<serverVars, socket, feedPage, resumed, storedLines>> /\ asks' = asks \ {a}
        BY <3>5 DEF FailReplay, serverVars
      <4>2. ASSUME NEW b \in asks' PROVE AskInv(b)'
        BY <2>3, <2>4, <4>1 DEF PageInv, AskInv
      <4>3. QED
        BY <2>3, <2>4, <4>1, <4>2 DEF PageInv, PageIsShaped
    <3>6. QED
      BY <1>6, <3>1, <3>2, <3>3, <3>4, <3>5 DEF Console
  <2>6. UNCHANGED <<feed, counter, seeded, seeding, writer, lines, storedLines>>
    BY <2>5 DEF serverVars
  <2>7. QED
    BY <2>3, <2>5, <2>6, WritersAtRest
<1>7. QED
  BY <1>1, <1>2, <1>3, <1>4, <1>5, <1>6 DEF FeedNext, Writer, Server

(* A log that a console in the room has read whole is shown without a gap, *)
(* for any number of writers, lines, replays and restarts: what is stored  *)
(* after the read is sent to the room, and no number is given twice, so a  *)
(* new line is never taken for one that is shown.                          *)
THEOREM WholeReplaysHaveNoGap == FeedSpec => []WholeReplayHasNoGap
<1>1. FeedInv => WholeReplayHasNoGap
  BY DEF FeedInv, Logged, PageInv, Sending, RowOf, WholeReplayHasNoGap
<1>2. QED
  BY <1>1, FeedInvInit, FeedInvNext, PTL DEF FeedSpec

-----------------------------------------------------------------------------
(* The types of a feed.  A line is counted when its write starts, so that  *)
(* those with a number and those without stay within the bound.            *)
FeedWriters == [pc : {"idle", "read", "seed", "wait", "take", "save", "emit"},
                on : SUBSET Writers, base : Nat, seq : Nat, line : 0..MaxLines]
FeedPages == [rows : SUBSET NumberedLine, lastSeq : Nat, connectedOnce : BOOLEAN]
Numberless == {w \in Writers : writer[w].pc \in {"read", "seed", "wait", "take"}}
BoundedRows(taken) == \E n \in Nat : \A r \in taken : r.seq <= n

ServerTyped ==
  /\ feed \in {"log", "timeline", "job"}
  /\ counter \in Nat /\ seeded \in BOOLEAN /\ over \in BOOLEAN /\ unsafe \in BOOLEAN
  /\ seeding = {} \/ \E w \in Writers : seeding = {w}
  /\ writer \in [Writers -> FeedWriters]
  /\ \A w \in Writers : writer[w].pc \in {"save", "emit"} => writer[w].seq > 0 /\ writer[w].line > 0
  /\ \A w \in Writers : writer[w].on # {} => writer[w].pc = "wait"
  /\ lines \in Nat /\ lines + Cardinality(Numberless) <= MaxLines
  /\ storedLines \subseteq NumberedLine /\ BoundedRows(storedLines)

PageTyped ==
  /\ socket \in {"off", "connected", "joined", "closed"}
  /\ feedPage \in FeedPages
  /\ asks \subseteq Ask /\ \A a \in asks : BoundedRows(a.rows)
  /\ delivered \subseteq 1..MaxLines
  /\ resumed \in {"no", "tail", "whole"}

FeedTyped == ServerTyped /\ PageTyped

(* Every set of numbers has a least one, so a bounded one has a highest.   *)
LEMMA LeastNumber ==
  ASSUME NEW T \in SUBSET Nat, T # {}
  PROVE  \E n \in T : \A m \in T : n <= m
<1> DEFINE R == {p \in Nat \X Nat : p[1] < p[2]}
<1>1. IsWellFoundedOn(R, Nat)
  BY NatLessThanWellFounded DEF OpToRel
<1> HIDE DEF R
<1>2. PICK n \in T : \A m \in T : <<m, n>> \notin R
  BY <1>1, WFMin
<1>3. \A m \in T : ~(m < n)
  BY <1>2 DEF R
<1>4. QED
  BY <1>2, <1>3

LEMMA HighestNumber ==
  ASSUME NEW S \in SUBSET Nat, S # {}, NEW bound \in Nat, \A n \in S : n <= bound
  PROVE  Max(S) \in S /\ \A n \in S : n <= Max(S)
<1> DEFINE below == {bound - n : n \in S}
<1>1. below \in SUBSET Nat /\ below # {}
  <2>1. \A n \in S : bound - n \in Nat
    OBVIOUS
  <2>2. QED
    BY <2>1
<1>2. PICK k \in below : \A m \in below : k <= m
  BY <1>1, LeastNumber
<1>3. PICK x \in S : k = bound - x
  BY <1>2
<1>4. \A n \in S : bound - x <= bound - n
  BY <1>2, <1>3
<1>5. \A n \in S : x >= n
  BY <1>4
<1>6. Max(S) \in S /\ \A n \in S : Max(S) >= n
  BY <1>5 DEF Max
<1>7. QED
  BY <1>6

LEMMA HighestIsNumber ==
  ASSUME NEW taken \in SUBSET NumberedLine, BoundedRows(taken), NEW n \in Nat
  PROVE  HighestOf(taken) \in Nat /\ Max({n} \cup SeqsOf(taken)) \in Nat
<1>1. PICK b \in Nat : \A r \in taken : r.seq <= b
  BY DEF BoundedRows
<1>2. SeqsOf(taken) \in SUBSET Nat /\ \A k \in SeqsOf(taken) : k <= b
  BY <1>1 DEF SeqsOf, NumberedLine
<1>3. HighestOf(taken) \in Nat
  <2>1. CASE taken = {}
    BY <2>1 DEF HighestOf
  <2>2. CASE taken # {}
    <3>1. SeqsOf(taken) # {}
      BY <2>2 DEF SeqsOf
    <3>2. QED
      BY <1>2, <2>2, <3>1, HighestNumber DEF HighestOf
  <2>3. QED
    BY <2>1, <2>2
<1>4. PICK S \in SUBSET Nat : S = {n} \cup SeqsOf(taken)
  BY <1>2
<1>5. \A k \in S : k <= b + n
  BY <1>2, <1>4
<1>6. S # {} /\ b + n \in Nat
  BY <1>4
<1>7. Max(S) \in Nat
  BY <1>5, <1>6, HighestNumber
<1>8. QED
  BY <1>3, <1>4, <1>7

LEMMA FewerRows ==
  ASSUME NEW taken, BoundedRows(taken), NEW some \in SUBSET taken
  PROVE  BoundedRows(some)
  BY DEF BoundedRows

(* What arrives leaves the page a page.                                    *)
LEMMA AppendTyped ==
  ASSUME PageTyped, NEW new \in SUBSET NumberedLine, BoundedRows(new), AppendRows(new)
  PROVE  feedPage' \in FeedPages /\ delivered' \subseteq 1..MaxLines
<1> DEFINE fresh == Fresh(new)
           kept == {r \in feedPage.rows : r.seq \notin SeqsOf(fresh)}
           highest == Max({feedPage.lastSeq} \cup SeqsOf(fresh))
<1>1. fresh \subseteq new
  BY DEF Fresh
<1>2. feedPage.rows \subseteq NumberedLine /\ feedPage.lastSeq \in Nat
  BY DEF PageTyped, FeedPages
<1>3. kept \cup fresh \subseteq NumberedLine
  BY <1>1, <1>2
<1>4. highest \in Nat
  BY <1>1, <1>2, FewerRows, HighestIsNumber
<1>5. feedPage' = [feedPage EXCEPT !.rows = kept \cup fresh, !.lastSeq = highest]
  BY DEF AppendRows
<1>6. delivered' = delivered \cup {r.line : r \in new}
  BY DEF AppendRows
<1> HIDE DEF fresh, kept, highest
<1>7. feedPage' \in FeedPages
  BY <1>3, <1>4, <1>5 DEF PageTyped, FeedPages
<1>8. delivered' \subseteq 1..MaxLines
  BY <1>6 DEF PageTyped, NumberedLine
<1>9. QED
  BY <1>7, <1>8

LEMMA BroadcastTyped ==
  ASSUME PageTyped, NEW seq \in Nat \ {0}, NEW line \in 1..MaxLines, Broadcast(seq, line)
  PROVE  feedPage' \in FeedPages /\ delivered' \subseteq 1..MaxLines
<1>1. CASE socket = "joined"
  <2>0. [seq |-> seq, line |-> line] \in NumberedLine
    BY DEF NumberedLine
  <2>1. PICK new \in SUBSET NumberedLine : new = {[seq |-> seq, line |-> line]}
    BY <2>0
  <2>2. BoundedRows(new)
    BY <2>1 DEF BoundedRows
  <2>3. AppendRows(new)
    BY <1>1, <2>1 DEF Broadcast
  <2>4. QED
    BY <2>2, <2>3, AppendTyped
<1>2. CASE socket # "joined"
  BY <1>2 DEF Broadcast, PageTyped
<1>3. QED
  BY <1>1, <1>2

LEMMA PageRests ==
  ASSUME PageTyped, feedPage' \in FeedPages, delivered' \subseteq 1..MaxLines,
         UNCHANGED <<socket, asks, resumed>>
  PROVE  PageTyped'
  BY DEF PageTyped

LEMMA PageUnmoved ==
  ASSUME PageTyped, UNCHANGED pageVars PROVE PageTyped'
  BY DEF PageTyped, pageVars

(* The writes without a number.                                            *)
LEMMA NumberlessAreCounted ==
  ASSUME IsFiniteSet(Writers), ServerTyped
  PROVE  IsFiniteSet(Numberless) /\ Cardinality(Numberless) \in Nat
<1>1. Numberless \in SUBSET Writers
  BY DEF Numberless
<1>2. QED
  BY <1>1, FS_Subset, FS_CardinalityType

LEMMA FewerNumberless ==
  ASSUME IsFiniteSet(Writers), MaxLines \in Nat, ServerTyped, lines' = lines,
         Numberless' \subseteq Numberless
  PROVE  lines' \in Nat /\ lines' + Cardinality(Numberless') <= MaxLines
<1>1. IsFiniteSet(Numberless) /\ Cardinality(Numberless) \in Nat
  BY NumberlessAreCounted
<1>2. PICK some : some = Numberless'
  OBVIOUS
<1>3. IsFiniteSet(some) /\ Cardinality(some) <= Cardinality(Numberless)
  BY <1>1, <1>2, FS_Subset
<1>4. Cardinality(some) \in Nat
  BY <1>3, FS_CardinalityType
<1>5. QED
  BY <1>1, <1>2, <1>3, <1>4 DEF ServerTyped

LEMMA OneMoreNumberless ==
  ASSUME IsFiniteSet(Writers), MaxLines \in Nat, ServerTyped, NEW w \in Writers,
         WriterAt(w, "idle"), lines + Cardinality(InFlight) < MaxLines,
         lines' = lines, Numberless' = Numberless \cup {w}
  PROVE  lines' \in Nat /\ lines' + Cardinality(Numberless') <= MaxLines
<1>1. IsFiniteSet(Numberless) /\ Cardinality(Numberless) \in Nat
  BY NumberlessAreCounted
<1>2. InFlight \in SUBSET Writers /\ Numberless \in SUBSET InFlight /\ w \notin Numberless
  BY DEF InFlight, Numberless, WriterAt
<1>3. IsFiniteSet(InFlight) /\ Cardinality(Numberless) <= Cardinality(InFlight)
  BY <1>2, FS_Subset
<1>4. Cardinality(InFlight) \in Nat
  BY <1>3, FS_CardinalityType
<1>5. Cardinality(Numberless \cup {w}) = Cardinality(Numberless) + 1
  BY <1>1, <1>2, FS_AddElement
<1>6. QED
  BY <1>1, <1>3, <1>4, <1>5 DEF ServerTyped

LEMMA OneLessNumberless ==
  ASSUME IsFiniteSet(Writers), MaxLines \in Nat, ServerTyped, NEW w \in Writers,
         WriterAt(w, "take"), lines' = lines + 1, Numberless' = Numberless \ {w}
  PROVE  /\ lines' \in 1..MaxLines /\ lines' \in Nat
         /\ lines' + Cardinality(Numberless') <= MaxLines
<1>1. IsFiniteSet(Numberless) /\ Cardinality(Numberless) \in Nat
  BY NumberlessAreCounted
<1>2. w \in Numberless
  BY DEF Numberless, WriterAt
<1>3. Cardinality(Numberless \ {w}) = Cardinality(Numberless) - 1
  BY <1>1, <1>2, FS_RemoveElement
<1>4. IsFiniteSet(Numberless \ {w})
  BY <1>1, FS_Subset
<1>5. Cardinality(Numberless \ {w}) \in Nat
  BY <1>4, FS_CardinalityType
<1>6. QED
  BY <1>1, <1>3, <1>5 DEF ServerTyped

(* A writer that moves on.                                                 *)
LEMMA WriterMoves ==
  ASSUME ServerTyped, NEW w \in Writers, NEW r \in FeedWriters, WriterIs(w, r),
         r.pc \in {"save", "emit"} => r.seq > 0 /\ r.line > 0,
         r.on # {} => r.pc = "wait"
  PROVE  /\ writer' \in [Writers -> FeedWriters]
         /\ \A v \in Writers : writer'[v].pc \in {"save", "emit"} =>
              writer'[v].seq > 0 /\ writer'[v].line > 0
         /\ \A v \in Writers : writer'[v].on # {} => writer'[v].pc = "wait"
         /\ Numberless' = IF r.pc \in {"read", "seed", "wait", "take"}
                          THEN Numberless \cup {w} ELSE Numberless \ {w}
<1>1. writer' \in [Writers -> FeedWriters] /\ writer'[w] = r
      /\ \A v \in Writers \ {w} : writer'[v] = writer[v]
  BY DEF WriterIs, ServerTyped
<1>2. QED
  BY <1>1 DEF ServerTyped, Numberless

LEMMA NotWritingShape ==
  ASSUME MaxLines \in Nat
  PROVE  NotWriting \in FeedWriters /\ NotWriting.pc = "idle" /\ NotWriting.on = {}
  BY DEF NotWriting, FeedWriters

LEMMA StartingShape ==
  ASSUME MaxLines \in Nat, NEW pc \in {"read", "wait"}, NEW on \in SUBSET Writers
  PROVE  /\ [NotWriting EXCEPT !.pc = pc, !.on = on] \in FeedWriters
         /\ [NotWriting EXCEPT !.pc = pc, !.on = on].pc = pc
         /\ [NotWriting EXCEPT !.pc = pc, !.on = on].on = on
<1>1. PICK h : h = [NotWriting EXCEPT !.pc = pc, !.on = on]
  OBVIOUS
<1>2. h = [pc |-> pc, on |-> on, base |-> 0, seq |-> 0, line |-> 0]
  BY <1>1 DEF NotWriting
<1>3. h \in FeedWriters
  BY <1>2 DEF FeedWriters
<1>4. QED
  BY <1>1, <1>2, <1>3

LEMMA SeedingShape ==
  ASSUME MaxLines \in Nat, NEW n \in Nat
  PROVE  \E h \in FeedWriters :
           h = [NotWriting EXCEPT !.pc = "seed", !.base = n] /\ h.pc = "seed" /\ h.on = {}
<1>1. PICK h : h = [NotWriting EXCEPT !.pc = "seed", !.base = n]
  OBVIOUS
<1>2. h = [pc |-> "seed", on |-> {}, base |-> n, seq |-> 0, line |-> 0]
  BY <1>1 DEF NotWriting
<1>3. h \in FeedWriters
  BY <1>2 DEF FeedWriters
<1>4. h.pc = "seed" /\ h.on = {}
  BY <1>2
<1>5. QED
  BY <1>1, <1>3, <1>4

LEMMA TakingShape ==
  ASSUME MaxLines \in Nat
  PROVE  /\ [NotWriting EXCEPT !.pc = "take"] \in FeedWriters
         /\ [NotWriting EXCEPT !.pc = "take"].pc = "take"
         /\ [NotWriting EXCEPT !.pc = "take"].on = {}
  BY DEF NotWriting, FeedWriters

LEMMA GoingShape ==
  ASSUME MaxLines \in Nat, NEW h \in FeedWriters, NEW pc \in {"idle", "emit"},
         (h.pc = "save" /\ pc = "emit") \/ pc = "idle", h.on = {}, h.seq > 0, h.line > 0
  PROVE  \E g \in FeedWriters :
           /\ g = IF pc = "idle" THEN NotWriting ELSE [h EXCEPT !.pc = pc]
           /\ g.pc = pc /\ g.on = {}
           /\ g.pc \in {"save", "emit"} => g.seq > 0 /\ g.line > 0
<1>1. CASE pc = "idle"
  BY <1>1, NotWritingShape
<1>2. CASE pc = "emit"
  <2>1. PICK g : g = [h EXCEPT !.pc = pc]
    OBVIOUS
  <2>2. g \in FeedWriters /\ g.pc = pc /\ g.on = h.on /\ g.seq = h.seq /\ g.line = h.line
    BY <1>2, <2>1 DEF FeedWriters
  <2>3. QED
    BY <1>2, <2>1, <2>2
<1>3. QED
  BY <1>1, <1>2

-----------------------------------------------------------------------------
(* Every step keeps the types.                                             *)
LEMMA StartTyped ==
  ASSUME IsFiniteSet(Writers), MaxLines \in Nat, FeedTyped, NEW w \in Writers, StartWrite(w)
  PROVE  FeedTyped'
<1>1. /\ WriterAt(w, "idle") /\ lines + Cardinality(InFlight) < MaxLines
      /\ UNCHANGED <<feed, counter, seeded, lines, storedLines, over, unsafe>>
      /\ UNCHANGED pageVars
  BY DEF StartWrite
<1>2. PICK r \in FeedWriters :
        WriterIs(w, r) /\ r.pc \in {"read", "wait", "take"} /\ (r.on # {} => r.pc = "wait")
  <2>1. CASE WriterGoes(w, "take")
    <3>1. PICK h : h = [writer[w] EXCEPT !.pc = "take"]
      OBVIOUS
    <3>2. h \in FeedWriters /\ h.pc = "take" /\ h.on = writer[w].on
      BY <3>1 DEF FeedTyped, ServerTyped, FeedWriters
    <3>3. h.on = {}
      BY <1>1, <3>2 DEF FeedTyped, ServerTyped, WriterAt
    <3>4. WriterIs(w, h)
      BY <2>1, <3>1 DEF WriterGoes
    <3>5. QED
      BY <3>2, <3>3, <3>4
  <2>2. CASE WriterIs(w, [NotWriting EXCEPT !.pc = IF seeding = {} THEN "read" ELSE "wait",
                                            !.on = seeding])
    <3>1. PICK pc \in {"read", "wait"} : pc = IF seeding = {} THEN "read" ELSE "wait"
      OBVIOUS
    <3>2. PICK on \in SUBSET Writers : on = seeding
      BY DEF FeedTyped, ServerTyped
    <3>3. PICK h : h = [NotWriting EXCEPT !.pc = pc, !.on = on]
      OBVIOUS
    <3>4. h \in FeedWriters /\ h.pc = pc /\ h.on = on
      BY <3>3, StartingShape
    <3>5. WriterIs(w, h)
      BY <2>2, <3>1, <3>2, <3>3
    <3>6. QED
      BY <3>1, <3>2, <3>4, <3>5
  <2>3. QED
    BY <2>1, <2>2 DEF StartWrite
<1>3. /\ writer' \in [Writers -> FeedWriters]
      /\ \A v \in Writers : writer'[v].pc \in {"save", "emit"} =>
           writer'[v].seq > 0 /\ writer'[v].line > 0
      /\ \A v \in Writers : writer'[v].on # {} => writer'[v].pc = "wait"
      /\ Numberless' = Numberless \cup {w}
  BY <1>2, WriterMoves DEF FeedTyped
<1>4. lines' \in Nat /\ lines' + Cardinality(Numberless') <= MaxLines
  BY <1>1, <1>3, OneMoreNumberless DEF FeedTyped
<1>5. seeding' = {} \/ \E v \in Writers : seeding' = {v}
  BY DEF StartWrite, FeedTyped, ServerTyped
<1>6. ServerTyped'
  BY <1>1, <1>3, <1>4, <1>5 DEF FeedTyped, ServerTyped, BoundedRows
<1>7. QED
  BY <1>1, <1>6, PageUnmoved DEF FeedTyped

LEMMA ReadHighestTyped ==
  ASSUME IsFiniteSet(Writers), MaxLines \in Nat, FeedTyped, NEW w \in Writers, ReadHighest(w)
  PROVE  FeedTyped'
<1>1. /\ WriterAt(w, "read") /\ UNCHANGED pageVars
      /\ UNCHANGED <<feed, counter, seeded, seeding, lines, storedLines, over, unsafe>>
  BY DEF ReadHighest
<1>2. PICK n \in Nat : n = HighestOf(storedLines)
  <2>1. storedLines \in SUBSET NumberedLine /\ BoundedRows(storedLines)
    BY DEF FeedTyped, ServerTyped
  <2>2. 0 \in Nat
    OBVIOUS
  <2>3. QED
    BY <2>1, <2>2, HighestIsNumber
<1>3. PICK r \in FeedWriters :
        r = [NotWriting EXCEPT !.pc = "seed", !.base = n] /\ r.pc = "seed" /\ r.on = {}
  BY SeedingShape
<1>4. WriterIs(w, r)
  BY <1>2, <1>3 DEF ReadHighest
<1>5. /\ writer' \in [Writers -> FeedWriters]
      /\ \A v \in Writers : writer'[v].pc \in {"save", "emit"} =>
           writer'[v].seq > 0 /\ writer'[v].line > 0
      /\ \A v \in Writers : writer'[v].on # {} => writer'[v].pc = "wait"
      /\ Numberless' = Numberless \cup {w}
  BY <1>3, <1>4, WriterMoves DEF FeedTyped
<1>6. Numberless' = Numberless
  BY <1>1, <1>5 DEF Numberless, WriterAt
<1>7. lines' \in Nat /\ lines' + Cardinality(Numberless') <= MaxLines
  BY <1>1, <1>6, FewerNumberless DEF FeedTyped
<1>8. ServerTyped'
  BY <1>1, <1>5, <1>7 DEF FeedTyped, ServerTyped, BoundedRows
<1>9. QED
  BY <1>1, <1>8, PageUnmoved DEF FeedTyped

LEMMA SeedTyped ==
  ASSUME IsFiniteSet(Writers), MaxLines \in Nat, FeedTyped, NEW w \in Writers,
         Seed(w) \/ FailSeed(w)
  PROVE  FeedTyped'
<1>1. /\ writer[w].pc \in {"seed", "read"}
      /\ UNCHANGED <<feed, lines, storedLines, over>> /\ UNCHANGED pageVars
      /\ seeded' = TRUE /\ seeding' = {} /\ unsafe' \in {unsafe, TRUE}
  BY DEF Seed, FailSeed, WriterAt
<1>2. counter' \in Nat
  <2>1. CASE Seed(w)
    <3>1. writer[w].base \in Nat /\ counter \in Nat
      BY DEF FeedTyped, ServerTyped, FeedWriters
    <3>2. QED
      BY <2>1, <3>1, MaxOfTwo DEF Seed, SeededCounter
  <2>2. CASE FailSeed(w)
    BY <2>2 DEF FailSeed, FeedTyped, ServerTyped
  <2>3. QED
    BY <2>1, <2>2
<1>3. PICK r \in FeedWriters :
        /\ r.pc \in {"idle", "take"} /\ r.on = {}
        /\ writer' = [v \in Writers |-> IF v \in Waiting(w) THEN r ELSE writer[v]]
  <2>1. CASE Seed(w)
    BY <2>1, TakingShape DEF Seed
  <2>2. CASE FailSeed(w)
    BY <2>2, NotWritingShape DEF FailSeed
  <2>3. QED
    BY <2>1, <2>2
<1>4. \A v \in Waiting(w) : v \in Numberless
  BY <1>1 DEF Waiting, Numberless, FeedTyped, ServerTyped
<1>5. /\ writer' \in [Writers -> FeedWriters]
      /\ \A v \in Writers : writer'[v].pc \in {"save", "emit"} =>
           writer'[v].seq > 0 /\ writer'[v].line > 0
      /\ \A v \in Writers : writer'[v].on # {} => writer'[v].pc = "wait"
  BY <1>3 DEF FeedTyped, ServerTyped
<1>6. Numberless' \subseteq Numberless
  BY <1>3, <1>4 DEF Numberless
<1>7. lines' \in Nat /\ lines' + Cardinality(Numberless') <= MaxLines
  BY <1>1, <1>6, FewerNumberless DEF FeedTyped
<1>8. ServerTyped'
  BY <1>1, <1>2, <1>5, <1>7 DEF FeedTyped, ServerTyped, BoundedRows
<1>9. QED
  BY <1>1, <1>8, PageUnmoved DEF FeedTyped

LEMMA NumberTyped ==
  ASSUME IsFiniteSet(Writers), MaxLines \in Nat, FeedTyped, NEW w \in Writers,
         TakeNumber(w) \/ EmitEvent(w)
  PROVE  FeedTyped'
<1>1. /\ WriterAt(w, "take") /\ counter' = counter + 1 /\ lines' = lines + 1
      /\ UNCHANGED <<feed, seeded, seeding, storedLines, over, unsafe, socket, asks, resumed>>
      /\ WriterIs(w, [NotWriting EXCEPT !.pc = "save", !.seq = counter', !.line = lines'])
  BY DEF TakeNumber, EmitEvent, pageVars
<1>2. counter' \in Nat \ {0}
  BY <1>1 DEF FeedTyped, ServerTyped
<1>3. /\ \A v \in Writers \ {w} : writer'[v] = writer[v]
      /\ writer'[w].pc = "save"
  BY <1>1 DEF WriterIs, FeedTyped, ServerTyped, NotWriting
<1>4. Numberless' = Numberless \ {w}
  BY <1>3 DEF Numberless
<1>5. /\ lines' \in 1..MaxLines /\ lines' \in Nat
      /\ lines' + Cardinality(Numberless') <= MaxLines
  BY <1>1, <1>4, OneLessNumberless DEF FeedTyped
<1>6. PICK n \in Nat, l \in 0..MaxLines : n = counter' /\ l = lines' /\ n > 0 /\ l > 0
  BY <1>2, <1>5
<1>7. PICK r \in FeedWriters :
        /\ r = [NotWriting EXCEPT !.pc = "save", !.seq = n, !.line = l]
        /\ r.pc = "save" /\ r.on = {} /\ r.seq = n /\ r.line = l
  <2>1. PICK h : h = [NotWriting EXCEPT !.pc = "save", !.seq = n, !.line = l]
    OBVIOUS
  <2>2. h = [pc |-> "save", on |-> {}, base |-> 0, seq |-> n, line |-> l]
    BY <2>1 DEF NotWriting
  <2>3. h \in FeedWriters
    BY <2>2 DEF FeedWriters
  <2>4. h.pc = "save" /\ h.on = {} /\ h.seq = n /\ h.line = l
    BY <2>2
  <2>5. QED
    BY <2>1, <2>3, <2>4
<1>8. WriterIs(w, r)
  BY <1>1, <1>6, <1>7
<1>9. /\ writer' \in [Writers -> FeedWriters]
      /\ \A v \in Writers : writer'[v].pc \in {"save", "emit"} =>
           writer'[v].seq > 0 /\ writer'[v].line > 0
      /\ \A v \in Writers : writer'[v].on # {} => writer'[v].pc = "wait"
  <2>1. r.seq > 0 /\ r.line > 0 /\ r.on = {}
    BY <1>6, <1>7
  <2>2. QED
    BY <1>8, <2>1, WriterMoves DEF FeedTyped
<1>10. ServerTyped'
  BY <1>1, <1>2, <1>5, <1>9 DEF FeedTyped, ServerTyped, BoundedRows
<1>11. PageTyped'
  <2>1. CASE TakeNumber(w)
    BY <2>1, PageUnmoved DEF TakeNumber, FeedTyped
  <2>2. CASE EmitEvent(w)
    <3>1. Broadcast(n, l) /\ n \in Nat \ {0} /\ l \in 1..MaxLines
      BY <1>6, <2>2 DEF EmitEvent
    <3>2. feedPage' \in FeedPages /\ delivered' \subseteq 1..MaxLines
      BY <3>1, BroadcastTyped DEF FeedTyped
    <3>3. QED
      BY <1>1, <3>2, PageRests DEF FeedTyped
  <2>3. QED
    BY <2>1, <2>2
<1>12. QED
  BY <1>10, <1>11 DEF FeedTyped

LEMMA SavedLineTyped ==
  ASSUME IsFiniteSet(Writers), MaxLines \in Nat, FeedTyped, NEW w \in Writers,
         SaveLine(w) \/ LoseLine(w) \/ EmitLine(w)
  PROVE  FeedTyped'
<1>1. PICK pc \in {"idle", "emit"} :
        WriterGoes(w, pc) /\ ((WriterAt(w, "save") /\ pc = "emit") \/ pc = "idle")
  BY DEF SaveLine, LoseLine, EmitLine, AfterSave
<1>2. /\ writer[w].pc \in {"save", "emit"} /\ unsafe' \in {unsafe, TRUE}
      /\ UNCHANGED <<feed, counter, seeded, seeding, lines, over, socket, asks, resumed>>
  BY DEF SaveLine, LoseLine, EmitLine, WriterAt, pageVars
<1>3. /\ writer[w] \in FeedWriters /\ writer[w].on = {}
      /\ writer[w].seq > 0 /\ writer[w].line > 0
  BY <1>2 DEF FeedTyped, ServerTyped
<1>4. PICK r \in FeedWriters :
        /\ WriterIs(w, r) /\ r.pc \in {"idle", "emit"} /\ r.on = {}
        /\ r.pc \in {"save", "emit"} => r.seq > 0 /\ r.line > 0
  <2>1. PICK h \in FeedWriters : h = writer[w]
    BY <1>3
  <2>2. PICK r \in FeedWriters :
          /\ r = IF pc = "idle" THEN NotWriting ELSE [h EXCEPT !.pc = pc]
          /\ r.pc = pc /\ r.on = {}
          /\ r.pc \in {"save", "emit"} => r.seq > 0 /\ r.line > 0
    BY <1>1, <1>3, <2>1, GoingShape DEF WriterAt
  <2>3. WriterIs(w, r)
    BY <1>1, <2>1, <2>2 DEF WriterGoes
  <2>4. QED
    BY <2>2, <2>3
<1>5. /\ writer' \in [Writers -> FeedWriters]
      /\ \A v \in Writers : writer'[v].pc \in {"save", "emit"} =>
           writer'[v].seq > 0 /\ writer'[v].line > 0
      /\ \A v \in Writers : writer'[v].on # {} => writer'[v].pc = "wait"
      /\ Numberless' = Numberless \ {w}
  BY <1>4, WriterMoves DEF FeedTyped
<1>6. lines' \in Nat /\ lines' + Cardinality(Numberless') <= MaxLines
  BY <1>2, <1>5, FewerNumberless DEF FeedTyped
<1>7. PICK n \in Nat \ {0}, l \in 1..MaxLines : n = writer[w].seq /\ l = writer[w].line
  BY <1>3 DEF FeedWriters
<1>8. storedLines' \subseteq NumberedLine /\ BoundedRows(storedLines)'
  <2>1. CASE SaveLine(w)
    <3>1. PICK new \in NumberedLine : new = [seq |-> n, line |-> l]
      BY DEF NumberedLine
    <3>2. new.seq = n
      BY <3>1
    <3>3. storedLines' = storedLines \cup {new}
      BY <1>7, <2>1, <3>1 DEF SaveLine
    <3>4. PICK b \in Nat : \A q \in storedLines : q.seq <= b
      BY DEF FeedTyped, ServerTyped, BoundedRows
    <3>5. \A q \in storedLines' : q.seq <= b + n
      <4>1. \A q \in storedLines : q.seq \in Nat
        BY DEF FeedTyped, ServerTyped, NumberedLine
      <4>2. QED
        BY <3>2, <3>3, <3>4, <4>1
    <3>6. b + n \in Nat
      OBVIOUS
    <3>7. QED
      BY <3>3, <3>5, <3>6 DEF FeedTyped, ServerTyped, BoundedRows
  <2>2. CASE LoseLine(w) \/ EmitLine(w)
    BY <2>2 DEF LoseLine, EmitLine, FeedTyped, ServerTyped, BoundedRows
  <2>3. QED
    BY <2>1, <2>2
<1>9. ServerTyped'
  BY <1>2, <1>5, <1>6, <1>8 DEF FeedTyped, ServerTyped
<1>10. PageTyped'
  <2>1. CASE SaveLine(w) \/ LoseLine(w)
    BY <2>1, PageUnmoved DEF SaveLine, LoseLine, FeedTyped
  <2>2. CASE EmitLine(w)
    <3>1. Broadcast(n, l)
      BY <1>7, <2>2 DEF EmitLine
    <3>2. feedPage' \in FeedPages /\ delivered' \subseteq 1..MaxLines
      BY <3>1, BroadcastTyped DEF FeedTyped
    <3>3. QED
      BY <1>2, <3>2, PageRests DEF FeedTyped
  <2>3. QED
    BY <2>1, <2>2
<1>11. QED
  BY <1>9, <1>10 DEF FeedTyped

LEMMA ServerStepTyped ==
  ASSUME IsFiniteSet(Writers), MaxLines \in Nat, FeedTyped, Server
  PROVE  FeedTyped'
<1>1. CASE EndRun
  <2>1. Numberless' = Numberless
    BY <1>1 DEF EndRun, Numberless
  <2>2. ServerTyped'
    BY <1>1, <2>1 DEF EndRun, FeedTyped, ServerTyped, BoundedRows
  <2>3. QED
    BY <1>1, <2>2, PageUnmoved DEF EndRun, FeedTyped
<1>2. CASE Release
  <2>1. Numberless' = Numberless
    BY <1>2 DEF Release, Numberless
  <2>2. unsafe' \in BOOLEAN
    BY <1>2 DEF Release
  <2>3. ServerTyped'
    BY <1>2, <2>1, <2>2 DEF Release, FeedTyped, ServerTyped, BoundedRows
  <2>4. QED
    BY <1>2, <2>3, PageUnmoved DEF Release, FeedTyped
<1>3. CASE Restart
  <2>1. /\ writer' \in [Writers -> FeedWriters]
        /\ \A v \in Writers : writer'[v].pc = "idle" /\ writer'[v].on = {}
    BY <1>3, NotWritingShape DEF Restart
  <2>2. Numberless' \subseteq Numberless
    BY <2>1 DEF Numberless
  <2>3. lines' \in Nat /\ lines' + Cardinality(Numberless') <= MaxLines
    BY <1>3, <2>2, FewerNumberless DEF Restart, FeedTyped
  <2>4. unsafe' \in BOOLEAN
    BY <1>3 DEF Restart
  <2>5. ServerTyped'
    BY <1>3, <2>1, <2>3, <2>4 DEF Restart, FeedTyped, ServerTyped, BoundedRows
  <2>6. PageTyped'
    BY <1>3 DEF Restart, LeaveRoom, FeedTyped, PageTyped
  <2>7. QED
    BY <2>5, <2>6 DEF FeedTyped
<1>4. QED
  BY <1>1, <1>2, <1>3 DEF Server

(* The steps of the console leave the server alone.                        *)
LEMMA ServerUnmoved ==
  ASSUME ServerTyped, UNCHANGED <<feed, seeded, seeding, writer, lines, storedLines, over, unsafe>>,
         counter' \in Nat
  PROVE  ServerTyped'
<1>1. Numberless' = Numberless
  BY DEF Numberless
<1>2. QED
  BY <1>1 DEF ServerTyped, BoundedRows

LEMMA AskTyped ==
  ASSUME NEW n \in Nat
  PROVE  AskFrom(n) \in Ask /\ BoundedRows(AskFrom(n).rows)
<1>1. AskFrom(n).rows = {} /\ AskFrom(n) \in Ask
  BY DEF AskFrom, Ask
<1>2. QED
  BY <1>1 DEF BoundedRows

LEMMA OpenedTyped == Opened \in FeedPages
  BY DEF Opened, FeedPages

LEMMA LeaveRoomTyped ==
  ASSUME PageTyped, LeaveRoom(asks)
  PROVE  asks' \subseteq Ask /\ (\A a \in asks' : BoundedRows(a.rows)) /\ resumed' = "no"
<1>1. \A a \in asks : /\ [a EXCEPT !.joined = FALSE] \in Ask
                      /\ [a EXCEPT !.joined = FALSE].rows = a.rows
  BY DEF PageTyped, Ask
<1>2. QED
  BY <1>1 DEF LeaveRoom, PageTyped

LEMMA ConsoleStepTyped ==
  ASSUME IsFiniteSet(Writers), MaxLines \in Nat, FeedTyped, Console
  PROVE  FeedTyped'
<1>0. ASSUME UNCHANGED serverVars, UNCHANGED unsafe PROVE ServerTyped'
  BY <1>0, ServerUnmoved DEF serverVars, FeedTyped, ServerTyped
<1>1. CASE Connect
  <2>1. ReplayFrom \in Nat
    BY DEF ReplayFrom, FeedTyped, PageTyped, FeedPages
  <2>2. asks' \subseteq Ask /\ \A a \in asks' : BoundedRows(a.rows)
    BY <1>1, <2>1, AskTyped DEF Connect, FeedTyped, PageTyped
  <2>3. feedPage' \in FeedPages
    BY <1>1 DEF Connect, FeedTyped, PageTyped, FeedPages
  <2>4. PageTyped'
    BY <1>1, <2>2, <2>3 DEF Connect, FeedTyped, PageTyped
  <2>5. QED
    BY <1>0, <1>1, <2>4 DEF Connect, FeedTyped
<1>2. CASE Join
  <2>1. PageTyped'
    BY <1>2 DEF Join, FeedTyped, PageTyped
  <2>2. QED
    BY <1>0, <1>2, <2>1 DEF Join, FeedTyped
<1>3. CASE Disconnect \/ PollRun
  <2>1. LeaveRoom(asks) /\ UNCHANGED <<feedPage, delivered>> /\ socket' \in {"off", "closed"}
    BY <1>3 DEF Disconnect, PollRun
  <2>2. PageTyped'
    BY <2>1, LeaveRoomTyped DEF FeedTyped, PageTyped
  <2>3. QED
    BY <1>0, <1>3, <2>2 DEF Disconnect, PollRun, FeedTyped
<1>4. CASE Resubscribe
  <2>1. feedPage' \in FeedPages
    BY <1>4 DEF Resubscribe, FeedTyped, PageTyped, FeedPages
  <2>2. PageTyped'
    BY <1>4, <2>1, LeaveRoomTyped DEF Resubscribe, FeedTyped, PageTyped
  <2>3. QED
    BY <1>0, <1>4, <2>2 DEF Resubscribe, FeedTyped
<1>5. CASE Reload
  <2>1. AskFrom(0) \in Ask /\ BoundedRows(AskFrom(0).rows)
    BY AskTyped
  <2>2. PageTyped'
    BY <1>5, <2>1, OpenedTyped DEF Reload, PageTyped
  <2>3. QED
    BY <1>0, <1>5, <2>2 DEF Reload, FeedTyped
<1>6. ASSUME NEW a \in asks, ReadStored(a) PROVE FeedTyped'
  <2> DEFINE found == AnswerTo(a.from)
             whole == found = LinesAfter(a.from)
             answer == [a EXCEPT !.read = TRUE, !.joined = socket = "joined" /\ whole, !.rows = found]
  <2>1. found \in SUBSET storedLines
    BY DEF AnswerTo, LinesAfter
  <2>2. found \in SUBSET NumberedLine /\ BoundedRows(found)
    BY <2>1, FewerRows DEF FeedTyped, ServerTyped
  <2>3. asks' = (asks \ {a}) \cup {answer}
    BY <1>6 DEF ReadStored
  <2>4. counter' = Primed(found)
    BY <1>6 DEF ReadStored
  <2>5. /\ UNCHANGED <<feed, seeded, seeding, writer, lines, storedLines, over, unsafe>>
        /\ UNCHANGED <<socket, feedPage, delivered, resumed>>
    BY <1>6 DEF ReadStored
  <2>6. answer \in Ask /\ answer.rows = found
    <3>1. a \in Ask
      BY DEF FeedTyped, PageTyped
    <3>2. PICK inRoom \in BOOLEAN : inRoom = (socket = "joined" /\ whole)
      OBVIOUS
    <3> HIDE DEF found, whole
    <3>3. answer = [a EXCEPT !.read = TRUE, !.joined = inRoom, !.rows = found]
      BY <3>2
    <3>4. PICK g : g = answer
      OBVIOUS
    <3>5. g = [from |-> a.from, read |-> TRUE, joined |-> inRoom, rows |-> found]
      <4>1. PICK b \in Ask : b = a
        BY <3>1
      <4>2. g = [b EXCEPT !.read = TRUE, !.joined = inRoom, !.rows = found]
        BY <3>3, <3>4, <4>1
      <4>3. g = [from |-> b.from, read |-> TRUE, joined |-> inRoom, rows |-> found]
        BY <4>2 DEF Ask
      <4>4. QED
        BY <4>1, <4>3
    <3>6. QED
      BY <2>2, <3>1, <3>4, <3>5 DEF Ask
  <2> HIDE DEF found, whole, answer
  <2>7. counter' \in Nat
    <3>1. 0 \in Nat /\ counter \in Nat
      BY DEF FeedTyped, ServerTyped
    <3>2. PICK n \in Nat : n = HighestOf(found)
      BY <2>2, <3>1, HighestIsNumber
    <3>3. QED
      BY <2>4, <3>1, <3>2, MaxOfTwo DEF Primed
  <2>8. ServerTyped'
    BY <2>5, <2>7, ServerUnmoved DEF FeedTyped
  <2>9. PageTyped'
    BY <2>2, <2>3, <2>5, <2>6 DEF FeedTyped, PageTyped
  <2>10. QED
    BY <2>8, <2>9 DEF FeedTyped
<1>7. ASSUME NEW a \in asks, ReceiveReplay(a) PROVE FeedTyped'
  <2>1. a.rows \in SUBSET NumberedLine /\ BoundedRows(a.rows) /\ PageTyped
    BY DEF FeedTyped, PageTyped, Ask
  <2>2. PICK new \in SUBSET NumberedLine : new = a.rows
    BY <2>1
  <2>3. feedPage' \in FeedPages /\ delivered' \subseteq 1..MaxLines
    BY <1>7, <2>1, <2>2, AppendTyped DEF ReceiveReplay
  <2>4. PageTyped'
    BY <1>7, <2>3 DEF ReceiveReplay, FeedTyped, PageTyped
  <2>5. QED
    BY <1>0, <1>7, <2>4 DEF ReceiveReplay, FeedTyped
<1>8. ASSUME NEW a \in asks, FailReplay(a) PROVE FeedTyped'
  <2>1. PageTyped'
    BY <1>8 DEF FailReplay, FeedTyped, PageTyped
  <2>2. QED
    BY <1>0, <1>8, <2>1 DEF FailReplay, FeedTyped
<1>9. QED
  BY <1>1, <1>2, <1>3, <1>4, <1>5, <1>6, <1>7, <1>8 DEF Console

LEMMA FeedTypedInit ==
  ASSUME MaxLines \in Nat, FeedInit PROVE FeedTyped
<1>1. Numberless = {}
  BY NotWritingShape DEF FeedInit, Numberless
<1>2. Cardinality(Numberless) = 0
  BY <1>1, FS_EmptySet
<1>3. \A w \in Writers : writer[w] = NotWriting
  BY DEF FeedInit
<1>4. ServerTyped
  <2>1. writer \in [Writers -> FeedWriters]
    BY NotWritingShape DEF FeedInit
  <2>2. \A w \in Writers : writer[w].pc = "idle" /\ writer[w].on = {}
    BY <1>3, NotWritingShape
  <2>3. BoundedRows(storedLines)
    BY DEF FeedInit, BoundedRows
  <2>4. lines + Cardinality(Numberless) <= MaxLines
    BY <1>2 DEF FeedInit
  <2>5. QED
    BY <2>1, <2>2, <2>3, <2>4 DEF FeedInit, ServerTyped
<1>5. AskFrom(0) \in Ask /\ BoundedRows(AskFrom(0).rows)
  BY AskTyped
<1>6. PageTyped
  BY <1>5, OpenedTyped DEF FeedInit, PageTyped
<1>7. QED
  BY <1>4, <1>6 DEF FeedTyped

LEMMA FeedTypedNext ==
  ASSUME IsFiniteSet(Writers), MaxLines \in Nat, FeedTyped, [FeedNext]_feedVars
  PROVE  FeedTyped'
<1>1. ASSUME NEW w \in Writers, Writer(w) PROVE FeedTyped'
  BY <1>1, StartTyped, ReadHighestTyped, SeedTyped, NumberTyped, SavedLineTyped DEF Writer
<1>2. CASE UNCHANGED feedVars
  <2>1. UNCHANGED serverVars /\ UNCHANGED pageVars /\ UNCHANGED unsafe
    BY <1>2 DEF feedVars
  <2>2. ServerTyped'
    BY <2>1, ServerUnmoved DEF serverVars, FeedTyped, ServerTyped
  <2>3. QED
    BY <2>1, <2>2, PageUnmoved DEF FeedTyped
<1>3. QED
  BY <1>1, <1>2, ServerStepTyped, ConsoleStepTyped DEF FeedNext

(* Every variable of a feed keeps its type: no number is given to a line   *)
(* beyond the bound, one writer at most reads the table, and the page      *)
(* keeps a number as its highest whatever arrives; for all three streams.  *)
THEOREM FeedsAreTyped ==
  ASSUME IsFiniteSet(Writers), MaxLines \in Nat
  PROVE  FeedSpec => []FeedTypeOK
<1>1. FeedInit => FeedTyped
  BY FeedTypedInit
<1>2. FeedTyped /\ [FeedNext]_feedVars => FeedTyped'
  BY FeedTypedNext
<1>3. FeedTyped => FeedTypeOK
  <2> SUFFICES ASSUME FeedTyped PROVE FeedTypeOK
    OBVIOUS
  <2>1. seeding \subseteq Writers /\ Cardinality(seeding) <= 1
    <3>1. CASE seeding = {}
      BY <3>1, FS_EmptySet
    <3>2. ASSUME NEW w \in Writers, seeding = {w}
          PROVE  seeding \subseteq Writers /\ Cardinality(seeding) <= 1
      BY <3>2, FS_Singleton
    <3>3. QED
      BY <3>1, <3>2 DEF FeedTyped, ServerTyped
  <2>2. lines \in 0..MaxLines
    BY NumberlessAreCounted DEF FeedTyped, ServerTyped
  <2>3. QED
    BY <2>1, <2>2
    DEF FeedTyped, ServerTyped, PageTyped, FeedTypeOK, FeedWriters, FeedPages
<1>4. QED
  BY <1>1, <1>2, <1>3, PTL DEF FeedSpec
=============================================================================
