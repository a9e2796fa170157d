--------------------------- MODULE ProjectProofs ---------------------------
(***************************************************************************)
(* What the components that keep a project promise for every number of     *)
(* calls, pages, documents and editors: its number sequences, its          *)
(* configuration, the requirements derived from its documents and the      *)
(* revisions of its test plan.                                             *)
(***************************************************************************)
EXTENDS SequenceAllocator, ProjectSettings, Derivation, PlanRevisions, Editors, TLAPS

-----------------------------------------------------------------------------
(* Sequences: every set of calls, every block size, every minimum and      *)
(* every number of attempts.                                               *)

USE DEF NoRow, Returned

(* The inductive invariant behind both results: an update that succeeds    *)
(* finds the row where it read it, so the block it hands out starts at the *)
(* row and every earlier block lies below.                                 *)
IInv == TypeOK /\ AllocatorInv

LEMMA InitIInv == Init => IInv
  BY AttemptsAssumption
  DEF Init, IInv, TypeOK, AllocatorInv, LoopInv, BlocksInv, AttemptLeft, ReadsArePast,
      PositiveCount, RaiseStillNeeded, GrantedByNext, BlocksBelowRow, DisjointBlocks,
      Granted, Block

(* A write that wins, whichever statement made it: the row moves forward   *)
(* and, for next(), the block starts at the old row (at 1 in an empty one).*)
LEMMA WonKeepsIInv ==
  ASSUME IInv, NEW c \in Calls, pc[c] = "write",
         NEW value \in Nat, NEW from \in Nat, Won(c, value, from),
         value >= nextValue,
         op[c] = "next" => from >= nextValue /\ from + arg[c] = value
  PROVE  IInv'
<1> USE DEF IInv, TypeOK, AllocatorInv, LoopInv, BlocksInv, Won, Answer, Granted
<1>1. TypeOK'
  OBVIOUS
<1>2. LoopInv'
  BY DEF AttemptLeft, ReadsArePast, PositiveCount, RaiseStillNeeded
<1>3. (GrantedByNext /\ BlocksBelowRow)'
  BY DEF GrantedByNext, BlocksBelowRow
<1>4. DisjointBlocks'
  <2> SUFFICES ASSUME NEW d \in Calls, NEW e \in Calls, d # e,
                      Granted(d)', Granted(e)'
               PROVE  (Block(d) \cap Block(e) = {})'
    BY DEF DisjointBlocks
  <2>1. CASE d # c /\ e # c
    BY <2>1 DEF DisjointBlocks, Block
  <2>2. CASE d = c
    <3>1. first[e] + arg[e] <= nextValue /\ op[c] = "next"
      BY <2>2 DEF BlocksBelowRow
    <3>2. QED
      BY <2>2, <3>1 DEF Block
  <2>3. CASE e = c
    <3>1. first[d] + arg[d] <= nextValue /\ op[c] = "next"
      BY <2>3 DEF BlocksBelowRow
    <3>2. QED
      BY <2>3, <3>1 DEF Block
  <2>4. QED
    BY <2>1, <2>2, <2>3
<1>5. QED
  BY <1>1, <1>2, <1>3, <1>4

(* A step that returns no block leaves the blocks alone. *)
LEMMA NoGrantKeepsBlocks ==
  ASSUME IInv, nextValue' = nextValue,
         \A d \in Calls :
           Granted(d)' => /\ Granted(d) /\ op[d]' = op[d]
                          /\ first[d]' = first[d] /\ arg[d]' = arg[d]
  PROVE  BlocksInv'
  BY DEF IInv, AllocatorInv, BlocksInv, GrantedByNext, DisjointBlocks, BlocksBelowRow, Block

LEMMA NextIInv == IInv /\ [Next]_vars => IInv'
<1> SUFFICES ASSUME IInv, [Next]_vars PROVE IInv'
  OBVIOUS
<1> USE AttemptsAssumption
<1>1. ASSUME NEW c \in Calls, NEW n \in Counts, CallNext(c, n) PROVE IInv'
  <2>1. TypeOK' /\ LoopInv'
    BY <1>1, CountsAssumption
    DEF CallNext, IInv, TypeOK, AllocatorInv, LoopInv, AttemptLeft, ReadsArePast,
        PositiveCount, RaiseStillNeeded
  <2>2. BlocksInv'
    BY <1>1, NoGrantKeepsBlocks DEF CallNext, IInv, TypeOK, Granted
  <2>3. QED
    BY <2>1, <2>2 DEF IInv, AllocatorInv
<1>2. ASSUME NEW c \in Calls, NEW m \in Minima, CallRaiseTo(c, m) PROVE IInv'
  <2>1. TypeOK' /\ LoopInv'
    BY <1>2, MinimaAssumption
    DEF CallRaiseTo, IInv, TypeOK, AllocatorInv, LoopInv, AttemptLeft, ReadsArePast,
        PositiveCount, RaiseStillNeeded
  <2>2. BlocksInv'
    BY <1>2, NoGrantKeepsBlocks DEF CallRaiseTo, IInv, TypeOK, Granted
  <2>3. QED
    BY <2>1, <2>2 DEF IInv, AllocatorInv
<1>3. ASSUME NEW c \in Calls, Read(c) PROVE IInv'
  <2>1. TypeOK' /\ LoopInv'
    BY <1>3
    DEF Read, HighEnough, IInv, TypeOK, AllocatorInv, LoopInv, AttemptLeft, ReadsArePast,
        PositiveCount, RaiseStillNeeded
  <2>2. BlocksInv'
    BY <1>3, NoGrantKeepsBlocks DEF Read, HighEnough, IInv, TypeOK, Granted
  <2>3. QED
    BY <2>1, <2>2 DEF IInv, AllocatorInv
<1>4. ASSUME NEW c \in Calls, pc[c] = "write", Retry(c) PROVE IInv'
  <2>1. TypeOK' /\ LoopInv'
    BY <1>4
    DEF Retry, IInv, TypeOK, AllocatorInv, LoopInv, AttemptLeft, ReadsArePast,
        PositiveCount, RaiseStillNeeded
  <2>2. BlocksInv'
    BY <1>4, NoGrantKeepsBlocks DEF Retry, IInv, TypeOK, Granted
  <2>3. QED
    BY <2>1, <2>2 DEF IInv, AllocatorInv
<1>5. ASSUME NEW c \in Calls, Insert(c) PROVE IInv'
  <2>1. CASE nextValue = NoRow
    BY <1>5, <2>1, WonKeepsIInv DEF Insert, IInv, TypeOK
  <2>2. CASE nextValue # NoRow
    BY <1>4, <1>5, <2>2 DEF Insert
  <2>3. QED
    BY <2>1, <2>2
<1>6. ASSUME NEW c \in Calls, Swap(c) PROVE IInv'
  <2>1. CASE nextValue = seen[c]
    <3>1. NewValue(c) \in Nat /\ NewValue(c) >= nextValue
      BY <1>6, <2>1
      DEF Swap, NewValue, IInv, TypeOK, AllocatorInv, LoopInv, RaiseStillNeeded
    <3>2. QED
      BY <1>6, <2>1, <3>1, WonKeepsIInv DEF Swap, NewValue, IInv, TypeOK
  <2>2. CASE nextValue # seen[c]
    BY <1>4, <1>6, <2>2 DEF Swap
  <2>3. QED
    BY <2>1, <2>2
<1>7. ASSUME NEW c \in Calls, Exhausted(c) PROVE IInv'
  <2>1. TypeOK' /\ LoopInv'
    BY <1>7
    DEF Exhausted, IInv, TypeOK, AllocatorInv, LoopInv, AttemptLeft, ReadsArePast,
        PositiveCount, RaiseStillNeeded
  <2>2. BlocksInv'
    BY <1>7, NoGrantKeepsBlocks DEF Exhausted, IInv, TypeOK, Granted
  <2>3. QED
    BY <2>1, <2>2 DEF IInv, AllocatorInv
<1>8. CASE UNCHANGED vars
  BY <1>8
  DEF vars, IInv, TypeOK, AllocatorInv, LoopInv, BlocksInv, AttemptLeft, ReadsArePast,
      PositiveCount, RaiseStillNeeded, GrantedByNext, BlocksBelowRow, DisjointBlocks,
      Granted, Block
<1>9. QED
  BY <1>1, <1>2, <1>3, <1>5, <1>6, <1>7, <1>8 DEF Next, Step

(* The allocator's variables keep their types; in particular no call goes  *)
(* round more often than SequencesService.MAX_ATTEMPTS allows.             *)
THEOREM TypeCorrect == Spec => []TypeOK
<1>1. IInv => TypeOK
  BY DEF IInv
<1>2. QED
  BY InitIInv, NextIInv, <1>1, PTL DEF Spec

(* Two next() calls never receive overlapping ranges                       *)
(* (sequences.service.ts:10), whatever raiseTo() calls run beside them.    *)
THEOREM BlocksNeverOverlap == Spec => []DisjointBlocks
<1>1. IInv => DisjointBlocks
  BY DEF IInv, AllocatorInv, BlocksInv
<1>2. QED
  BY InitIInv, NextIInv, <1>1, PTL DEF Spec

(* The row never moves backwards: raiseTo() writes only over a value it    *)
(* has seen to be at most its minimum.                                     *)
THEOREM RowNeverRetreats == Spec => NeverRetreats
<1>1. IInv /\ [Next]_vars => [nextValue' >= nextValue]_vars
  <2> SUFFICES ASSUME IInv, Next PROVE nextValue' >= nextValue
    OBVIOUS
  <2>1. ASSUME NEW c \in Calls, Insert(c) PROVE nextValue' >= nextValue
    BY <2>1 DEF Insert, Won, Retry, IInv, TypeOK
  <2>2. ASSUME NEW c \in Calls, Swap(c) PROVE nextValue' >= nextValue
    BY <2>2
    DEF Swap, Won, Retry, NewValue, IInv, TypeOK, AllocatorInv, LoopInv,
        RaiseStillNeeded
  <2>3. QED
    BY <2>1, <2>2
    DEF Next, Step, CallNext, CallRaiseTo, Read, Exhausted, IInv, TypeOK
<1>2. QED
  BY InitIInv, NextIInv, <1>1, PTL DEF Spec, NeverRetreats
-----------------------------------------------------------------------------
(* Configuration.  A row is checked before it is saved; a row that claims  *)
(* a key has one, also in a page that holds it, since a key is never taken *)
(* away.                                                                   *)
RowIsComplete == Complete(project)

FlagHasKey ==
  /\ project.hasKey => key # NoOne
  /\ \A t \in Tabs : On(t, "loaded") => HasProject /\ tab[t].held.status # "none"
                                      /\ (tab[t].held.hasKey => key # NoOne)

(* Until two updates have held the row, a page that holds it holds it as   *)
(* it is.                                                                  *)
AloneIsCurrent ==
  ~crossed =>
    /\ key # NoOne => project.hasKey
    /\ \A t \in Tabs : On(t, "loaded") => tab[t].held = project
    /\ \A t, u \in Tabs : On(t, "loaded") /\ On(u, "loaded") => t = u

NoKeyBeforeProject == ~HasProject => key = NoOne

ProjectIInv ==
  ProjectTypeOK /\ RowIsComplete /\ FlagHasKey /\ AloneIsCurrent /\ NoKeyBeforeProject

LEMMA RestFacts ==
  /\ NoProject \in Project /\ NoProject.type = "LOCAL" /\ ~NoProject.hasKey
  /\ NoProject.status = "none" /\ NoOne \in Provider
  /\ NoTab.pc = "form"
  /\ NoTab \in [pc : {"form", "sent"}, form : Form, held : Project,
               status : {"keep", "active", "archived"}]
<1>1. NoProject \in Project
  BY DEF NoProject, Project, Provider
<1>2. NoForm \in Form
  BY DEF Form
<1>3. QED
  BY <1>1, <1>2 DEF NoProject, NoTab, Provider

LEMMA ProjectInitIInv == ProjectInit => ProjectIInv
  BY RestFacts
  DEF ProjectInit, ProjectIInv, ProjectTypeOK, RowIsComplete, FlagHasKey, AloneIsCurrent,
      NoKeyBeforeProject, Complete, HasProject, On

(* What a request makes of a row is a row, with a provider if it was sent  *)
(* one.                                                                    *)
LEMMA MergedFacts ==
  ASSUME NEW row \in Project,
         NEW request \in [pc : {"form", "sent", "loaded"}, form : Form, held : Project,
                          status : {"keep", "active", "archived"}]
  PROVE  /\ Merged(row, request) \in Project
         /\ KeySent(request) \in Provider
         /\ Merged(row, request).hasKey <=> row.hasKey \/ KeySent(request) # NoOne
         /\ row.status # "none" => Merged(row, request).status # "none"
<1>1. request.form \in Form
  OBVIOUS
<1>2. CASE request.status # "keep"
  BY <1>2 DEF Merged, KeySent, Project, Provider
<1>3. CASE request.status = "keep" /\ request.form.type = "LOCAL"
  BY <1>3 DEF Merged, KeySent, Project, Provider
<1>4. CASE request.status = "keep" /\ request.form.type # "LOCAL"
  <2>1. request.form \in [type : {"CLOUD"}, provider : Providers, url : BOOLEAN, typed : Provider]
    BY <1>1, <1>4 DEF Form, NoForm
  <2>2. Merged(row, request) =
          [row EXCEPT !.type = "CLOUD", !.provider = request.form.provider, !.url = request.form.url,
                      !.hasKey = row.hasKey \/ request.form.typed # NoOne]
    BY <1>4 DEF Merged
  <2>3. KeySent(request) = request.form.typed
    BY <1>4, <2>1 DEF KeySent
  <2>4. QED
    BY <2>1, <2>2, <2>3 DEF Project, Provider
<1>5. QED
  BY <1>2, <1>3, <1>4

(* A step of a page that leaves the row alone and does not load it.        *)
LEMMA TabStep ==
  ASSUME ProjectIInv, NEW t \in Tabs,
         NEW x \in [pc : {"form", "sent"}, form : Form, held : Project,
                    status : {"keep", "active", "archived"}],
         TabIs(t, x), UNCHANGED <<project, key, member, crossed>>
  PROVE  ProjectIInv'
<1>1. /\ tab' = [tab EXCEPT ![t] = x] /\ project' = project /\ key' = key
      /\ member' = member /\ crossed' = crossed
  BY DEF TabIs
<1>2. ProjectTypeOK'
  BY <1>1 DEF ProjectIInv, ProjectTypeOK
<1>3. \A u \in Tabs : On(u, "loaded")' => On(u, "loaded") /\ tab'[u] = tab[u]
  BY <1>1 DEF On, ProjectIInv, ProjectTypeOK
<1>4. QED
  BY <1>1, <1>2, <1>3 DEF ProjectIInv, RowIsComplete, Complete, FlagHasKey, AloneIsCurrent,
     NoKeyBeforeProject, HasProject

LEMMA CreateKeepsIInv ==
  ASSUME ProjectIInv, NEW t \in Tabs, CreateProject(t)
  PROVE  ProjectIInv'
<1> DEFINE row == [Merged(NoProject, tab[t]) EXCEPT !.status = "active"]
<1>1. /\ ~HasProject /\ Complete(row) /\ project' = row /\ key' = KeySent(tab[t])
      /\ tab' = [tab EXCEPT ![t] = NoTab] /\ member' = member /\ crossed' = crossed
  BY DEF CreateProject, TabIs
<1>2. NoProject \in Project /\ ~NoProject.hasKey
  BY RestFacts
<1>3. NoTab \in [pc : {"form", "sent"}, form : Form, held : Project,
                 status : {"keep", "active", "archived"}]
  BY RestFacts
<1>4. /\ row \in Project /\ row.status = "active" /\ KeySent(tab[t]) \in Provider
      /\ row.hasKey <=> KeySent(tab[t]) # NoOne
  <2> DEFINE merged == Merged(NoProject, tab[t])
  <2>1. /\ merged \in Project /\ KeySent(tab[t]) \in Provider
        /\ merged.hasKey <=> KeySent(tab[t]) # NoOne
    BY <1>2, MergedFacts DEF ProjectIInv, ProjectTypeOK
  <2> HIDE DEF merged
  <2>2. [merged EXCEPT !.status = "active"] \in Project
    BY <2>1 DEF Project
  <2>3. QED
    BY <2>1, <2>2 DEF Project, merged
<1> HIDE DEF row
<1>5. ProjectTypeOK'
  BY <1>1, <1>3, <1>4 DEF ProjectIInv, ProjectTypeOK
<1>6. \A u \in Tabs : ~On(u, "loaded")'
  BY <1>1, <1>3 DEF ProjectIInv, ProjectTypeOK, FlagHasKey, On
<1>7. RowIsComplete' /\ HasProject'
  BY <1>1, <1>4 DEF RowIsComplete, Complete, HasProject
<1>8. QED
  BY <1>1, <1>4, <1>5, <1>6, <1>7 DEF ProjectIInv, FlagHasKey, AloneIsCurrent, NoKeyBeforeProject

LEMMA LoadKeepsIInv ==
  ASSUME ProjectIInv, NEW t \in Tabs, LoadProject(t)
  PROVE  ProjectIInv'
<1> DEFINE x == [tab[t] EXCEPT !.pc = "loaded", !.held = project]
<1>1. /\ HasProject /\ tab' = [tab EXCEPT ![t] = x] /\ project' = project /\ key' = key
      /\ member' = member /\ crossed' = (crossed \/ \E o \in Tabs : On(o, "loaded"))
  BY DEF LoadProject, TabIs
<1>2. /\ x \in [pc : {"form", "sent", "loaded"}, form : Form, held : Project,
                status : {"keep", "active", "archived"}]
      /\ x.held = project
  BY DEF ProjectIInv, ProjectTypeOK
<1> HIDE DEF x
<1>3. ProjectTypeOK'
  BY <1>1, <1>2 DEF ProjectIInv, ProjectTypeOK
<1>4. /\ tab'[t] = x
      /\ \A u \in Tabs \ {t} : tab'[u] = tab[u] /\ (On(u, "loaded")' <=> On(u, "loaded"))
  BY <1>1 DEF ProjectIInv, ProjectTypeOK, On
<1>5. FlagHasKey'
  BY <1>1, <1>2, <1>4 DEF ProjectIInv, FlagHasKey, HasProject
<1>6. AloneIsCurrent'
  BY <1>1, <1>2, <1>4 DEF ProjectIInv, AloneIsCurrent
<1>7. QED
  BY <1>1, <1>3, <1>5, <1>6 DEF ProjectIInv, RowIsComplete, Complete, NoKeyBeforeProject, HasProject

LEMMA SaveKeepsIInv ==
  ASSUME ProjectIInv, NEW t \in Tabs, SaveProject(t)
  PROVE  ProjectIInv'
<1> DEFINE row == Merged(tab[t].held, tab[t])
           sent == KeySent(tab[t])
<1>1. /\ On(t, "loaded") /\ Complete(row) /\ project' = row
      /\ key' = IF sent = NoOne THEN key ELSE sent
      /\ tab' = [tab EXCEPT ![t] = NoTab] /\ member' = member /\ crossed' = crossed
  BY DEF SaveProject, TabIs
<1>2. /\ row \in Project /\ sent \in Provider
      /\ row.hasKey <=> tab[t].held.hasKey \/ sent # NoOne
      /\ tab[t].held.status # "none" => row.status # "none"
  BY MergedFacts DEF ProjectIInv, ProjectTypeOK
<1>3. HasProject /\ tab[t].held.status # "none" /\ (tab[t].held.hasKey => key # NoOne)
  BY <1>1 DEF ProjectIInv, FlagHasKey
<1> HIDE DEF row, sent
<1>4. NoTab \in [pc : {"form", "sent"}, form : Form, held : Project,
                 status : {"keep", "active", "archived"}]
  BY RestFacts
<1>5. ProjectTypeOK'
  BY <1>1, <1>2, <1>4 DEF ProjectIInv, ProjectTypeOK
<1>6. \A u \in Tabs : On(u, "loaded")' => u # t /\ On(u, "loaded") /\ tab'[u] = tab[u]
  BY <1>1, <1>4 DEF On, ProjectIInv, ProjectTypeOK
<1>7. HasProject' /\ (key # NoOne => key' # NoOne) /\ (project'.hasKey => key' # NoOne)
  BY <1>1, <1>2, <1>3 DEF HasProject
<1>8. FlagHasKey'
  BY <1>6, <1>7 DEF ProjectIInv, FlagHasKey
<1>9. AloneIsCurrent'
  <2> SUFFICES ASSUME ~crossed
               PROVE  /\ key' # NoOne => project'.hasKey
                      /\ \A u \in Tabs : ~On(u, "loaded")'
    BY <1>1 DEF AloneIsCurrent
  <2>1. tab[t].held = project /\ (key # NoOne => project.hasKey)
    BY <1>1 DEF ProjectIInv, AloneIsCurrent
  <2>2. key' # NoOne => project'.hasKey
    BY <1>1, <1>2, <2>1
  <2>3. \A u \in Tabs : ~On(u, "loaded")'
    BY <1>1, <1>6 DEF ProjectIInv, AloneIsCurrent
  <2>4. QED
    BY <2>2, <2>3
<1>10. RowIsComplete' /\ NoKeyBeforeProject'
  BY <1>1, <1>7 DEF RowIsComplete, Complete, NoKeyBeforeProject
<1>11. QED
  BY <1>5, <1>8, <1>9, <1>10 DEF ProjectIInv

LEMMA ProjectStepIInv ==
  ASSUME ProjectIInv, [ProjectNext]_projectVars
  PROVE  ProjectIInv'
<1> DEFINE AtRest(x) ==
             x \in [pc : {"form", "sent"}, form : Form, held : Project,
                   status : {"keep", "active", "archived"}]
<1>0. AtRest(NoTab) /\ NoProject \in Project
  BY RestFacts
<1>1. CASE UNCHANGED projectVars
  BY <1>1 DEF projectVars, ProjectIInv, ProjectTypeOK, RowIsComplete, Complete, FlagHasKey,
     AloneIsCurrent, NoKeyBeforeProject, HasProject, On
<1>2. CASE AddMember
  BY <1>2 DEF AddMember, ProjectIInv, ProjectTypeOK, RowIsComplete, Complete, FlagHasKey,
     AloneIsCurrent, NoKeyBeforeProject, HasProject, On
<1>3. ASSUME NEW t \in Tabs, NEW entered \in Form, Submit(t, entered)
      PROVE  ProjectIInv'
  <2>1. AtRest([NoTab EXCEPT !.pc = "sent", !.form = entered])
    BY <1>0 DEF NoTab
  <2>2. QED
    BY <2>1, <1>3, TabStep DEF Submit
<1>4. ASSUME NEW t \in Tabs, NEW status \in {"active", "archived"}, SubmitStatus(t, status)
      PROVE  ProjectIInv'
  <2>1. AtRest([NoTab EXCEPT !.pc = "sent", !.status = status])
    BY <1>0 DEF NoTab
  <2>2. QED
    BY <2>1, <1>4, TabStep DEF SubmitStatus
<1>5. ASSUME NEW t \in Tabs, RefuseRequest(t)
      PROVE  ProjectIInv'
  BY <1>0, <1>5, TabStep DEF RefuseRequest
<1>6. ASSUME NEW t \in Tabs, CreateProject(t)
      PROVE  ProjectIInv'
  BY <1>6, CreateKeepsIInv
<1>7. ASSUME NEW t \in Tabs, LoadProject(t)
      PROVE  ProjectIInv'
  BY <1>7, LoadKeepsIInv
<1>8. ASSUME NEW t \in Tabs, SaveProject(t)
      PROVE  ProjectIInv'
  BY <1>8, SaveKeepsIInv
<1>9. QED
  BY <1>1, <1>2, <1>3, <1>4, <1>5, <1>6, <1>7, <1>8 DEF ProjectNext

(* Whatever pages create, change and archive the project at a time, also   *)
(* by saving stale rows: a job that runs in the cloud has a provider, a    *)
(* key and a place to send it; the flag tells of the key.                  *)
THEOREM CloudJobsAreComplete ==
  ProjectSpec => [](ProjectTypeOK /\ CloudIsComplete /\ FlagTellsOfKey)
<1>1. ProjectIInv => ProjectTypeOK /\ CloudIsComplete /\ FlagTellsOfKey
  <2> SUFFICES ASSUME ProjectIInv
               PROVE  CloudIsComplete /\ FlagTellsOfKey
    BY DEF ProjectIInv
  <2>1. CloudIsComplete
    BY DEF ProjectIInv, ProjectTypeOK, Project, RowIsComplete, Complete, FlagHasKey,
       CloudIsComplete, Resolved
  <2>2. FlagTellsOfKey
    BY DEF ProjectIInv, FlagHasKey, AloneIsCurrent, FlagTellsOfKey
  <2>3. QED
    BY <2>1, <2>2
<1>2. QED
  BY ProjectInitIInv, ProjectStepIInv, <1>1, PTL DEF ProjectSpec
-----------------------------------------------------------------------------
(* Requirements.  Until two derivations overlap, the one at work knows     *)
(* every text that has a requirement and is about to save others only.     *)
OneWorks ==
  ~overlapped =>
    /\ \A d, o \in Derivations : Derives(d, "working") /\ Derives(o, "working") => d = o
    /\ \A d \in Derivations : Derives(d, "working") =>
         /\ {t \in Texts : derived[t] > 0} \subseteq derive[d].known
         /\ derive[d].texts \cap derive[d].known = {}

(* What has always been included is still to be read, about to be saved or *)
(* in the result.                                                          *)
AlwaysIsIncluded ==
  \A d \in Derivations : derive[d].pc \in {"docs", "working"} => derive[d].always \subseteq included

NothingIsSkipped ==
  \A d \in Derivations :
    /\ derive[d].pc \in {"idle", "docs"} => derive[d].texts = {}
    /\ Derives(d, "docs") => \A s \in derive[d].always : s[1] \in derive[d].docs
    /\ Derives(d, "working") =>
         \A s \in derive[d].always :
           s[1] \in derive[d].docs \/ s[2] \in derive[d].texts \cup derive[d].result
    /\ Derives(d, "done") => \A s \in derive[d].always : s[2] \in derive[d].result

DeriveIsWhole ==
  derive \in [Derivations ->
    [pc : {"idle", "docs", "working", "done", "failed"}, docs : SUBSET Documents,
     known : SUBSET Texts, texts : SUBSET Texts, result : SUBSET Texts, always : SUBSET Segments]]

DerivationIInv ==
  /\ DerivationTypeOK /\ DeriveIsWhole
  /\ OneRequirementPerText /\ OneWorks
  /\ AlwaysIsIncluded /\ NothingIsSkipped

LEMMA SegmentFacts ==
  ASSUME NEW s \in Segments
  PROVE  s = <<s[1], s[2]>> /\ s[1] \in Documents /\ s[2] \in Texts
BY DEF Segments

LEMMA WholeIsTyped ==
  ASSUME DeriveIsWhole
  PROVE  \A d \in Derivations :
           /\ derive[d].pc \in {"idle", "docs", "working", "done", "failed"}
           /\ derive[d].docs \subseteq Documents /\ derive[d].always \subseteq Segments
           /\ \A f \in {"known", "texts", "result"} : derive[d][f] \subseteq Texts
BY DEF DeriveIsWhole

LEMMA DerivationInitIInv == DerivationInit => DerivationIInv
<1> SUFFICES ASSUME DerivationInit
             PROVE  DerivationIInv
  OBVIOUS
<1>1. DeriveIsWhole /\ \A d \in Derivations : derive[d].pc = "idle" /\ derive[d].texts = {}
  BY DEF DerivationInit, DeriveIsWhole, NoDerivation
<1>2. DerivationTypeOK
  BY <1>1, WholeIsTyped DEF DerivationInit, DerivationTypeOK
<1>3. QED
  BY <1>1, <1>2 DEF DerivationInit, DerivationIInv, OneRequirementPerText, OneWorks, AlwaysIsIncluded,
     NothingIsSkipped, Derives

(* A step of the documents: what is no longer included has not always been *)
(* so; the derivations go on.                                              *)
LEMMA DocumentStep ==
  ASSUME DerivationIInv, NEW now \in SUBSET Segments, NEW in \in SUBSET now, SegmentsAre(now, in),
         stored' \in [Documents -> {"none", "storing", "stored", "removing"}],
         UNCHANGED requirementVars
  PROVE  DerivationIInv'
<1>1. /\ present' = now /\ included' = in
      /\ derived' = derived /\ manual' = manual /\ overlapped' = overlapped
  BY DEF SegmentsAre, requirementVars
<1>2. /\ derive' = [d \in Derivations |-> [derive[d] EXCEPT !.always = @ \cap in]]
      /\ DeriveIsWhole
  BY DEF SegmentsAre, DerivationIInv
<1>3. ASSUME NEW d \in Derivations
      PROVE  /\ derive'[d].pc = derive[d].pc /\ derive'[d].docs = derive[d].docs
             /\ derive'[d].known = derive[d].known /\ derive'[d].texts = derive[d].texts
             /\ derive'[d].result = derive[d].result
             /\ derive'[d].always = derive[d].always \cap in
  BY <1>2 DEF DeriveIsWhole
<1>4. DeriveIsWhole'
  BY <1>2 DEF DeriveIsWhole
<1>5. DerivationTypeOK'
  <2>1. \A d \in Derivations :
          /\ derive'[d].pc \in {"idle", "docs", "working", "done", "failed"}
          /\ derive'[d].docs \subseteq Documents /\ derive'[d].always \subseteq Segments
          /\ \A f \in {"known", "texts", "result"} : derive'[d][f] \subseteq Texts
    BY <1>4 DEF DeriveIsWhole
  <2>2. QED
    BY <1>1, <2>1 DEF DerivationIInv, DerivationTypeOK
<1>6. OneRequirementPerText' /\ OneWorks'
  BY <1>1, <1>3 DEF DerivationIInv, OneRequirementPerText, OneWorks, Derives
<1>7. AlwaysIsIncluded' /\ NothingIsSkipped'
  BY <1>1, <1>3 DEF DerivationIInv, AlwaysIsIncluded, NothingIsSkipped, Derives
<1>8. QED
  BY <1>4, <1>5, <1>6, <1>7 DEF DerivationIInv

(* A step of one derivation x that saves nothing and does not begin to     *)
(* work.                                                                   *)
LEMMA DerivationStep ==
  ASSUME DerivationIInv, NEW d \in Derivations,
         NEW x \in [pc : {"docs", "working", "done", "failed"}, docs : SUBSET Documents,
                    known : SUBSET Texts, texts : SUBSET Texts, result : SUBSET Texts,
                    always : SUBSET Segments],
         DeriveIs(d, x), UNCHANGED <<documentVars, derived, manual>>,
         overlapped' \in BOOLEAN, overlapped => overlapped',
         ~overlapped' /\ x.pc = "working" =>
           /\ \A o \in Derivations \ {d} : ~Derives(o, "working")
           /\ {t \in Texts : derived[t] > 0} \subseteq x.known
           /\ x.texts \cap x.known = {},
         x.pc \in {"docs", "working"} => x.always \subseteq included,
         x.pc = "docs" => x.texts = {} /\ \A s \in x.always : s[1] \in x.docs,
         x.pc = "working" => \A s \in x.always : s[1] \in x.docs \/ s[2] \in x.texts \cup x.result,
         x.pc = "done" => \A s \in x.always : s[2] \in x.result
  PROVE  DerivationIInv'
<1>1. /\ stored' = stored /\ present' = present /\ included' = included
      /\ derived' = derived /\ manual' = manual
      /\ derive' = [derive EXCEPT ![d] = x]
  BY DEF DeriveIs, documentVars
<1>2. /\ derive'[d] = x
      /\ \A o \in Derivations \ {d} : derive'[o] = derive[o]
  BY <1>1 DEF DerivationIInv, DeriveIsWhole
<1>3. DeriveIsWhole'
  BY <1>1 DEF DerivationIInv, DeriveIsWhole
<1>4. DerivationTypeOK'
  <2>1. \A o \in Derivations :
          /\ derive'[o].pc \in {"idle", "docs", "working", "done", "failed"}
          /\ derive'[o].docs \subseteq Documents /\ derive'[o].always \subseteq Segments
          /\ \A f \in {"known", "texts", "result"} : derive'[o][f] \subseteq Texts
    BY <1>3 DEF DeriveIsWhole
  <2>2. QED
    BY <1>1, <2>1 DEF DerivationIInv, DerivationTypeOK
<1>5. OneRequirementPerText'
  BY <1>1 DEF DerivationIInv, OneRequirementPerText
<1>6. OneWorks'
  BY <1>1, <1>2 DEF DerivationIInv, OneWorks, Derives
<1>7. AlwaysIsIncluded' /\ NothingIsSkipped'
  BY <1>1, <1>2 DEF DerivationIInv, AlwaysIsIncluded, NothingIsSkipped, Derives
<1>8. QED
  BY <1>3, <1>4, <1>5, <1>6, <1>7 DEF DerivationIInv
LEMMA ReadSegmentsKeepsIInv ==
  ASSUME DerivationIInv, NEW d \in Derivations, NEW doc \in Documents, ReadSegments(d, doc)
  PROVE  DerivationIInv'
<1> DEFINE texts == TextsIn(SegmentsOf(doc, included))
           x == [derive[d] EXCEPT !.docs = @ \ {doc}, !.texts = texts \ derive[d].known,
                                  !.result = @ \cup Matched(texts, derive[d].known)]
<1>1. /\ Derives(d, "working") /\ derive[d].texts = {} /\ doc \in derive[d].docs
      /\ DeriveIs(d, x) /\ UNCHANGED <<documentVars, derived, manual, overlapped>>
  BY DEF ReadSegments, requirementVars
<1>2. included \subseteq Segments /\ overlapped \in BOOLEAN
  BY DEF DerivationIInv, DerivationTypeOK
<1>3. texts \subseteq Texts
  BY <1>2, SegmentFacts DEF TextsIn, SegmentsOf
<1>4. derive[d] \in [pc : {"idle", "docs", "working", "done", "failed"}, docs : SUBSET Documents,
                     known : SUBSET Texts, texts : SUBSET Texts, result : SUBSET Texts,
                     always : SUBSET Segments]
  BY DEF DerivationIInv, DeriveIsWhole
<1>5. \A s \in derive[d].always : s[1] = doc => s[2] \in texts
  BY <1>1 DEF DerivationIInv, AlwaysIsIncluded, TextsIn, SegmentsOf, Derives
<1> HIDE DEF texts
<1>6. /\ x.pc = "working" /\ x.docs = derive[d].docs \ {doc} /\ x.known = derive[d].known
      /\ x.texts = texts \ derive[d].known
      /\ x.result = derive[d].result \cup (texts \cap derive[d].known)
      /\ x.always = derive[d].always
  BY <1>1, <1>4 DEF Matched, Derives
<1>7. x \in [pc : {"docs", "working", "done", "failed"}, docs : SUBSET Documents,
             known : SUBSET Texts, texts : SUBSET Texts, result : SUBSET Texts,
             always : SUBSET Segments]
  BY <1>1, <1>3, <1>4 DEF Matched, Derives
<1> HIDE DEF x
<1>8. ~overlapped' => /\ \A o \in Derivations \ {d} : ~Derives(o, "working")
                      /\ {t \in Texts : derived[t] > 0} \subseteq x.known
                      /\ x.texts \cap x.known = {}
  BY <1>1, <1>6 DEF DerivationIInv, OneWorks
<1>9. x.always \subseteq included
  BY <1>1, <1>6 DEF DerivationIInv, AlwaysIsIncluded, Derives
<1>10. \A s \in x.always : s[1] \in x.docs \/ s[2] \in x.texts \cup x.result
  BY <1>1, <1>5, <1>6 DEF DerivationIInv, NothingIsSkipped
<1>11. overlapped' \in BOOLEAN /\ (overlapped => overlapped')
       /\ UNCHANGED <<documentVars, derived, manual>>
  BY <1>1, <1>2
<1>12. QED
  BY <1>1, <1>6, <1>7, <1>8, <1>9, <1>10, <1>11, DerivationStep

LEMMA SaveRequirementKeepsIInv ==
  ASSUME DerivationIInv, NEW d \in Derivations, NEW t \in Texts, SaveRequirement(d, t)
  PROVE  DerivationIInv'
<1> DEFINE x == [derive[d] EXCEPT !.texts = @ \ {t}, !.result = @ \cup {t}, !.known = @ \cup {t}]
<1>1. /\ Derives(d, "working") /\ t \in derive[d].texts
      /\ derived' = [derived EXCEPT ![t] = @ + 1] /\ derive' = [derive EXCEPT ![d] = x]
      /\ stored' = stored /\ present' = present /\ included' = included
      /\ manual' = manual /\ overlapped' = overlapped
  BY DEF SaveRequirement, DeriveIs, Learned, documentVars
<1>2. derive[d] \in [pc : {"idle", "docs", "working", "done", "failed"}, docs : SUBSET Documents,
                     known : SUBSET Texts, texts : SUBSET Texts, result : SUBSET Texts,
                     always : SUBSET Segments]
  BY DEF DerivationIInv, DeriveIsWhole
<1>3. /\ x.pc = "working" /\ x.docs = derive[d].docs /\ x.always = derive[d].always
      /\ x.known = derive[d].known \cup {t} /\ x.texts = derive[d].texts \ {t}
      /\ x.result = derive[d].result \cup {t}
      /\ x \in [pc : {"idle", "docs", "working", "done", "failed"}, docs : SUBSET Documents,
                known : SUBSET Texts, texts : SUBSET Texts, result : SUBSET Texts,
                always : SUBSET Segments]
  BY <1>1, <1>2 DEF Derives
<1> HIDE DEF x
<1>4. /\ derive'[d] = x /\ \A o \in Derivations \ {d} : derive'[o] = derive[o]
      /\ DeriveIsWhole'
  BY <1>1, <1>3 DEF DerivationIInv, DeriveIsWhole
<1>5. /\ derived' \in [Texts -> Nat] /\ derived[t] \in Nat
      /\ \A u \in Texts \ {t} : derived'[u] = derived[u]
      /\ derived'[t] = derived[t] + 1
  BY <1>1 DEF DerivationIInv, DerivationTypeOK
<1>6. DerivationTypeOK'
  <2>1. \A o \in Derivations :
          /\ derive'[o].pc \in {"idle", "docs", "working", "done", "failed"}
          /\ derive'[o].docs \subseteq Documents /\ derive'[o].always \subseteq Segments
          /\ \A f \in {"known", "texts", "result"} : derive'[o][f] \subseteq Texts
    BY <1>4 DEF DeriveIsWhole
  <2>2. QED
    BY <1>1, <1>5, <2>1 DEF DerivationIInv, DerivationTypeOK
<1>7. OneRequirementPerText' /\ OneWorks'
  <2> SUFFICES ASSUME ~overlapped
               PROVE  OneRequirementPerText' /\ OneWorks'
    BY <1>1 DEF OneRequirementPerText, OneWorks
  <2>1. /\ \A o \in Derivations : Derives(o, "working") => o = d
        /\ {u \in Texts : derived[u] > 0} \subseteq derive[d].known
        /\ derive[d].texts \cap derive[d].known = {}
        /\ \A u \in Texts : derived[u] <= 1
    BY <1>1 DEF DerivationIInv, OneWorks, OneRequirementPerText
  <2>2. derived[t] = 0
    <3>1. t \notin derive[d].known
      BY <1>1, <2>1
    <3>2. ~(derived[t] > 0)
      BY <2>1, <3>1
    <3>3. QED
      BY <3>2, <1>5
  <2>3. OneRequirementPerText'
    <3>1. derived'[t] = 1
      BY <1>5, <2>2
    <3>2. QED
      BY <1>5, <2>1, <3>1 DEF OneRequirementPerText
  <2>4. /\ {u \in Texts : derived'[u] > 0} \subseteq x.known /\ x.texts \cap x.known = {}
    BY <1>3, <1>5, <2>1
  <2>5. OneWorks'
    BY <1>4, <2>1, <2>4 DEF OneWorks, Derives
  <2>6. QED
    BY <2>3, <2>5
<1>8. AlwaysIsIncluded' /\ NothingIsSkipped'
  BY <1>1, <1>3, <1>4 DEF DerivationIInv, AlwaysIsIncluded, NothingIsSkipped, Derives
<1>9. QED
  BY <1>4, <1>6, <1>7, <1>8 DEF DerivationIInv

LEMMA DerivationStepIInv ==
  ASSUME DerivationIInv, [DerivationNext]_derivationVars
  PROVE  DerivationIInv'
<1> USE DEF Derives
<1>0. /\ present \subseteq Segments /\ included \subseteq present /\ overlapped \in BOOLEAN
      /\ stored \in [Documents -> {"none", "storing", "stored", "removing"}]
      /\ \A d \in Derivations : derive[d] \in
           [pc : {"idle", "docs", "working", "done", "failed"}, docs : SUBSET Documents,
            known : SUBSET Texts, texts : SUBSET Texts, result : SUBSET Texts,
            always : SUBSET Segments]
  BY DEF DerivationIInv, DerivationTypeOK, DeriveIsWhole
<1>1. CASE UNCHANGED derivationVars
  BY <1>1 DEF derivationVars, DerivationIInv, DerivationTypeOK, DeriveIsWhole, OneRequirementPerText,
     OneWorks, AlwaysIsIncluded, NothingIsSkipped
<1>2. ASSUME NEW doc \in Documents, DocumentArrives(doc) \/ RemoveDocument(doc)
      PROVE  DerivationIInv'
  <2>1. /\ stored' \in [Documents -> {"none", "storing", "stored", "removing"}]
        /\ present' = present /\ included' = included /\ derive' = derive
        /\ derived' = derived /\ manual' = manual /\ overlapped' = overlapped
    BY <1>0, <1>2 DEF DocumentArrives, RemoveDocument, Becomes, requirementVars
  <2>2. QED
    BY <2>1 DEF DerivationIInv, DerivationTypeOK, DeriveIsWhole, OneRequirementPerText,
       OneWorks, AlwaysIsIncluded, NothingIsSkipped
<1>3. ASSUME NEW doc \in Documents, SegmentsArrive(doc)
      PROVE  DerivationIInv'
  <2> DEFINE arrived == SegmentsOf(doc, Segments)
  <2>1. /\ SegmentsAre(present \cup arrived, included \cup arrived)
        /\ UNCHANGED requirementVars
        /\ stored' \in [Documents -> {"none", "storing", "stored", "removing"}]
    BY <1>0, <1>3 DEF SegmentsArrive, Becomes
  <2>2. present \cup arrived \in SUBSET Segments /\ included \cup arrived \in SUBSET (present \cup arrived)
    BY <1>0 DEF SegmentsOf
  <2>3. QED
    BY <2>1, <2>2, DocumentStep
<1>4. ASSUME NEW s \in Segments, Toggle(s)
      PROVE  DerivationIInv'
  <2> DEFINE in == IF s \in included THEN included \ {s} ELSE included \cup {s}
  <2>1. SegmentsAre(present, in) /\ UNCHANGED requirementVars /\ stored' = stored /\ s \in present
    BY <1>4 DEF Toggle
  <2>2. in \in SUBSET present /\ present \in SUBSET Segments
    BY <1>0, <2>1
  <2> HIDE DEF in
  <2>3. QED
    BY <1>0, <2>1, <2>2, DocumentStep
<1>5. ASSUME NEW doc \in Documents, RemoveSegments(doc)
      PROVE  DerivationIInv'
  <2> DEFINE gone == SegmentsOf(doc, present)
  <2>1. /\ SegmentsAre(present \ gone, included \ gone)
        /\ UNCHANGED requirementVars
        /\ stored' \in [Documents -> {"none", "storing", "stored", "removing"}]
    BY <1>0, <1>5 DEF RemoveSegments, Becomes
  <2> HIDE DEF gone
  <2>2. present \ gone \in SUBSET Segments /\ included \ gone \in SUBSET (present \ gone)
    BY <1>0
  <2>3. QED
    BY <2>1, <2>2, DocumentStep
<1>6. ASSUME NEW t \in Texts, CreateRequirement(t)
      PROVE  DerivationIInv'
  BY <1>6 DEF CreateRequirement, DerivationIInv, DerivationTypeOK, DeriveIsWhole, OneRequirementPerText,
     OneWorks, AlwaysIsIncluded, NothingIsSkipped
<1>7. ASSUME NEW d \in Derivations, NEW docs \in SUBSET Documents, BeginDerivation(d, docs)
      PROVE  DerivationIInv'
  <2> DEFINE x == [derive[d] EXCEPT !.pc = IF docs = {} THEN "done" ELSE "docs", !.docs = docs,
                                    !.always = {s \in included : s[1] \in docs}]
  <2>1. /\ derive[d].pc = "idle" /\ DeriveIs(d, x)
        /\ UNCHANGED <<documentVars, derived, manual, overlapped>>
    BY <1>7 DEF BeginDerivation, requirementVars
  <2>2. /\ x.pc \in {"docs", "done"} /\ x.texts = {} /\ x.docs = docs
        /\ x.always = {s \in included : s[1] \in docs}
        /\ x.pc = "done" => docs = {}
        /\ x \in [pc : {"docs", "working", "done", "failed"}, docs : SUBSET Documents,
                  known : SUBSET Texts, texts : SUBSET Texts, result : SUBSET Texts,
                  always : SUBSET Segments]
    <3> DEFINE begun == {s \in included : s[1] \in docs}
               next == IF docs = {} THEN "done" ELSE "docs"
    <3>1. derive[d].texts = {} /\ begun \in SUBSET Segments
      BY <1>0, <2>1 DEF DerivationIInv, NothingIsSkipped
    <3>2. next \in {"done", "docs"} /\ (next = "done" => docs = {})
      OBVIOUS
    <3>3. x = [derive[d] EXCEPT !.pc = next, !.docs = docs, !.always = begun]
      OBVIOUS
    <3> HIDE DEF begun, next, x
    <3>4. /\ x.pc = next /\ x.texts = {} /\ x.docs = docs /\ x.always = begun
          /\ x \in [pc : {"docs", "working", "done", "failed"}, docs : SUBSET Documents,
                    known : SUBSET Texts, texts : SUBSET Texts, result : SUBSET Texts,
                    always : SUBSET Segments]
      BY <1>0, <3>1, <3>2, <3>3
    <3>5. QED
      BY <3>2, <3>4 DEF begun
  <2> HIDE DEF x
  <2>3. x.always \subseteq included /\ \A s \in x.always : s[1] \in docs
    BY <2>2
  <2>4. overlapped' \in BOOLEAN /\ (overlapped => overlapped')
        /\ UNCHANGED <<documentVars, derived, manual>>
    BY <2>1, <1>0
  <2>5. QED
    BY <2>1, <2>2, <2>3, <2>4, DerivationStep
<1>8. ASSUME NEW d \in Derivations, ReadKnown(d)
      PROVE  DerivationIInv'
  <2> DEFINE learned == {t \in Texts : derived[t] > 0} \cup manual
             x == [derive[d] EXCEPT !.pc = "working", !.known = learned]
  <2>1. /\ derive[d].pc = "docs" /\ DeriveIs(d, x)
        /\ UNCHANGED <<documentVars, derived, manual>>
        /\ overlapped' = (overlapped \/ \E o \in Derivations : Derives(o, "working"))
    BY <1>8 DEF ReadKnown
  <2>2. learned \subseteq Texts /\ {t \in Texts : derived[t] > 0} \subseteq learned
    BY DEF DerivationIInv, DerivationTypeOK
  <2> HIDE DEF learned
  <2>3. /\ x.pc = "working" /\ x.texts = {} /\ x.docs = derive[d].docs /\ x.known = learned
        /\ x.always = derive[d].always
        /\ x \in [pc : {"docs", "working", "done", "failed"}, docs : SUBSET Documents,
                  known : SUBSET Texts, texts : SUBSET Texts, result : SUBSET Texts,
                  always : SUBSET Segments]
    <3>1. derive[d].texts = {}
      BY <2>1 DEF DerivationIInv, NothingIsSkipped
    <3>2. QED
      BY <1>0, <2>2, <3>1
  <2> HIDE DEF x
  <2>4. x.always \subseteq included /\ \A s \in x.always : s[1] \in x.docs
    BY <2>1, <2>3 DEF DerivationIInv, AlwaysIsIncluded, NothingIsSkipped
  <2>5. overlapped' \in BOOLEAN /\ (overlapped => overlapped')
        /\ (~overlapped' => \A o \in Derivations : ~Derives(o, "working"))
    BY <2>1, <1>0
  <2>6. QED
    BY <2>1, <2>2, <2>3, <2>4, <2>5, DerivationStep
<1>9. ASSUME NEW d \in Derivations, NEW doc \in Documents, ReadSegments(d, doc)
      PROVE  DerivationIInv'
  BY <1>9, ReadSegmentsKeepsIInv
<1>10. ASSUME NEW d \in Derivations, NEW t \in Texts, SaveRequirement(d, t)
       PROVE  DerivationIInv'
  BY <1>10, SaveRequirementKeepsIInv
<1>11. ASSUME NEW d \in Derivations, NEW end \in {"done", "failed"}, EndDerivation(d, end)
       PROVE  DerivationIInv'
  <2> DEFINE x == [NoDerivation EXCEPT !.pc = end, !.result = derive[d].result,
                                       !.always = derive[d].always]
  <2>1. /\ DeriveIs(d, x) /\ UNCHANGED <<documentVars, derived, manual, overlapped>>
        /\ end = "done" => /\ derive[d].pc = "working"
                          /\ derive[d].docs = {} /\ derive[d].texts = {}
    BY <1>11 DEF EndDerivation, requirementVars
  <2>2. /\ x.pc = end /\ x.result = derive[d].result /\ x.always = derive[d].always
        /\ x \in [pc : {"docs", "working", "done", "failed"}, docs : SUBSET Documents,
                  known : SUBSET Texts, texts : SUBSET Texts, result : SUBSET Texts,
                  always : SUBSET Segments]
    BY <1>0 DEF NoDerivation
  <2> HIDE DEF x
  <2>3. end = "done" => \A s \in x.always : s[2] \in x.result
    BY <2>1, <2>2 DEF DerivationIInv, NothingIsSkipped
  <2>4. overlapped' \in BOOLEAN /\ (overlapped => overlapped')
        /\ UNCHANGED <<documentVars, derived, manual>>
    BY <2>1, <1>0
  <2>5. QED
    BY <2>1, <2>2, <2>3, <2>4, DerivationStep
<1>12. ASSUME NEW d \in Derivations,
              NEW docs \in SUBSET {doc \in Documents : stored[doc] # "none"}, BeginDerivation(d, docs)
       PROVE  DerivationIInv'
  BY <1>7, <1>12
<1>13. QED
  BY <1>1, <1>2, <1>3, <1>4, <1>5, <1>6, <1>8, <1>9, <1>10, <1>11, <1>12 DEF DerivationNext

(* Over any number of documents and of repeated, failed and retried        *)
(* derivations a text has one requirement unless two of them overlapped,   *)
(* and a derivation returns a requirement for each segment that was        *)
(* included all the time, overlapped or not.                               *)
THEOREM RequirementsAreDerivedOnce ==
  DerivationSpec => [](DerivationTypeOK /\ OneRequirementPerText /\ DerivedIsWhole)
<1>1. DerivationIInv => DerivationTypeOK /\ OneRequirementPerText /\ DerivedIsWhole
  BY DEF DerivationIInv, NothingIsSkipped, DerivedIsWhole, TextsIn
<1>2. QED
  BY DerivationInitIInv, DerivationStepIInv, <1>1, PTL DEF DerivationSpec

-----------------------------------------------------------------------------
(* Plans.  The revisions are numbered without a gap, and no editor holds a *)
(* number beyond the next one.                                             *)
Numbered(n) == DOMAIN revisions = 1..n

NumbersAreDense == \E n \in Nat : Numbered(n)

NextIsHeld ==
  \A e \in Editors : editor[e].pc \in {"plan", "insert"} =>
    editor[e].copy.version \in 1..(Latest + 1)

(* Approved with another content than the agreed one: only the save of an  *)
(* edit makes a plan so, and what the other handlers hold is not.          *)
Bad(p) == p.approval = "approved" /\ p.agreed # p.content

CopiesAreSound ==
  \A e \in Editors :
    /\ editor[e].pc = "decide" => ~Bad(editor[e].copy)
    /\ editor[e].pc = "reopened" => editor[e].copy.approval = "pending"
    /\ editor[e].pc \in {"last", "plan", "insert"} /\ ~editor[e].isEdit => ~Bad(editor[e].copy)

IsReopening(e) ==
  \/ editor[e].pc \in {"reopen", "reopened"}
  \/ editor[e].pc = "insert" /\ editor[e].isEdit

BadIsReopened == Bad(plan) /\ ~broken => \E e \in Editors : IsReopening(e)

(* A content that has been saved is in a revision, or about to be.         *)
Revised(saved) ==
  \/ \E v \in DOMAIN revisions : revisions[v].content = saved
  \/ \E e \in Editors : OnStep(e, "insert") /\ editor[e].copy.content = saved

HeldIsRevised ==
  ~broken =>
    /\ plan.content > 0 => Revised(plan.content)
    /\ \A e \in Editors : editor[e].pc \in {"decide", "reopened"} /\ editor[e].copy.content > 0 =>
         Revised(editor[e].copy.content)

EditorType == [pc : Progress, copy : Plan, number : Nat, isEdit : BOOLEAN]

PlanIInv ==
  /\ PlanTypeOK /\ editor \in [Editors -> EditorType]
  /\ NumbersAreDense /\ NextIsHeld
  /\ CopiesAreSound /\ BadIsReopened
  /\ HeldIsRevised

LEMMA MaxOfDense ==
  ASSUME NEW n \in Nat
  PROVE  (IF 1..n = {} THEN 0 ELSE Max(1..n)) = n
<1>1. CASE n = 0
  BY <1>1
<1>2. CASE n > 0
  <2>1. n \in 1..n /\ \A y \in 1..n : n >= y
    BY <1>2
  <2>2. \A x \in 1..n : (\A y \in 1..n : x >= y) => x = n
    BY <1>2
  <2>3. Max(1..n) = n
    BY <2>1, <2>2 DEF Max
  <2>4. QED
    BY <2>1, <2>3
<1>3. QED
  BY <1>1, <1>2

LEMMA LatestFacts ==
  ASSUME NumbersAreDense
  PROVE  Latest \in Nat /\ Numbered(Latest)
BY MaxOfDense DEF NumbersAreDense, Numbered, Latest

(* A step of an editor that leaves plan and revisions alone and does not   *)
(* leave its reopening behind.                                             *)
LEMMA EditorStep ==
  ASSUME PlanIInv, NEW e \in Editors, NEW x \in EditorType, Proceed(e, x),
         UNCHANGED <<plan, revisions>>,
         edits' \in 0..MaxEdits, broken' \in BOOLEAN, broken => broken',
         x.pc \in {"plan", "insert"} => x.copy.version \in 1..(Latest + 1),
         x.pc = "decide" => ~Bad(x.copy),
         x.pc = "reopened" => x.copy.approval = "pending",
         x.pc \in {"last", "plan", "insert"} /\ ~x.isEdit => ~Bad(x.copy),
         ~broken' => \/ ~IsReopening(e)
                     \/ x.pc \in {"reopen", "reopened"}
                     \/ ~Bad(plan),
         ~broken' => ~OnStep(e, "insert"),
         ~broken' /\ x.pc \in {"decide", "reopened"} /\ x.copy.content > 0 =>
           Revised(x.copy.content)
  PROVE  PlanIInv'
<1>1. /\ editor' = [editor EXCEPT ![e] = x] /\ plan' = plan /\ revisions' = revisions
      /\ editor \in [Editors -> EditorType]
  BY DEF Proceed, PlanIInv
<1>2. /\ editor' \in [Editors -> EditorType] /\ editor'[e] = x
      /\ \A o \in Editors \ {e} : editor'[o] = editor[o]
  BY <1>1
<1>3. PlanTypeOK'
  BY <1>1, <1>2 DEF PlanIInv, PlanTypeOK, EditorType
<1>4. NumbersAreDense' /\ NextIsHeld'
  BY <1>1, <1>2 DEF PlanIInv, NumbersAreDense, Numbered, NextIsHeld, Latest
<1>5. CopiesAreSound'
  BY <1>2 DEF PlanIInv, CopiesAreSound, Bad
<1>6. BadIsReopened'
  <2> SUFFICES ASSUME Bad(plan), ~broken'
               PROVE  \E o \in Editors : IsReopening(o)'
    BY <1>1 DEF BadIsReopened, Bad
  <2>1. PICK o \in Editors : IsReopening(o)
    BY DEF PlanIInv, BadIsReopened
  <2>2. CASE o = e
    <3>1. x.pc \in {"reopen", "reopened"}
      BY <2>1, <2>2
    <3>2. IsReopening(e)'
      BY <1>2, <3>1 DEF IsReopening
    <3>3. QED
      BY <3>2
  <2>3. CASE o # e
    <3>1. IsReopening(o)'
      BY <1>2, <2>1, <2>3 DEF IsReopening
    <3>2. QED
      BY <3>1
  <2>4. QED
    BY <2>2, <2>3
<1>7. HeldIsRevised'
  <2> SUFFICES ASSUME ~broken'
               PROVE  HeldIsRevised'
    BY DEF HeldIsRevised
  <2>1. \A saved : Revised(saved) => Revised(saved)'
    BY <1>1, <1>2 DEF Revised, OnStep
  <2>2. QED
    BY <1>1, <1>2, <2>1 DEF PlanIInv, HeldIsRevised
<1>8. QED
  BY <1>2, <1>3, <1>4, <1>5, <1>6, <1>7 DEF PlanIInv

(* A save of the plan that is held: that of an edit, of a reopening or of  *)
(* a decision.                                                             *)
LEMMA PlanSaveStep ==
  ASSUME PlanIInv, NEW e \in Editors, NEW x \in EditorType, Proceed(e, x),
         plan' = editor[e].copy, UNCHANGED <<revisions, edits, broken>>,
         ~OnStep(e, "insert"),
         x.pc = "insert" => x.copy = editor[e].copy /\ x.isEdit = editor[e].isEdit,
         \/ OnStep(e, "plan") /\ x.pc = "insert"
         \/ editor[e].pc \in {"decide", "reopened"} /\ x.pc \in {"idle", "latest"}
  PROVE  PlanIInv'
<1>1. /\ editor' = [editor EXCEPT ![e] = x] /\ plan' = editor[e].copy /\ revisions' = revisions
      /\ edits' = edits /\ broken' = broken /\ editor \in [Editors -> EditorType]
  BY DEF Proceed, PlanIInv
<1>2. /\ editor' \in [Editors -> EditorType] /\ editor'[e] = x
      /\ \A o \in Editors \ {e} : editor'[o] = editor[o]
  BY <1>1
<1>3. PlanTypeOK'
  BY <1>1, <1>2 DEF PlanIInv, PlanTypeOK, EditorType
<1>4. NumbersAreDense' /\ NextIsHeld'
  BY <1>1, <1>2 DEF PlanIInv, NumbersAreDense, Numbered, NextIsHeld, Latest, OnStep
<1>5. CopiesAreSound'
  BY <1>2 DEF PlanIInv, CopiesAreSound, Bad, OnStep
<1>6. BadIsReopened'
  <2> SUFFICES ASSUME Bad(editor[e].copy)
               PROVE  \E o \in Editors : IsReopening(o)'
    BY <1>1 DEF BadIsReopened, Bad
  <2>1. x.pc = "insert" /\ x.isEdit
    BY DEF PlanIInv, CopiesAreSound, Bad, OnStep
  <2>2. IsReopening(e)'
    BY <1>2, <2>1 DEF IsReopening
  <2>3. QED
    BY <2>2
<1>7. HeldIsRevised'
  <2> SUFFICES ASSUME ~broken
               PROVE  HeldIsRevised'
    BY <1>1 DEF HeldIsRevised
  <2>1. \A saved : Revised(saved) => Revised(saved)'
    BY <1>1, <1>2 DEF Revised, OnStep
  <2>2. plan'.content > 0 => Revised(plan.content)'
    <3>1. CASE x.pc = "insert"
      BY <1>1, <1>2, <3>1 DEF Revised, OnStep
    <3>2. CASE x.pc # "insert"
      <4>1. plan'.content > 0 => Revised(plan'.content)
        BY <1>1, <3>2 DEF PlanIInv, HeldIsRevised
      <4>2. QED
        BY <2>1, <4>1
    <3>3. QED
      BY <3>1, <3>2
  <2>3. \A o \in Editors : editor'[o].pc \in {"decide", "reopened"} => o # e
    BY <1>2 DEF OnStep
  <2>4. QED
    BY <1>1, <1>2, <2>1, <2>2, <2>3 DEF PlanIInv, HeldIsRevised
<1>8. QED
  BY <1>2, <1>3, <1>4, <1>5, <1>6, <1>7 DEF PlanIInv

(* The revision of a save: refused, or the next one.                       *)
LEMMA InsertKeepsIInv ==
  ASSUME PlanIInv, NEW e \in Editors, InsertRevision(e)
  PROVE  PlanIInv'
<1> DEFINE copy == editor[e].copy
           row == [content |-> copy.content, approval |-> copy.approval]
<1>1. /\ OnStep(e, "insert") /\ plan' = plan /\ edits' = edits
      /\ editor \in [Editors -> EditorType] /\ editor[e] \in EditorType /\ copy \in Plan
      /\ copy.version \in 1..(Latest + 1)
  BY LatestFacts DEF InsertRevision, PlanIInv, EditorType, NextIsHeld, OnStep, Numbered
<1>2. Resting \in EditorType /\ NoPlan \in Plan /\ Resting.pc = "idle"
  BY DEF Resting, EditorType, Progress, NoPlan, Plan, Status
<1>n. PICK n \in Nat : n = Latest /\ DOMAIN revisions = 1..n
  BY LatestFacts DEF PlanIInv, Numbered
<1>3. CASE copy.version \in DOMAIN revisions
  <2>1. Proceed(e, Resting) /\ revisions' = revisions /\ broken' = TRUE
    BY <1>3 DEF InsertRevision, Return
  <2>2. edits \in 0..MaxEdits
    BY DEF PlanIInv, PlanTypeOK
  <2>3. QED
    BY <1>1, <1>2, <2>1, <2>2, EditorStep
<1>4. CASE copy.version \notin DOMAIN revisions
  <2> DEFINE next == IF editor[e].isEdit THEN [Resting EXCEPT !.pc = "reopen", !.copy = NoPlan]
                                         ELSE Resting
  <2>1. /\ revisions' = [v \in DOMAIN revisions \cup {copy.version} |->
                          IF v = copy.version THEN row ELSE revisions[v]]
        /\ editor' = [editor EXCEPT ![e] = next] /\ broken' = broken
    BY <1>4 DEF InsertRevision, Return, Proceed, ProceedWith
  <2>2. /\ next \in EditorType /\ next.pc \in {"reopen", "idle"}
        /\ editor[e].isEdit => next.pc = "reopen"
    BY <1>2 DEF EditorType, Progress
  <2> HIDE DEF next
  <2>3. copy.version = n + 1
    BY <1>1, <1>n, <1>4
  <2>4. DOMAIN revisions' = 1..(n + 1)
    BY <1>n, <2>1, <2>3
  <2>5. n + 1 \in Nat /\ Latest' = n + 1
    BY <2>4, MaxOfDense DEF Latest
  <2>6. /\ editor' \in [Editors -> EditorType] /\ editor'[e] = next
        /\ \A o \in Editors \ {e} : editor'[o] = editor[o]
    BY <1>1, <2>1, <2>2
  <2>7. row \in Revision
    BY <1>1 DEF Plan, Revision
  <2> HIDE DEF row
  <2>8. PlanTypeOK'
    <3>1. \A v \in DOMAIN revisions' : v \in Nat \ {0} /\ revisions'[v] \in Revision
      BY <1>n, <2>1, <2>3, <2>7 DEF PlanIInv, PlanTypeOK
    <3>2. QED
      BY <1>1, <2>1, <2>6, <3>1 DEF PlanIInv, PlanTypeOK, EditorType
  <2>9. NumbersAreDense' /\ NextIsHeld'
    <3>1. NumbersAreDense'
      BY <2>4, <2>5 DEF NumbersAreDense, Numbered
    <3>2. \A o \in Editors : editor'[o].pc \in {"plan", "insert"} =>
            editor'[o].copy.version \in 1..(n + 1 + 1)
      BY <1>n, <2>2, <2>6 DEF PlanIInv, NextIsHeld
    <3>3. QED
      BY <2>5, <3>1, <3>2 DEF NextIsHeld
  <2>10. CopiesAreSound'
    BY <2>2, <2>6 DEF PlanIInv, CopiesAreSound, Bad
  <2>11. BadIsReopened'
    <3> SUFFICES ASSUME Bad(plan), ~broken
                 PROVE  \E o \in Editors : IsReopening(o)'
      BY <1>1, <2>1 DEF BadIsReopened, Bad
    <3>1. PICK o \in Editors : IsReopening(o)
      BY DEF PlanIInv, BadIsReopened
    <3>2. IsReopening(o)'
      BY <1>1, <2>2, <2>6, <3>1 DEF IsReopening, OnStep
    <3>3. QED
      BY <3>2
  <2>12. HeldIsRevised'
    <3> SUFFICES ASSUME ~broken
                 PROVE  HeldIsRevised'
      BY <2>1 DEF HeldIsRevised
    <3>1. ASSUME NEW saved, Revised(saved)
          PROVE  Revised(saved)'
      <4>1. CASE \E v \in DOMAIN revisions : revisions[v].content = saved
        <5>1. PICK v \in DOMAIN revisions : revisions[v].content = saved
          BY <4>1
        <5>2. v \in DOMAIN revisions' /\ revisions'[v] = revisions[v]
          BY <1>4, <2>1
        <5>3. QED
          BY <5>1, <5>2 DEF Revised
      <4>2. CASE copy.content = saved
        <5>1. copy.version \in DOMAIN revisions' /\ revisions'[copy.version] = row
          BY <2>1
        <5>2. row.content = copy.content
          BY DEF row
        <5>3. QED
          BY <4>2, <5>1, <5>2 DEF Revised
      <4>3. CASE \E o \in Editors \ {e} : OnStep(o, "insert") /\ editor[o].copy.content = saved
        BY <4>3, <2>6 DEF Revised, OnStep
      <4>4. QED
        BY <3>1, <4>1, <4>2, <4>3 DEF Revised
    <3>2. \A o \in Editors : editor'[o].pc \in {"decide", "reopened"} => o # e
      BY <2>2, <2>6
    <3>3. QED
      BY <1>1, <2>6, <3>1, <3>2 DEF PlanIInv, HeldIsRevised
  <2>13. QED
    BY <2>6, <2>8, <2>9, <2>10, <2>11, <2>12 DEF PlanIInv
<1>5. QED
  BY <1>3, <1>4

(* A decision is copied to a revision: no content and no number changes.   *)
LEMMA MirrorKeepsIInv ==
  ASSUME PlanIInv, NEW e \in Editors, MirrorDecision(e)
  PROVE  PlanIInv'
<1> DEFINE r == editor[e].number
<1>1. /\ OnStep(e, "mirror") /\ plan' = plan /\ edits' = edits /\ broken' = broken
      /\ revisions' = [revisions EXCEPT ![r].approval = editor[e].copy.approval]
      /\ editor' = [editor EXCEPT ![e] = Resting]
      /\ editor \in [Editors -> EditorType] /\ editor[e].copy.approval \in Status
  BY DEF MirrorDecision, Return, Proceed, PlanIInv, EditorType, Plan
<1>2. Resting \in EditorType /\ Resting.pc = "idle"
  BY DEF Resting, EditorType, Progress, NoPlan, Plan, Status
<1>3. /\ editor' \in [Editors -> EditorType] /\ editor'[e] = Resting
      /\ \A o \in Editors \ {e} : editor'[o] = editor[o]
  BY <1>1, <1>2
<1>4. /\ DOMAIN revisions' = DOMAIN revisions
      /\ \A v \in DOMAIN revisions : /\ revisions'[v] \in Revision
                                     /\ revisions'[v].content = revisions[v].content
  BY <1>1 DEF PlanIInv, PlanTypeOK, Revision
<1>5. PlanTypeOK'
  BY <1>1, <1>3, <1>4 DEF PlanIInv, PlanTypeOK, EditorType
<1>6. NumbersAreDense' /\ NextIsHeld'
  BY <1>2, <1>3, <1>4 DEF PlanIInv, NumbersAreDense, Numbered, NextIsHeld, Latest
<1>7. CopiesAreSound'
  BY <1>2, <1>3 DEF PlanIInv, CopiesAreSound, Bad
<1>8. BadIsReopened'
  <2> SUFFICES ASSUME Bad(plan), ~broken
               PROVE  \E o \in Editors : IsReopening(o)'
    BY <1>1 DEF BadIsReopened, Bad
  <2>1. PICK o \in Editors : IsReopening(o)
    BY DEF PlanIInv, BadIsReopened
  <2>2. o # e
    BY <1>1, <2>1 DEF IsReopening, OnStep
  <2>3. IsReopening(o)'
    BY <1>3, <2>1, <2>2 DEF IsReopening
  <2>4. QED
    BY <2>3
<1>9. HeldIsRevised'
  <2>1. \A saved : Revised(saved) => Revised(saved)'
    BY <1>1, <1>3, <1>4 DEF Revised, OnStep
  <2>2. \A o \in Editors : editor'[o].pc \in {"decide", "reopened"} => o # e
    BY <1>2, <1>3
  <2>3. QED
    BY <1>1, <1>3, <2>1, <2>2 DEF PlanIInv, HeldIsRevised
<1>10. QED
  BY <1>3, <1>5, <1>6, <1>7, <1>8, <1>9 DEF PlanIInv

(* What an edit begins with: the plan, or a part of it, with new content.  *)
LEMMA EditKeepsIInv ==
  ASSUME MaxEdits \in Nat \ {0}, PlanIInv, NEW e \in Editors, NEW saved \in Nat,
         OnStep(e, "idle"), edits < MaxEdits, edits' = edits + 1,
         Edit(e, saved), UNCHANGED <<plan, revisions, broken>>
  PROVE  PlanIInv'
<1> DEFINE x == [Resting EXCEPT !.pc = "last", !.copy = [plan EXCEPT !.content = saved],
                                !.isEdit = TRUE]
<1>1. x \in EditorType /\ x.pc = "last" /\ x.isEdit
  BY DEF PlanIInv, PlanTypeOK, Resting, EditorType, Progress, Plan
<1>2. Proceed(e, x) /\ broken' = broken /\ broken \in BOOLEAN
  BY DEF PlanIInv, PlanTypeOK, Edit
<1>a. edits' \in 0..MaxEdits
  <2>1. edits \in Nat /\ edits < MaxEdits /\ edits' = edits + 1
    BY DEF PlanIInv, PlanTypeOK
  <2>2. QED
    BY <2>1
<1> HIDE DEF x
<1>3. ~IsReopening(e) /\ ~OnStep(e, "insert")
  BY DEF IsReopening, OnStep
<1>4. QED
  BY <1>1, <1>2, <1>3, <1>a, EditorStep

LEMMA PlanStepIInv ==
  ASSUME MaxEdits \in Nat \ {0}, PlanIInv, [PlanNext]_planVars
  PROVE  PlanIInv'
<1>0. /\ editor \in [Editors -> EditorType] /\ plan \in Plan
      /\ edits \in 0..MaxEdits /\ broken \in BOOLEAN
      /\ \A e \in Editors : editor[e] \in EditorType /\ editor[e].copy \in Plan
  BY DEF PlanIInv, PlanTypeOK, EditorType
<1>a. /\ Resting \in EditorType /\ Resting.pc = "idle" /\ ~Resting.isEdit
      /\ NoPlan \in Plan /\ ~Bad(NoPlan)
  BY DEF Resting, EditorType, Progress, NoPlan, Plan, Status, Bad
<1>1. CASE UNCHANGED planVars
  BY <1>1 DEF planVars, PlanIInv, PlanTypeOK, NumbersAreDense, Numbered, NextIsHeld, Latest,
     CopiesAreSound, BadIsReopened, Bad, IsReopening, HeldIsRevised, Revised, OnStep
<1>2. ASSUME NEW e \in Editors, Generate(e)
      PROVE  PlanIInv'
  <2> DEFINE x == [Resting EXCEPT !.pc = "last", !.copy = [NoPlan EXCEPT !.content = 1]]
  <2>1. /\ OnStep(e, "idle") /\ edits' = 1 /\ Proceed(e, x) /\ UNCHANGED <<plan, revisions, broken>>
    BY <1>2 DEF Generate, ProceedWith
  <2>2. x \in EditorType /\ x.pc = "last" /\ ~Bad(x.copy)
    BY <1>a DEF EditorType, Progress, Plan, NoPlan, Bad
  <2> HIDE DEF x
  <2>3. ~IsReopening(e) /\ ~OnStep(e, "insert") /\ edits' \in 0..MaxEdits
    BY <2>1 DEF IsReopening, OnStep
  <2>4. QED
    BY <1>0, <2>1, <2>2, <2>3, EditorStep
<1>3. ASSUME NEW e \in Editors, UpdatePlan(e)
      PROVE  PlanIInv'
  BY <1>0, <1>3, EditKeepsIInv DEF UpdatePlan
<1>4. ASSUME NEW e \in Editors, NEW v \in DOMAIN revisions, RestoreRevision(e, v)
      PROVE  PlanIInv'
  <2>1. revisions[v].content \in Nat
    BY DEF PlanIInv, PlanTypeOK, Revision
  <2>2. QED
    BY <2>1, <1>4, EditKeepsIInv DEF RestoreRevision
<1>5. ASSUME NEW e \in Editors, ReadLast(e)
      PROVE  PlanIInv'
  <2> DEFINE x == [editor[e] EXCEPT !.pc = "plan", !.copy.version = NextVersion(e)]
  <2>1. /\ OnStep(e, "last") /\ Proceed(e, x) /\ UNCHANGED <<plan, revisions, edits, broken>>
    BY <1>5 DEF ReadLast
  <2>2. Latest \in Nat
    BY LatestFacts DEF PlanIInv
  <2> DEFINE copy == [editor[e].copy EXCEPT !.version = NextVersion(e)]
  <2>a. /\ copy \in Plan /\ copy.version = Latest + 1
        /\ Bad(copy) <=> Bad(editor[e].copy)
    <3>1. editor[e].copy \in Plan
      BY <1>0
    <3>2. NextVersion(e) \in Nat /\ NextVersion(e) = Latest + 1
      BY <2>2 DEF NextVersion
    <3>3. QED
      BY <3>1, <3>2 DEF Plan, Bad
  <2>b. x = [editor[e] EXCEPT !.pc = "plan", !.copy = copy]
    BY <1>0 DEF EditorType
  <2> HIDE DEF x, copy
  <2>3. /\ x \in EditorType /\ x.pc = "plan" /\ x.copy.version = Latest + 1
        /\ x.isEdit = editor[e].isEdit /\ (Bad(x.copy) <=> Bad(editor[e].copy))
    <3>1. x.copy = copy /\ x.pc = "plan" /\ x.isEdit = editor[e].isEdit
      BY <1>0, <2>b DEF EditorType
    <3>2. x \in EditorType
      BY <1>0, <2>a, <2>b DEF EditorType, Progress
    <3>3. QED
      BY <2>a, <3>1, <3>2
  <2>4. /\ ~IsReopening(e) /\ ~OnStep(e, "insert") /\ x.copy.version \in 1..(Latest + 1)
        /\ ~x.isEdit => ~Bad(x.copy)
    BY <2>1, <2>2, <2>3 DEF IsReopening, OnStep, PlanIInv, CopiesAreSound
  <2>5. QED
    BY <1>0, <2>1, <2>3, <2>4, EditorStep
<1>6. ASSUME NEW e \in Editors, SavePlan(e)
      PROVE  PlanIInv'
  <2> DEFINE x == [editor[e] EXCEPT !.pc = "insert"]
  <2>1. /\ OnStep(e, "plan") /\ plan' = editor[e].copy /\ Proceed(e, x)
        /\ UNCHANGED <<revisions, edits, broken>>
    BY <1>6 DEF SavePlan, ProceedTo
  <2>2. /\ x \in EditorType /\ x.pc = "insert" /\ x.copy = editor[e].copy
        /\ x.isEdit = editor[e].isEdit
    BY <1>0 DEF EditorType, Progress
  <2> HIDE DEF x
  <2>3. ~OnStep(e, "insert")
    BY <2>1 DEF OnStep
  <2>4. QED
    BY <2>1, <2>2, <2>3, PlanSaveStep
<1>7. ASSUME NEW e \in Editors, InsertRevision(e)
      PROVE  PlanIInv'
  BY <1>7, InsertKeepsIInv
<1>8. ASSUME NEW e \in Editors, ReopenPlan(e)
      PROVE  PlanIInv'
  <2>1. OnStep(e, "reopen") /\ UNCHANGED <<plan, revisions, edits, broken>> /\ ~OnStep(e, "insert")
    BY <1>8 DEF ReopenPlan, OnStep
  <2>2. CASE plan.approval = "approved"
    <3> DEFINE x == [Resting EXCEPT !.pc = "reopened", !.copy = [plan EXCEPT !.approval = "pending"]]
    <3>1. Proceed(e, x)
      BY <1>8, <2>2 DEF ReopenPlan, ProceedWith
    <3>2. /\ x \in EditorType /\ x.pc = "reopened" /\ x.copy.approval = "pending"
          /\ x.copy.content = plan.content
      BY <1>0, <1>a DEF EditorType, Progress, Plan, Status
    <3> HIDE DEF x
    <3>3. ~broken /\ x.copy.content > 0 => Revised(x.copy.content)
      BY <3>2 DEF PlanIInv, HeldIsRevised
    <3>4. QED
      BY <1>0, <2>1, <3>1, <3>2, <3>3, EditorStep
  <2>3. CASE plan.approval # "approved"
    <3>1. Proceed(e, Resting) /\ ~Bad(plan)
      BY <1>8, <2>3 DEF ReopenPlan, Return, Bad
    <3>2. QED
      BY <1>0, <1>a, <2>1, <3>1, EditorStep
  <2>4. QED
    BY <2>2, <2>3
<1>9. ASSUME NEW e \in Editors, SaveReopenedPlan(e)
      PROVE  PlanIInv'
  <2>1. /\ editor[e].pc = "reopened" /\ plan' = editor[e].copy /\ Proceed(e, Resting)
        /\ UNCHANGED <<revisions, edits, broken>> /\ ~OnStep(e, "insert")
    BY <1>9 DEF SaveReopenedPlan, Return, OnStep
  <2>2. QED
    BY <1>a, <2>1, PlanSaveStep
<1>10. ASSUME NEW e \in Editors, NEW status \in Status, DecidePlan(e, status)
       PROVE  PlanIInv'
  <2> DEFINE agreed == IF status = "approved" THEN plan.content ELSE plan.agreed
             decided == [plan EXCEPT !.approval = status, !.agreed = agreed]
             x == [Resting EXCEPT !.pc = "decide", !.copy = decided]
  <2>1. /\ OnStep(e, "idle") /\ Proceed(e, x) /\ UNCHANGED <<plan, revisions, edits, broken>>
        /\ Saved
    BY <1>10 DEF DecidePlan, ProceedWith
  <2>2. decided \in Plan /\ ~Bad(decided) /\ decided.content = plan.content
    BY <1>0 DEF Plan, Bad
  <2> HIDE DEF decided
  <2>3. x \in EditorType /\ x.pc = "decide" /\ x.copy = decided
    BY <1>a, <2>2 DEF EditorType, Progress
  <2> HIDE DEF x
  <2>4. /\ ~IsReopening(e) /\ ~OnStep(e, "insert")
        /\ ~broken /\ x.copy.content > 0 => Revised(x.copy.content)
    BY <2>1, <2>2, <2>3 DEF IsReopening, OnStep, PlanIInv, HeldIsRevised
  <2>5. QED
    BY <1>0, <2>1, <2>2, <2>3, <2>4, EditorStep
<1>11. ASSUME NEW e \in Editors, SaveDecidedPlan(e)
       PROVE  PlanIInv'
  <2> DEFINE x == [Resting EXCEPT !.pc = "latest", !.copy = [NoPlan EXCEPT !.approval = plan'.approval]]
  <2>1. /\ editor[e].pc = "decide" /\ plan' = editor[e].copy /\ Proceed(e, x)
        /\ UNCHANGED <<revisions, edits, broken>> /\ ~OnStep(e, "insert")
    BY <1>11 DEF SaveDecidedPlan, ProceedWith, OnStep
  <2>2. plan'.approval \in Status
    BY <1>0, <2>1 DEF Plan
  <2>3. x \in EditorType /\ x.pc = "latest"
    BY <1>a, <2>2 DEF EditorType, Progress, Plan
  <2> HIDE DEF x
  <2>4. QED
    BY <2>1, <2>3, PlanSaveStep
<1>12. ASSUME NEW e \in Editors, FindLatest(e)
       PROVE  PlanIInv'
  <2> DEFINE x == IF Latest = 0 THEN Resting ELSE [editor[e] EXCEPT !.pc = "mirror", !.number = Latest]
  <2>1. /\ OnStep(e, "latest") /\ Proceed(e, x) /\ UNCHANGED <<plan, revisions, edits, broken>>
    BY <1>12 DEF FindLatest, Return
  <2>2. Latest \in Nat
    BY LatestFacts DEF PlanIInv
  <2>3. x \in EditorType /\ x.pc \in {"idle", "mirror"}
    BY <1>0, <1>a, <2>2 DEF EditorType, Progress
  <2> HIDE DEF x
  <2>4. ~IsReopening(e) /\ ~OnStep(e, "insert")
    BY <2>1 DEF IsReopening, OnStep
  <2>5. QED
    BY <1>0, <2>1, <2>3, <2>4, EditorStep
<1>13. ASSUME NEW e \in Editors, MirrorDecision(e)
       PROVE  PlanIInv'
  BY <1>13, MirrorKeepsIInv
<1>14. ASSUME NEW e \in Editors, BreakOff(e)
       PROVE  PlanIInv'
  <2>1. Proceed(e, Resting) /\ broken' = TRUE /\ UNCHANGED <<plan, revisions, edits>>
    BY <1>14 DEF BreakOff, Return
  <2>2. QED
    BY <1>0, <1>a, <2>1, EditorStep
<1>15. QED
  BY <1>1, <1>2, <1>3, <1>4, <1>5, <1>6, <1>7, <1>8, <1>9, <1>10, <1>11, <1>12, <1>13, <1>14
  DEF PlanNext, Editor

LEMMA PlanInitIInv ==
  ASSUME MaxEdits \in Nat \ {0}, PlanInit
  PROVE  PlanIInv
<1>1. /\ Resting \in EditorType /\ Resting.pc = "idle" /\ NoPlan \in Plan
      /\ NoPlan.approval = "pending" /\ ~(NoPlan.content > 0)
  BY DEF Resting, EditorType, Progress, NoPlan, Plan, Status
<1>2. DOMAIN revisions = {} /\ 1..0 = {}
  BY DEF PlanInit
<1>3. NumbersAreDense
  BY <1>2 DEF NumbersAreDense, Numbered
<1>4. PlanTypeOK /\ editor \in [Editors -> EditorType]
  <2>1. editor \in [Editors -> EditorType]
    BY <1>1 DEF PlanInit
  <2>2. 0 \in 0..MaxEdits
    OBVIOUS
  <2>3. /\ plan \in Plan /\ edits \in 0..MaxEdits /\ broken \in BOOLEAN
        /\ \A v \in DOMAIN revisions : v \in Nat \ {0} /\ revisions[v] \in Revision
    BY <1>1, <1>2, <2>2 DEF PlanInit
  <2>4. QED
    BY <2>1, <2>3 DEF PlanTypeOK, EditorType
<1>5. QED
  BY <1>1, <1>3, <1>4 DEF PlanInit, PlanIInv, NextIsHeld, CopiesAreSound, BadIsReopened, Bad,
     HeldIsRevised

(* However edits, restores, decisions and failures interleave, saving what *)
(* they had loaded before: a plan is approved with the content that was    *)
(* agreed to unless an edit is half done or broke off; its content can be  *)
(* found among the revisions.                                              *)
THEOREM PlansAreApprovedAsTheyAre ==
  ASSUME MaxEdits \in Nat \ {0}
  PROVE  PlanSpec => [](PlanTypeOK /\ PlanApprovalIsOfContent /\ ContentIsRevised)
<1>1. PlanInit => PlanIInv
  BY PlanInitIInv
<1>2. PlanIInv /\ [PlanNext]_planVars => PlanIInv'
  BY PlanStepIInv
<1>3. PlanIInv => PlanTypeOK /\ PlanApprovalIsOfContent /\ ContentIsRevised
  <2>1. PlanIInv => PlanApprovalIsOfContent
    BY DEF PlanIInv, BadIsReopened, Bad, IsReopening, PlanApprovalIsOfContent
  <2>2. PlanIInv => ContentIsRevised
    BY DEF PlanIInv, HeldIsRevised, Revised, Saved, ContentIsRevised
  <2>3. QED
    BY <2>1, <2>2 DEF PlanIInv
<1>4. QED
  BY <1>1, <1>2, <1>3, PTL DEF PlanSpec

(* "numbers are never reused" (test-plan-revision.entity.ts): a revision   *)
(* keeps its content, and the next number is the only one that is added.   *)
THEOREM RevisionsOnlyGrow ==
  ASSUME MaxEdits \in Nat \ {0}
  PROVE  PlanSpec => HistoryOnlyGrows
<1> DEFINE Grows == /\ DOMAIN revisions' \in {DOMAIN revisions, DOMAIN revisions \cup {Latest + 1}}
                    /\ \A v \in DOMAIN revisions : revisions'[v].content = revisions[v].content
<1>1. PlanInit => PlanIInv
  BY PlanInitIInv
<1>2. PlanIInv /\ [PlanNext]_planVars => PlanIInv'
  BY PlanStepIInv
<1>3. PlanIInv /\ [PlanNext]_planVars => [Grows]_planVars
  <2> SUFFICES ASSUME PlanIInv, PlanNext
               PROVE  Grows
    OBVIOUS
  <2>1. ASSUME NEW e \in Editors, InsertRevision(e)
        PROVE  Grows
    <3>1. PICK n \in Nat : n = Latest /\ DOMAIN revisions = 1..n
      BY LatestFacts DEF PlanIInv, Numbered
    <3>2. editor[e].copy.version \in 1..(n + 1)
      BY <2>1, <3>1 DEF PlanIInv, NextIsHeld, InsertRevision, OnStep
    <3>3. CASE editor[e].copy.version \in DOMAIN revisions
      BY <2>1, <3>3 DEF InsertRevision
    <3>4. CASE editor[e].copy.version \notin DOMAIN revisions
      <4>1. editor[e].copy.version = Latest + 1
        BY <3>1, <3>2, <3>4
      <4>2. QED
        BY <2>1, <3>4, <4>1 DEF InsertRevision
    <3>5. QED
      BY <3>3, <3>4
  <2>2. ASSUME NEW e \in Editors, MirrorDecision(e)
        PROVE  Grows
    BY <2>2 DEF MirrorDecision, PlanIInv, PlanTypeOK, Revision
  <2>3. ASSUME revisions' = revisions
        PROVE  Grows
    BY <2>3
  <2>4. QED
    BY <2>1, <2>2, <2>3
    DEF PlanNext, Editor, Generate, UpdatePlan, RestoreRevision, ReadLast, SavePlan, ReopenPlan,
        SaveReopenedPlan, DecidePlan, SaveDecidedPlan, FindLatest, BreakOff
<1>4. QED
  BY <1>1, <1>2, <1>3, PTL DEF PlanSpec, HistoryOnlyGrows
-----------------------------------------------------------------------------
(* Editors.  What a form was seeded from, and a draft that it does not     *)
(* take for unsaved, were stored once - unless Save cleared the flag of    *)
(* the section editor before the text got there.                           *)
ShownWasStored ==
  /\ content \in storedTexts /\ cached \in storedTexts /\ formEditor.seeded \in storedTexts
  /\ fetch.at = "answered" => fetch.text \in storedTexts
  /\ save.at = "stored" => save.text \in storedTexts

FlagToldOfText ==
  form = "sections" /\ ~formEditor.flag /\ formEditor.draft \notin storedTexts => saves > 0

EditorIInv == EditorTypeOK /\ ShownWasStored /\ FlagToldOfText

LEMMA EditorInitIInv ==
  ASSUME MaxTexts \in Nat, MaxSaves \in Nat, EditorInit
  PROVE  EditorIInv
BY DEF EditorInit, EditorIInv, EditorTypeOK, ShownWasStored, FlagToldOfText, Contents, NoFetch, NoSave

LEMMA EditorStepIInv ==
  ASSUME MaxTexts \in Nat, MaxSaves \in Nat, EditorIInv, [EditorNext]_editorVars
  PROVE  EditorIInv'
<1> USE DEF EditorIInv, EditorTypeOK, ShownWasStored, FlagToldOfText
<1>1. CASE WriteElsewhere
  BY <1>1 DEF WriteElsewhere, Contents
<1>2. CASE Invalidate
  BY <1>2 DEF Invalidate, NoFetch, Contents
<1>3. CASE AnswerFetch
  BY <1>3 DEF AnswerFetch
<1>4. CASE ShowFetched
  <2>1. /\ fetch' = [at |-> "idle", text |-> 0] /\ cached' = fetch.text
        /\ UNCHANGED <<form, content, storedTexts, save, written, saves, mine>>
        /\ fetch.text \in Contents /\ fetch.text \in storedTexts
        /\ fetch' \in [at : {"idle", "asked", "answered"}, text : Contents]
    BY <1>4 DEF ShowFetched, NoFetch, Contents
  <2>2. CASE formEditor' = formEditor
    BY <2>1, <2>2
  <2>3. CASE formEditor' = [formEditor EXCEPT !.draft = cached', !.seeded = cached']
    BY <2>1, <2>3
  <2>4. QED
    BY <1>4, <2>2, <2>3 DEF ShowFetched, Reseeded
<1>5. CASE OpenForm
  BY <1>5 DEF OpenForm
<1>6. CASE Type
  <2>1. PICK told \in BOOLEAN : told = (form = "sections")
    OBVIOUS
  <2>2. PICK text \in Contents : text = written + 1
    BY <1>6 DEF Type, Contents
  <2>3. /\ formEditor' = [formEditor EXCEPT !.draft = text, !.flag = told] /\ written' = text
        /\ mine' = mine \cup {text}
        /\ UNCHANGED <<form, content, storedTexts, cached, fetch, save, saves>>
    BY <1>6, <2>1, <2>2 DEF Type
  <2>4. EditorTypeOK'
    BY <2>2, <2>3
  <2>5. ShownWasStored'
    BY <2>3
  <2>6. form = "sections" => formEditor'.flag
    BY <2>1, <2>3
  <2>7. FlagToldOfText'
    BY <2>3, <2>6
  <2>8. QED
    BY <2>4, <2>5, <2>7
<1>7. CASE Revert
  BY <1>7 DEF Revert
<1>8. CASE Save
  <2>1. /\ save' = [at |-> "sent", text |-> formEditor.draft]
        /\ saves' \in 0..MaxSaves /\ saves' > 0
        /\ UNCHANGED <<form, content, storedTexts, cached, fetch, written, mine>>
    BY <1>8 DEF Save
  <2>2. CASE formEditor' = formEditor
    BY <2>1, <2>2
  <2>3. CASE formEditor' = [formEditor EXCEPT !.flag = FALSE]
    BY <2>1, <2>3
  <2>4. CASE formEditor' = [formEditor EXCEPT !.flag = FALSE, !.draft = cached, !.seeded = cached]
    BY <2>1, <2>4
  <2>5. QED
    BY <1>8, <2>2, <2>3, <2>4 DEF Save
<1>9. CASE StoreText
  BY <1>9 DEF StoreText
<1>10. CASE FailSave
  BY <1>10 DEF FailSave, NoSave, Contents
<1>11. CASE SaveAnswered
  <2>1. /\ save' = [at |-> "none", text |-> 0] /\ fetch' = [at |-> "asked", text |-> 0]
        /\ UNCHANGED <<form, content, storedTexts, cached, written, saves, mine>>
        /\ save.text \in Contents /\ save.text \in storedTexts
        /\ fetch' \in [at : {"idle", "asked", "answered"}, text : Contents]
        /\ save' \in [at : {"none", "sent", "stored", "failed"}, text : Contents]
    BY <1>11 DEF SaveAnswered, NoFetch, NoSave, Contents
  <2>2. CASE form = "code"
    <3>1. formEditor' = [formEditor EXCEPT !.draft = save.text, !.seeded = save.text]
      BY <1>11, <2>2 DEF SaveAnswered
    <3>2. QED
      BY <2>1, <2>2, <3>1
  <2>3. CASE form = "sections"
    BY <1>11, <2>1, <2>3 DEF SaveAnswered
  <2>4. CASE form = "case"
    <3>1. formEditor' = [formEditor EXCEPT !.open = FALSE]
      BY <1>11, <2>4 DEF SaveAnswered
    <3>2. QED
      BY <2>1, <2>4, <3>1
  <2>5. QED
    BY <2>2, <2>3, <2>4 DEF Forms
<1>12. CASE UNCHANGED editorVars
  BY <1>12 DEF editorVars
<1>13. QED
  BY <1>1, <1>2, <1>3, <1>4, <1>5, <1>6, <1>7, <1>8, <1>9, <1>10, <1>11, <1>12 DEF EditorNext

(* However refetches, saves and the writes of others interleave, a form    *)
(* takes fetched content over text that was never stored only if it is the *)
(* section editor and Save was pressed on it.                              *)
THEOREM TypedTextIsKept ==
  ASSUME MaxTexts \in Nat, MaxSaves \in Nat
  PROVE  EditorSpec => OnlySavedSectionsAreWiped
<1> DEFINE Wiped == formEditor'.draft # formEditor.draft /\ NeverStored(formEditor.draft)
                      /\ cached' # cached
           SavedBefore == form = "sections" /\ ~formEditor.flag /\ saves > 0
<1>1. EditorInit => EditorIInv
  BY EditorInitIInv
<1>2. EditorIInv /\ [EditorNext]_editorVars => EditorIInv'
  BY EditorStepIInv
<1>3. EditorIInv /\ [EditorNext]_editorVars => [Wiped => SavedBefore]_editorVars
  <2> SUFFICES ASSUME EditorIInv, EditorNext, Wiped
               PROVE  SavedBefore
    OBVIOUS
  <2>1. ShowFetched
    BY DEF EditorNext, WriteElsewhere, Invalidate, AnswerFetch, OpenForm, Type, Revert, Save,
           StoreText, FailSave, SaveAnswered
  <2>2. form # "case" /\ ~Dirty(formEditor)
    BY <2>1 DEF ShowFetched, Reseeded
  <2>3. form # "code"
    BY <2>2 DEF Dirty, NeverStored, EditorIInv, ShownWasStored
  <2>4. QED
    BY <2>2, <2>3
    DEF Dirty, Forms, NeverStored, EditorIInv, EditorTypeOK, FlagToldOfText
<1>4. QED
  BY <1>1, <1>2, <1>3, PTL DEF EditorSpec, OnlySavedSectionsAreWiped
=============================================================================
