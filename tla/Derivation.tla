----------------------------- MODULE Derivation -----------------------------
(***************************************************************************)
(* Documents become requirements.  Every generation first derives          *)
(* requirements from the included segments of the documents in its scope   *)
(* (modules/requirements/requirement-derivation.service.ts), comparing     *)
(* them with the requirements it has read before the first of them, while  *)
(* documents come (Uploads), are removed and have segments excluded        *)
(* (modules/documents), requirements are entered by hand and other         *)
(* generations derive.                                                     *)
(***************************************************************************)
EXTENDS Naturals, FiniteSets

CONSTANTS
  Documents,
  Texts,         \* contents of segments
  TextsOf,       \* the segments of each document
  Derivations    \* generations that derive requirements

ASSUME DerivationAssumption == TextsOf \in [Documents -> SUBSET Texts]

VARIABLES
  stored,        \* source_documents, and how far each of them is
  present,       \* document_segments, as pairs of a document and a text
  included,      \* those of them with inclusion_status "included"
  derived,       \* requirements from documents, counted by text
  manual,        \* texts of requirements entered by hand
  derive,        \* the derivations
  overlapped     \* history: two derivations have been at work at a time
derivationVars == <<stored, present, included, derived, manual, derive, overlapped>>

Segments == {s \in Documents \X Texts : s[2] \in TextsOf[s[1]]}
SegmentsOf(doc, segs) == {s \in segs : s[1] = doc}
TextsIn(segs) == {s[2] : s \in segs}
NoDerivation == [pc |-> "idle", docs |-> {}, known |-> {}, texts |-> {}, result |-> {}, always |-> {}]

DerivationTypeOK ==
  /\ stored \in [Documents -> {"none", "storing", "stored", "removing"}]
  /\ present \subseteq Segments /\ included \subseteq present
  /\ derived \in [Texts -> Nat] /\ manual \subseteq Texts
  /\ \A d \in Derivations :
       /\ derive[d].pc \in {"idle", "docs", "working", "done", "failed"}
       /\ derive[d].docs \subseteq Documents /\ derive[d].always \subseteq Segments
       /\ \A f \in {"known", "texts", "result"} : derive[d][f] \subseteq Texts
  /\ overlapped \in BOOLEAN

DerivationInit ==
  /\ stored = [doc \in Documents |-> "none"] /\ present = {} /\ included = {}
  /\ derived = [t \in Texts |-> 0] /\ manual = {}
  /\ derive = [d \in Derivations |-> NoDerivation]
  /\ overlapped = FALSE

-----------------------------------------------------------------------------
requirementVars == <<derived, manual, overlapped>>

(* Segments that are no longer included have not always been.              *)
SegmentsAre(now, in) ==
  /\ present' = now /\ included' = in
  /\ derive' = [d \in Derivations |-> [derive[d] EXCEPT !.always = @ \cap in]]

Becomes(doc, from, to) == stored[doc] = from /\ stored' = [stored EXCEPT ![doc] = to]

(* upload() stores a document, its segments a step later.                  *)
DocumentArrives(doc) ==
  /\ Becomes(doc, "none", "storing")
  /\ UNCHANGED <<present, included, derive, requirementVars>>

SegmentsArrive(doc) ==
  /\ Becomes(doc, "storing", "stored")
  /\ SegmentsAre(present \cup SegmentsOf(doc, Segments), included \cup SegmentsOf(doc, Segments))
  /\ UNCHANGED requirementVars

(* updateSegments().                                                       *)
Toggle(s) ==
  /\ s \in present
  /\ SegmentsAre(present, IF s \in included THEN included \ {s} ELSE included \cup {s})
  /\ UNCHANGED <<stored, requirementVars>>

(* remove(): the segments, then the document.                              *)
RemoveSegments(doc) ==
  /\ Becomes(doc, "stored", "removing")
  /\ SegmentsAre(present \ SegmentsOf(doc, present), included \ SegmentsOf(doc, present))
  /\ UNCHANGED requirementVars

RemoveDocument(doc) ==
  /\ Becomes(doc, "removing", "none")
  /\ UNCHANGED <<present, included, derive, requirementVars>>

(* create() of a requirement by hand compares it with nothing.             *)
CreateRequirement(t) ==
  /\ t \notin manual /\ manual' = manual \cup {t}
  /\ UNCHANGED <<stored, present, included, derived, derive, overlapped>>

-----------------------------------------------------------------------------
Derives(d, pc) == derive[d].pc = pc
DeriveIs(d, x) == derive' = [derive EXCEPT ![d] = x]
documentVars == <<stored, present, included>>

(* deriveFromDocuments(): the documents in scope that were read.           *)
BeginDerivation(d, docs) ==
  /\ Derives(d, "idle")
  /\ DeriveIs(d, [derive[d] EXCEPT !.pc = IF docs = {} THEN "done" ELSE "docs", !.docs = docs,
       !.always = {s \in included : s[1] \in docs}])
  /\ UNCHANGED <<documentVars, requirementVars>>

(* byHash: what is known of the requirements from here on.                 *)
ReadKnown(d) ==
  /\ Derives(d, "docs")
  /\ DeriveIs(d, [derive[d] EXCEPT !.pc = "working",
                                   !.known = {t \in Texts : derived[t] > 0} \cup manual])
  /\ overlapped' = (overlapped \/ \E o \in Derivations : Derives(o, "working"))
  /\ UNCHANGED <<documentVars, derived, manual>>

(* Mutant: requirements that are there already are left out. *)
Matched_LeftOut(texts, known) == {}

Matched(texts, known) == texts \cap known

ReadSegments(d, doc) ==
  LET texts == TextsIn(SegmentsOf(doc, included)) IN
  /\ Derives(d, "working") /\ derive[d].texts = {} /\ doc \in derive[d].docs
  /\ DeriveIs(d, [derive[d] EXCEPT !.docs = @ \ {doc},
       !.texts = texts \ derive[d].known,
       !.result = @ \cup Matched(texts, derive[d].known)])
  /\ UNCHANGED <<documentVars, requirementVars>>

(* Mutant: what is derived is not remembered for the next document. *)
Learned_Nothing(known, t) == known

Learned(known, t) == known \cup {t}

SaveRequirement(d, t) ==
  /\ Derives(d, "working") /\ t \in derive[d].texts
  /\ derived' = [derived EXCEPT ![t] = @ + 1]
  /\ DeriveIs(d, [derive[d] EXCEPT !.texts = @ \ {t}, !.result = @ \cup {t},
                                   !.known = Learned(@, t)])
  /\ UNCHANGED <<documentVars, manual, overlapped>>

EndDerivation(d, pc) ==
  /\ \/ pc = "done" /\ Derives(d, "working") /\ derive[d].docs = {} /\ derive[d].texts = {}
     \/ pc = "failed" /\ derive[d].pc \in {"docs", "working"}
  /\ DeriveIs(d, [NoDerivation EXCEPT !.pc = pc, !.result = derive[d].result,
                                      !.always = derive[d].always])
  /\ UNCHANGED <<documentVars, requirementVars>>

DerivationNext ==
  \/ \E doc \in Documents : \/ DocumentArrives(doc) \/ SegmentsArrive(doc)
                            \/ RemoveSegments(doc) \/ RemoveDocument(doc)
  \/ \E s \in Segments : Toggle(s)
  \/ \E t \in Texts : CreateRequirement(t)
  \/ \E d \in Derivations :
       \/ \E docs \in SUBSET {doc \in Documents : stored[doc] # "none"} : BeginDerivation(d, docs)
       \/ ReadKnown(d)
       \/ \E doc \in Documents : ReadSegments(d, doc)
       \/ \E t \in Texts : SaveRequirement(d, t)
       \/ \E pc \in {"done", "failed"} : EndDerivation(d, pc)

DerivationSpec == DerivationInit /\ [][DerivationNext]_derivationVars

-----------------------------------------------------------------------------
(* "segments already materialised as a requirement are returned, not       *)
(* duplicated" (requirement-derivation.service.ts:15): over any number of  *)
(* documents, repeated and failed derivations, unless two overlapped.      *)
OneRequirementPerText == ~overlapped => \A t \in Texts : derived[t] <= 1

(* "Returns every document-sourced requirement in scope": a derivation     *)
(* that ends returns one for each segment included all the time since.     *)
DerivedIsWhole ==
  \A d \in Derivations : Derives(d, "done") => TextsIn(derive[d].always) \subseteq derive[d].result
=============================================================================
