------------------------------- MODULE Editors -------------------------------
(***************************************************************************)
(* What a reviewer types, against the refetches of the page.  Three forms  *)
(* edit what the backend stores: the code of an artefact (AutomationPage), *)
(* the sections of a plan (SectionEditor) and a test case                  *)
(* (TestCaseEditModal).  Project events invalidate the query behind the    *)
(* form; the code and section editors then take over the fetched content   *)
(* unless there is unsaved text, each with its own idea of unsaved.  A     *)
(* text is a number: every edit writes a new one.                          *)
(***************************************************************************)
EXTENDS Naturals

CONSTANTS
  MaxTexts,      \* bound: texts written, by the reviewer and by others
  MaxSaves       \* bound: saves the reviewer asks for

VARIABLES
  form,          \* which of the three forms it is
  content,       \* the backend: what the row holds
  storedTexts,   \* history: every text the row has held
  cached,        \* the page: the data of the query
  fetch,         \* its refetch: idle, asked, or the answer on its way
  formEditor,    \* open, the draft, what it was seeded from, the dirty flag
  save,          \* the request under way, if any: its text and where it is
  written,       \* the texts written so far are 1..written
  saves,         \* saves asked for
  mine           \* history: the texts the reviewer typed
editorVars == <<form, content, storedTexts, cached, fetch, formEditor, save, written, saves, mine>>

Forms == {"code", "sections", "case"}
Contents == 0..MaxTexts
NoSave == [at |-> "none", text |-> 0]
NoFetch == [at |-> "idle", text |-> 0]

EditorTypeOK ==
  /\ form \in Forms /\ content \in Contents /\ cached \in Contents /\ written \in Contents
  /\ storedTexts \subseteq Contents /\ mine \subseteq Contents /\ saves \in 0..MaxSaves
  /\ fetch \in [at : {"idle", "asked", "answered"}, text : Contents]
  /\ formEditor \in [open : BOOLEAN, draft : Contents, seeded : Contents, flag : BOOLEAN]
  /\ save \in [at : {"none", "sent", "stored", "failed"}, text : Contents]

EditorInit ==
  /\ form \in Forms /\ content = 0 /\ cached = 0 /\ storedTexts = {0}
  /\ fetch = NoFetch /\ save = NoSave /\ written = 0 /\ saves = 0 /\ mine = {}
  /\ formEditor = [open |-> form # "case", draft |-> 0, seeded |-> 0, flag |-> FALSE]

(* The code editor compares the draft with the saved code, the section     *)
(* editor keeps a flag; the modal knows no unsaved text.                   *)
Dirty(e) == CASE form = "code" -> e.draft # e.seeded
              [] form = "sections" -> e.flag
              [] form = "case" -> FALSE

(* Mutant: the fetched content is taken over whatever was typed. *)
Reseeded_Always(e, data) ==
  IF form # "case" THEN [e EXCEPT !.draft = data, !.seeded = data] ELSE e

(* The effects that run after a render with the query's data; the modal    *)
(* holds the values it was opened with.  The section editor leaves its     *)
(* draft alone when the content is what it was seeded from.                *)
Reseeded(e, data) ==
  IF form # "case" /\ ~Dirty(e) /\ (form = "sections" => data # e.seeded)
  THEN [e EXCEPT !.draft = data, !.seeded = data] ELSE e

-----------------------------------------------------------------------------
(* Another reviewer, a job or a restored revision rewrites the row.        *)
WriteElsewhere ==
  /\ written < MaxTexts /\ written' = written + 1
  /\ content' = written' /\ storedTexts' = storedTexts \cup {written'}
  /\ UNCHANGED <<form, cached, fetch, formEditor, save, saves, mine>>

(* An event of the project, or a save that succeeded: a refetch under way  *)
(* is cancelled and asked for again.                                       *)
Invalidate ==
  /\ fetch' = [NoFetch EXCEPT !.at = "asked"]
  /\ UNCHANGED <<form, content, storedTexts, cached, formEditor, save, written, saves, mine>>

AnswerFetch ==
  /\ fetch.at = "asked"
  /\ fetch' = [at |-> "answered", text |-> content]
  /\ UNCHANGED <<form, content, storedTexts, cached, formEditor, save, written, saves, mine>>

(* The effect of the code editor depends on the fetched content alone: it  *)
(* does not run when the data did not change.  The section editor's runs   *)
(* also when its flag is cleared.                                          *)
ShowFetched ==
  /\ fetch.at = "answered"
  /\ fetch' = NoFetch /\ cached' = fetch.text
  /\ formEditor' = IF form = "code" /\ cached' = cached THEN formEditor
                 ELSE Reseeded(formEditor, cached')
  /\ UNCHANGED <<form, content, storedTexts, save, written, saves, mine>>

-----------------------------------------------------------------------------
(* The reviewer.  No form is disabled while a save is under way.           *)
OpenForm ==
  /\ ~formEditor.open
  /\ formEditor' = [formEditor EXCEPT !.open = TRUE, !.draft = cached, !.seeded = cached]
  /\ UNCHANGED <<form, content, storedTexts, cached, fetch, save, written, saves, mine>>

Type ==
  /\ formEditor.open /\ written < MaxTexts /\ written' = written + 1
  /\ formEditor' = [formEditor EXCEPT !.draft = written', !.flag = (form = "sections")]
  /\ mine' = mine \cup {written'}
  /\ UNCHANGED <<form, content, storedTexts, cached, fetch, save, saves>>

(* Revert of the code editor, Cancel of the modal.                         *)
Revert ==
  /\ formEditor.open /\ form # "sections"
  /\ form = "code" => Dirty(formEditor) /\ save.at = "none"
  /\ formEditor' = IF form = "code" THEN [formEditor EXCEPT !.draft = formEditor.seeded]
                   ELSE [formEditor EXCEPT !.open = FALSE]
  /\ UNCHANGED <<form, content, storedTexts, cached, fetch, save, written, saves, mine>>

(* The section editor clears its flag before the request is sent, so that  *)
(* its effect runs on what the query holds at that moment.                 *)
Save ==
  /\ formEditor.open /\ save.at = "none" /\ saves < MaxSaves
  /\ form # "case" => Dirty(formEditor)
  /\ save' = [at |-> "sent", text |-> formEditor.draft] /\ saves' = saves + 1
  /\ formEditor' = IF form # "sections" THEN formEditor
                   ELSE IF formEditor.seeded = cached THEN [formEditor EXCEPT !.flag = FALSE]
                   ELSE [formEditor EXCEPT !.flag = FALSE, !.draft = cached, !.seeded = cached]
  /\ UNCHANGED <<form, content, storedTexts, cached, fetch, written, mine>>

(* The backend: the whole text replaces what the row holds by then.        *)
StoreText ==
  /\ save.at = "sent"
  /\ save' = [save EXCEPT !.at = "stored"]
  /\ content' = save.text /\ storedTexts' = storedTexts \cup {save.text}
  /\ UNCHANGED <<form, cached, fetch, formEditor, written, saves, mine>>

(* It refuses the request, or its answer is lost.                          *)
FailSave ==
  /\ save.at \in {"sent", "stored"}
  /\ save' = NoSave
  /\ UNCHANGED <<form, content, storedTexts, cached, fetch, formEditor, written, saves, mine>>

(* The code editor shows the answer, typed on or not; the modal closes.    *)
SaveAnswered ==
  /\ save.at = "stored"
  /\ save' = NoSave /\ fetch' = [NoFetch EXCEPT !.at = "asked"]
  /\ formEditor' = CASE form = "code" -> [formEditor EXCEPT !.draft = save.text, !.seeded = save.text]
                     [] form = "sections" -> formEditor
                     [] form = "case" -> [formEditor EXCEPT !.open = FALSE]
  /\ UNCHANGED <<form, content, storedTexts, cached, written, saves, mine>>

EditorNext ==
  \/ WriteElsewhere \/ Invalidate \/ AnswerFetch \/ ShowFetched
  \/ OpenForm \/ Type \/ Revert \/ Save \/ StoreText \/ FailSave \/ SaveAnswered

EditorSpec == EditorInit /\ [][EditorNext]_editorVars

-----------------------------------------------------------------------------
(* A refetch takes over text that was typed and never stored only in the   *)
(* section editor, and only once Save was pressed on it: while the request *)
(* is under way, or after it failed.                                       *)
NeverStored(text) == text \in mine \ storedTexts

OnlySavedSectionsAreWiped ==
  [][formEditor'.draft # formEditor.draft /\ NeverStored(formEditor.draft) /\ cached' # cached
       => form = "sections" /\ ~formEditor.flag /\ saves > 0]_editorVars

(* "a reviewer's in-progress text must never be silently wiped by a        *)
(* background refetch" (SectionEditor.tsx:60-61): not even when the        *)
(* backend has refused it.                                                 *)
NeverWipedByRefetch ==
  [][formEditor'.draft # formEditor.draft /\ NeverStored(formEditor.draft) /\ cached' # cached
       => save.at # "none"]_editorVars
=============================================================================
