--------------------------- MODULE ProjectSettings ---------------------------
(***************************************************************************)
(* The configuration of a project: the form that is filled in              *)
(* (features/projects/ProjectForm.tsx) on the pages that create a project  *)
(* and change its settings, ProjectsService.create() and update(), and     *)
(* LlmRuntimeService, which decides what the engine runs on.               *)
(*                                                                         *)
(* update() merges what a form sends into a row it has loaded, without the *)
(* sealed key, checks that row and saves all of it.  The model's name,     *)
(* which every provider needs, is left out: it is checked as the base URL  *)
(* of a custom one is.                                                     *)
(***************************************************************************)
EXTENDS Naturals, FiniteSets

CONSTANTS
  Providers,     \* cloud providers
  Custom,        \* those without a base URL of their own
  Tabs           \* pages open on the project

ASSUME ProvidersAssumption == Custom \subseteq Providers

VARIABLES
  project,       \* the row, its sealed key aside
  key,           \* cloud_api_key_enc: the provider the key was typed for
  member,        \* whether the creator is a member
  tab,           \* the pages: form, request under way and the row it holds
  crossed        \* history: two updates have held the row at a time
projectVars == <<project, key, member, tab, crossed>>

NoOne == "none"
Provider == Providers \cup {NoOne}
Project == [type : {"LOCAL", "CLOUD"}, provider : Provider, url : BOOLEAN,
            hasKey : BOOLEAN, status : {"none", "active", "archived"}]

NoProject == [type |-> "LOCAL", provider |-> NoOne, url |-> FALSE,
              hasKey |-> FALSE, status |-> "none"]
NoForm == [type |-> "LOCAL", provider |-> NoOne, url |-> FALSE, typed |-> NoOne]
Form == {NoForm} \cup [type : {"CLOUD"}, provider : Providers, url : BOOLEAN, typed : Provider]
NoTab == [pc |-> "form", form |-> NoForm, held |-> NoProject, status |-> "keep"]

ProjectTypeOK ==
  /\ project \in Project /\ key \in Provider /\ member \in BOOLEAN
  /\ tab \in [Tabs -> [pc : {"form", "sent", "loaded"}, form : Form, held : Project,
                       status : {"keep", "active", "archived"}]]
  /\ crossed \in BOOLEAN

ProjectInit ==
  /\ project = NoProject /\ key = NoOne /\ member = FALSE
  /\ tab = [t \in Tabs |-> NoTab]
  /\ crossed = FALSE

-----------------------------------------------------------------------------
On(t, pc) == tab[t].pc = pc
TabIs(t, x) == tab' = [tab EXCEPT ![t] = x]
HasProject == project.status # "none"

(* validateLlm(); hasSavedApiKey comes from the project as it is now.      *)
FormIsValid(form) ==
  form.type = "CLOUD" => /\ form.typed # NoOne \/ project.hasKey
                         /\ form.provider \in Custom => form.url

(* handleSubmit() sends the active mode only.  A form keeps the values it  *)
(* was mounted with, and a key in its field when another provider is       *)
(* selected: each field can be changed, so any valid form may be sent.     *)
Submit(t, form) ==
  /\ On(t, "form")
  /\ HasProject => member
  /\ FormIsValid(form)
  /\ TabIs(t, [NoTab EXCEPT !.pc = "sent", !.form = form])
  /\ UNCHANGED <<project, key, member, crossed>>

(* The lifecycle buttons send the status only.  Neither they nor the form  *)
(* are enabled while a request is under way.                               *)
SubmitStatus(t, status) ==
  /\ On(t, "form") /\ HasProject /\ member /\ status # project.status
  /\ TabIs(t, [NoTab EXCEPT !.pc = "sent", !.status = status])
  /\ UNCHANGED <<project, key, member, crossed>>

(* What a request changes in the row.                                      *)
Merged(row, request) ==
  IF request.status # "keep" THEN [row EXCEPT !.status = request.status]
  ELSE IF request.form.type = "LOCAL" THEN [row EXCEPT !.type = "LOCAL"]
  ELSE [row EXCEPT !.type = "CLOUD", !.provider = request.form.provider, !.url = request.form.url,
                   !.hasKey = @ \/ request.form.typed # NoOne]

(* Mutant: a key is sealed when the project is created only. *)
KeySent_OnCreate(request) ==
  IF ~HasProject /\ request.form.type = "CLOUD" THEN request.form.typed ELSE NoOne

KeySent(request) ==
  IF request.status = "keep" /\ request.form.type = "CLOUD" THEN request.form.typed ELSE NoOne

(* assertLlmConfigComplete(). *)
Complete(row) ==
  row.type = "CLOUD" => /\ row.provider # NoOne /\ row.hasKey
                        /\ row.provider \in Custom => row.url

(* create(): the row, then its first member.                               *)
CreateProject(t) ==
  LET row == [Merged(NoProject, tab[t]) EXCEPT !.status = "active"] IN
  /\ On(t, "sent") /\ ~HasProject /\ tab[t].status = "keep"
  /\ Complete(row)
  /\ project' = row /\ key' = KeySent(tab[t])
  /\ TabIs(t, NoTab)
  /\ UNCHANGED <<member, crossed>>

AddMember ==
  /\ HasProject /\ ~member /\ member' = TRUE
  /\ UNCHANGED <<project, key, tab, crossed>>

(* update(). *)
LoadProject(t) ==
  /\ On(t, "sent") /\ HasProject /\ member
  /\ TabIs(t, [tab[t] EXCEPT !.pc = "loaded", !.held = project])
  /\ crossed' = (crossed \/ \E o \in Tabs : On(o, "loaded"))
  /\ UNCHANGED <<project, key, member>>

SaveProject(t) ==
  LET row == Merged(tab[t].held, tab[t]) IN
  /\ On(t, "loaded") /\ Complete(row)
  /\ project' = row /\ key' = IF KeySent(tab[t]) = NoOne THEN key ELSE KeySent(tab[t])
  /\ TabIs(t, NoTab)
  /\ UNCHANGED <<member, crossed>>

(* The check or the table refuses.                                         *)
RefuseRequest(t) ==
  /\ tab[t].pc \in {"sent", "loaded"}
  /\ TabIs(t, NoTab)
  /\ UNCHANGED <<project, key, member, crossed>>

(* engineLlmFor(): what a job that starts now is told to run on.           *)
Resolved ==
  IF project.type = "LOCAL" THEN [type |-> "LOCAL", provider |-> NoOne, key |-> NoOne, url |-> TRUE]
  ELSE [type |-> "CLOUD", provider |-> project.provider, key |-> key,
        url |-> project.url \/ project.provider \notin Custom]

ProjectNext ==
  \/ \E t \in Tabs : \/ \E form \in Form : Submit(t, form)
                     \/ \E status \in {"active", "archived"} : SubmitStatus(t, status)
                     \/ CreateProject(t) \/ LoadProject(t) \/ SaveProject(t) \/ RefuseRequest(t)
  \/ AddMember

ProjectSpec == ProjectInit /\ [][ProjectNext]_projectVars

-----------------------------------------------------------------------------
(* "The active LLM configuration must be complete before a project is      *)
(* created or switched" (projects.service.ts:60): whatever stale rows are  *)
(* saved, a job that runs in the cloud has a provider, a key and a place   *)
(* to send it.                                                             *)
CloudIsComplete ==
  Resolved.type = "CLOUD" => Resolved.provider # NoOne /\ Resolved.key # NoOne /\ Resolved.url

(* "Presence flag exposed to clients" (project.entity.ts:75): a row that   *)
(* claims a key has one, and one with a key says so unless two updates     *)
(* overlapped.                                                             *)
FlagTellsOfKey == (project.hasKey => key # NoOne) /\ (key # NoOne /\ ~crossed => project.hasKey)

(* "Enter the API key for this provider." (ProjectForm.tsx:118)            *)
KeyIsOfProvider == Resolved.type = "CLOUD" => Resolved.key = Resolved.provider
=============================================================================
