---------------------------- MODULE GitDelivery ----------------------------
(***************************************************************************)
(* The generated tests leave the platform: GitService.commit() and push()  *)
(* (modules/git/git.service.ts) of one project.                            *)
(*                                                                         *)
(* Both read the artefacts through the approval gate and write them into a *)
(* git workspace: commit() into one of its own without any lock, push()    *)
(* into another, in turn, over a fresh checkout of the remote main branch. *)
(* Git commands run synchronously, so a handler is left only between       *)
(* database reads, file writes and the answer of the lock.                 *)
(*                                                                         *)
(* git itself is external; its checkout, clean, status and push are        *)
(* modelled as git 2 does them: a checkout keeps a changed file that is    *)
(* the same in both commits and refuses if it is not, clean removes only   *)
(* files git does not know, a push that is not a fast-forward is refused.  *)
(***************************************************************************)
EXTENDS Naturals, FiniteSets

CONSTANTS
  Tests, PageObjects,    \* the paths of the artefacts
  Pushes, Commits,       \* calls of push() and commit()
  MaxCalls,              \* bound: how many of them are made
  MaxContent,            \* bound: contents of an artefact
  MaxForeign             \* bound: commits on the remote by others

ASSUME GitAssumption ==
  /\ Tests \cap PageObjects = {} /\ Pushes \cap Commits = {} /\ "none" \notin Pushes \cup Commits
  /\ MaxContent \in Nat \ {0} /\ MaxForeign \in Nat

VARIABLES
  artefact,     \* the rows: content, and whether approved and validated
  cleared,      \* history: contents that were approved and validated
  remote,       \* the remote main branch: whether there is one, its files
  foreign,      \* commits by others so far
  pushed,       \* the workspace of push(): the commit checked out, the files
  local,        \* the workspace of commit()
  call,         \* the handlers
  tail          \* pushLocks: the push that the next one waits for
gitVars == <<artefact, cleared, remote, foreign, pushed, local, call, tail>>

GitPaths == Tests \cup PageObjects
Content == 1..MaxContent
Absent == 0
Foreign == MaxContent + 1
Tree == [GitPaths -> 0..Foreign]
NoFiles == [f \in GitPaths |-> Absent]
NoMain == [main |-> FALSE, files |-> NoFiles]
Main(files) == [main |-> TRUE, files |-> files]
NoCall == "none"
Calls == Pushes \cup Commits

Idle == [pc |-> "idle", files |-> NoFiles, left |-> {}, after |-> NoCall, base |-> NoMain]
Answers == {"denied", "failed", "pushed", "no-changes", "committed"}

GitTypeOK ==
  /\ artefact \in [GitPaths -> [content : Content, ok : BOOLEAN]]
  /\ cleared \in [GitPaths -> SUBSET Content]
  /\ remote \in [main : BOOLEAN, files : Tree]
  /\ foreign \in 0..MaxForeign
  /\ pushed \in [head : Tree, files : Tree] /\ local \in [head : Tree, files : Tree]
  /\ \A c \in Calls : /\ call[c].pc \in {"idle", "pages", "queued", "sync", "write"} \cup Answers
                      /\ call[c].files \in Tree /\ call[c].left \subseteq GitPaths
                      /\ call[c].after \in Pushes \cup {NoCall}
                      /\ call[c].base \in [main : BOOLEAN, files : Tree]
  /\ tail \in Pushes \cup {NoCall}

GitInit ==
  /\ artefact = [f \in GitPaths |-> [content |-> 1, ok |-> TRUE]]
  /\ cleared = [f \in GitPaths |-> {1}]
  /\ remote \in {Main(NoFiles), NoMain}
  /\ foreign = 0
  /\ pushed = [head |-> NoFiles, files |-> NoFiles]
  /\ local = [head |-> NoFiles, files |-> NoFiles]
  /\ call = [c \in Calls |-> Idle]
  /\ tail = NoCall

-----------------------------------------------------------------------------
Doing(c, pc) == call[c].pc = pc
CallIs(c, r) == call' = [call EXCEPT ![c] = r]
Overlay(base, files) == [f \in GitPaths |-> IF files[f] = Absent THEN base[f] ELSE files[f]]
FilesOf(paths) == [f \in GitPaths |-> IF f \in paths THEN artefact[f].content ELSE Absent]
WrittenBy(c) == {f \in GitPaths : call[c].files[f] # Absent}

(* The artefacts change and are approved again meanwhile (Artefacts).      *)
EditArtefact(f) ==
  /\ artefact[f].content < MaxContent
  /\ artefact' = [artefact EXCEPT ![f] = [content |-> @.content + 1, ok |-> FALSE]]
  /\ UNCHANGED <<cleared, remote, foreign, pushed, local, call, tail>>

ClearArtefact(f) ==
  /\ ~artefact[f].ok
  /\ artefact' = [artefact EXCEPT ![f].ok = TRUE]
  /\ cleared' = [cleared EXCEPT ![f] = @ \cup {artefact[f].content}]
  /\ UNCHANGED <<remote, foreign, pushed, local, call, tail>>

OthersCommit(f) ==
  /\ foreign < MaxForeign /\ remote.main
  /\ foreign' = foreign + 1
  /\ remote' = [remote EXCEPT !.files[f] = Foreign]
  /\ UNCHANGED <<artefact, cleared, pushed, local, call, tail>>

(* The gate.  A call names paths or, push() only, takes what is cleared.   *)
Free(c) == Doing(c, "idle") /\ Cardinality({d \in Calls : ~Doing(d, "idle")}) < MaxCalls
TurnedDown(c) == CallIs(c, [Idle EXCEPT !.pc = "denied"])

(* Mutant: the paths a call names are not checked. *)
Blocked_Never(paths) == {}

Blocked(paths) == {f \in paths : ~artefact[f].ok}

TestsOf(paths) == IF paths = {} THEN {f \in Tests : artefact[f].ok} ELSE paths \cap Tests

Push(p, paths) ==
  /\ Free(p)
  /\ IF Blocked(paths) # {} \/ TestsOf(paths) = {} THEN TurnedDown(p)
     ELSE CallIs(p, [Idle EXCEPT !.pc = "pages", !.files = FilesOf(TestsOf(paths))])
  /\ UNCHANGED <<artefact, cleared, remote, foreign, pushed, local, tail>>

(* Every page object rides along; then the push queues for the workspace.  *)
ReadPageObjects(p) ==
  /\ Doing(p, "pages")
  /\ CallIs(p, [call[p] EXCEPT !.pc = "queued", !.after = tail,
                               !.files = Overlay(FilesOf(PageObjects), @)])
  /\ tail' = p
  /\ UNCHANGED <<artefact, cleared, remote, foreign, pushed, local>>

-----------------------------------------------------------------------------
(* withPushLock(): a push follows the one before it, however that ended.   *)
(* Mutant: then(fn) alone, a failed push ends the queue. *)
Settled_Succeeded(p) == p \in Pushes => call[p].pc \in {"pushed", "no-changes"}

Settled(p) == p \in Pushes => call[p].pc \in Answers

Enter(p) ==
  /\ Doing(p, "queued") /\ Settled(call[p].after)
  /\ CallIs(p, [call[p] EXCEPT !.pc = "sync"])
  /\ UNCHANGED <<artefact, cleared, remote, foreign, pushed, local, tail>>

(* Mutant: the lock is dropped while others queue. *)
TailAfter_Nobody(p) == NoCall

TailAfter(p) == IF tail = p THEN NoCall ELSE tail

Answer(p, answer) ==
  /\ CallIs(p, [call[p] EXCEPT !.pc = answer])
  /\ tail' = TailAfter(p)

(* git checkout -B main FETCH_HEAD: what it refuses and what it keeps.     *)
Dirty(f) == pushed.files[f] # pushed.head[f]
CheckoutRefused == \E f \in GitPaths : Dirty(f) /\ remote.files[f] # pushed.head[f]

(* Mutant: files that git does not know stay. *)
CheckedOut_NotCleaned == [f \in GitPaths |-> IF Dirty(f) THEN pushed.files[f] ELSE remote.files[f]]

CheckedOut == [f \in GitPaths |-> IF Dirty(f) /\ remote.files[f] # Absent THEN pushed.files[f] ELSE remote.files[f]]

(* syncAndPush() up to its first file: fetch, checkout, clean.             *)
Sync(p) ==
  /\ Doing(p, "sync")
  /\ IF remote.main /\ CheckoutRefused
     THEN Answer(p, "failed") /\ UNCHANGED pushed
     ELSE /\ pushed' = IF remote.main THEN [head |-> remote.files, files |-> CheckedOut] ELSE pushed
          /\ CallIs(p, [call[p] EXCEPT !.pc = "write", !.left = WrittenBy(p), !.base = remote])
          /\ UNCHANGED tail
  /\ UNCHANGED <<artefact, cleared, remote, foreign, local>>

WriteFile(p, f) ==
  /\ Doing(p, "write") /\ p \in Pushes
  /\ pushed' = [pushed EXCEPT !.files[f] = call[p].files[f]]
  /\ CallIs(p, [call[p] EXCEPT !.left = @ \ {f}])
  /\ UNCHANGED <<artefact, cleared, remote, foreign, local, tail>>

Unchanged(p) ==
  /\ Doing(p, "write") /\ p \in Pushes /\ call[p].left = {}
  /\ pushed.files = pushed.head
  /\ Answer(p, "no-changes")
  /\ UNCHANGED <<artefact, cleared, remote, foreign, pushed, local>>

(* add, commit, push.  The remote refuses what does not follow its main.   *)
PushCommit(p) ==
  /\ Doing(p, "write") /\ p \in Pushes /\ call[p].left = {}
  /\ pushed.files # pushed.head
  /\ pushed' = [pushed EXCEPT !.head = pushed.files]
  /\ IF remote = call[p].base
     THEN remote' = Main(pushed.files) /\ Answer(p, "pushed")
     ELSE Answer(p, "failed") /\ UNCHANGED remote
  /\ UNCHANGED <<artefact, cleared, foreign, local>>

(* The network or the token fails after the commit.                        *)
FailPush(p) ==
  /\ Doing(p, "write") /\ p \in Pushes /\ call[p].left = {}
  /\ pushed.files # pushed.head
  /\ pushed' = [pushed EXCEPT !.head = pushed.files]
  /\ Answer(p, "failed")
  /\ UNCHANGED <<artefact, cleared, remote, foreign, local>>

(* A fetch that fails, a path that is refused, a file that cannot be       *)
(* written.                                                                *)
FailSync(p) ==
  /\ p \in Pushes /\ call[p].pc \in {"sync", "write"}
  /\ Answer(p, "failed")
  /\ UNCHANGED <<artefact, cleared, remote, foreign, pushed, local>>

-----------------------------------------------------------------------------
(* commit(): no lock, no clean.                                            *)

Commit(c, paths) ==
  /\ Free(c) /\ paths # {}
  /\ IF Blocked(paths) # {} THEN TurnedDown(c)
     ELSE CallIs(c, [Idle EXCEPT !.pc = "write", !.files = FilesOf(paths), !.left = paths])
  /\ UNCHANGED <<artefact, cleared, remote, foreign, pushed, local, tail>>

WriteLocal(c, f) ==
  /\ Doing(c, "write") /\ c \in Commits
  /\ local' = [local EXCEPT !.files[f] = call[c].files[f]]
  /\ CallIs(c, [call[c] EXCEPT !.left = @ \ {f}])
  /\ UNCHANGED <<artefact, cleared, remote, foreign, pushed, tail>>

CommitLocal(c) ==
  /\ Doing(c, "write") /\ c \in Commits /\ call[c].left = {}
  /\ local' = [local EXCEPT !.head = local.files]
  /\ CallIs(c, [call[c] EXCEPT !.pc = "committed"])
  /\ UNCHANGED <<artefact, cleared, remote, foreign, pushed, tail>>

(* Without git, or when it fails, the files stay "staged".                 *)
FailCommit(c) ==
  /\ Doing(c, "write") /\ c \in Commits
  /\ CallIs(c, [call[c] EXCEPT !.pc = "failed"])
  /\ UNCHANGED <<artefact, cleared, remote, foreign, pushed, local, tail>>

(* The backend stops: the workspaces stay as they are.                     *)
Stop ==
  /\ \E c \in Calls : call[c].pc \notin Answers \cup {"idle"}
  /\ call' = [c \in Calls |-> IF Doing(c, "idle") \/ call[c].pc \in Answers THEN call[c]
                              ELSE [call[c] EXCEPT !.pc = "failed"]]
  /\ tail' = NoCall
  /\ UNCHANGED <<artefact, cleared, remote, foreign, pushed, local>>

Pusher(p) ==
  \/ ReadPageObjects(p) \/ Enter(p) \/ Sync(p)
  \/ \E f \in call[p].left : WriteFile(p, f)
  \/ Unchanged(p) \/ PushCommit(p)

Committer(c) ==
  \/ \E paths \in SUBSET GitPaths : Commit(c, paths)
  \/ \E f \in call[c].left : WriteLocal(c, f)
  \/ CommitLocal(c) \/ FailCommit(c)

Surroundings ==
  \/ \E f \in GitPaths : EditArtefact(f) \/ ClearArtefact(f) \/ OthersCommit(f)
  \/ Stop

GitNext ==
  \/ \E p \in Pushes : \/ \E paths \in SUBSET GitPaths : Push(p, paths)
                       \/ Pusher(p) \/ FailPush(p) \/ FailSync(p)
  \/ \E c \in Commits : Committer(c)
  \/ Surroundings

(* Reads, file writes and git commands end (the git commands have a        *)
(* timeout); nothing makes others commit or a handler fail.                *)
GitFairness == \A p \in Pushes : WF_gitVars(Pusher(p))

GitSpec == GitInit /\ [][GitNext]_gitVars /\ GitFairness

-----------------------------------------------------------------------------
(* "only approved + validated test files leave the platform"               *)
(* (git.service.ts:238-239): what the tool has put on the remote or into a *)
(* local commit was cleared with that content, also when it was left over  *)
(* in a workspace by a call that broke off or wrote at the same time.      *)
OnlyClearedLeaves ==
  \A f \in Tests :
    /\ remote.files[f] \in {Absent, Foreign} \cup cleared[f]
    /\ local.head[f] \in {Absent} \cup cleared[f]

(* "Serialize pushes per project": one push at a time is between its fetch *)
(* and its answer.                                                         *)
OnePushAtATime ==
  \A p, q \in Pushes : call[p].pc \in {"sync", "write"} /\ call[q].pc \in {"sync", "write"} => p = q

Committed(p) == Doing(p, "write") /\ call'[p].pc = "pushed"

(* A push writes its own files and keeps those of others; a file of        *)
(* neither can only be one the remote has and a broken-off push changed.   *)
PushKeepsOthers ==
  [][\A p \in Pushes : Committed(p) /\ call[p].base.main =>
       \A f \in GitPaths :
          \/ remote'.files[f] = Overlay(call[p].base.files, call[p].files)[f]
          \/ /\ call[p].files[f] = Absent /\ call[p].base.files[f] # Absent
             /\ \E q \in Pushes \ {p} : call[q].files[f] = remote'.files[f]]_gitVars

(* Every push is answered: neither a failed nor a refused one keeps those  *)
(* behind it waiting.                                                      *)
EveryPushIsAnswered ==
  \A p \in Pushes : Doing(p, "queued") ~> call[p].pc \in Answers

(* "Purge stale leftovers from prior pushes so the committed tree is       *)
(* exactly remote tree + fresh overlay" (git.service.ts:365-366).          *)
CommittedTreeIsExact ==
  [][\A p \in Pushes : Committed(p) /\ call[p].base.main =>
       remote'.files = Overlay(call[p].base.files, call[p].files)]_gitVars

(* "Remote main already up to date" (git.service.ts:410).                  *)
NothingToPush ==
  \A p \in Pushes : Doing(p, "no-changes") =>
    call[p].base.main /\ call[p].base.files = Overlay(call[p].base.files, call[p].files)
=============================================================================
