-------------------------- MODULE DeliveryProofs --------------------------
(***************************************************************************)
(* What holds of the parts that let something out to others, whatever the  *)
(* constants: the pushes and commits of a project (GitDelivery), the       *)
(* session of a browser (Sessions), the QA workflow with its human gates   *)
(* (QAWorkflow).  They share no state, so each part has its own inductive  *)
(* invariant: GitInv, SessionInv, WorkflowInv with RowInv.                 *)
(***************************************************************************)
EXTENDS QAWorkflow, GitDelivery, Sessions, TLAPS

-----------------------------------------------------------------------------
(* GitDelivery.                                                            *)

(* The invariant types the calls as a function, for EXCEPT.                *)
PCs == {"idle", "pages", "queued", "sync", "write"} \cup Answers
Remote == [main : BOOLEAN, files : Tree]
CallRow == [pc : PCs, files : Tree, left : SUBSET GitPaths, after : Pushes \cup {NoCall},
            base : Remote]
GitTyped == GitTypeOK /\ call \in [Calls -> CallRow]

-----------------------------------------------------------------------------
(* The parts of a call after a step.                                       *)
LEMMA TreeType ==
  /\ NoFiles \in Tree /\ NoMain \in Remote /\ Idle \in CallRow
  /\ \A tree \in Tree : Main(tree) \in Remote
  /\ Idle.pc = "idle" /\ Idle.files = NoFiles /\ Idle.left = {} /\ Idle.after = NoCall
  /\ \A f \in GitPaths : NoFiles[f] = Absent
<1>1. NoFiles \in Tree /\ (\A f \in GitPaths : NoFiles[f] = Absent)
  BY GitAssumption DEF NoFiles, Tree, Absent, Foreign
<1>2. NoMain \in Remote /\ (\A tree \in Tree : Main(tree) \in Remote)
  BY <1>1 DEF NoMain, Main, Remote
<1>3. QED
  BY <1>1, <1>2 DEF Idle, CallRow, PCs

LEMMA FilesOfType ==
  ASSUME GitTyped, NEW paths \in SUBSET GitPaths
  PROVE  /\ FilesOf(paths) \in Tree
         /\ \A f \in GitPaths : FilesOf(paths)[f] =
              IF f \in paths THEN artefact[f].content ELSE Absent
<1>1. \A f \in GitPaths : artefact[f].content \in 0..Foreign
  BY GitAssumption DEF GitTyped, GitTypeOK, Content, Foreign
<1>2. Absent \in 0..Foreign
  BY GitAssumption DEF Absent, Foreign
<1>3. QED
  BY <1>1, <1>2 DEF FilesOf, Tree

LEMMA OverlayType ==
  ASSUME NEW base \in Tree, NEW tree \in Tree
  PROVE  /\ Overlay(base, tree) \in Tree
         /\ \A f \in GitPaths : Overlay(base, tree)[f] =
              IF tree[f] = Absent THEN base[f] ELSE tree[f]
  BY DEF Overlay, Tree

LEMMA CallEffect ==
  ASSUME GitTyped, NEW c \in Calls, NEW r \in CallRow, CallIs(c, r)
  PROVE  /\ call'[c] = r /\ (\A d \in Calls \ {c} : call'[d] = call[d])
         /\ call' \in [Calls -> CallRow]
  BY DEF CallIs, GitTyped

LEMMA AnswerEffect ==
  ASSUME GitTyped, NEW p \in Pushes, NEW answer \in Answers, Answer(p, answer)
  PROVE  /\ call'[p].pc = answer /\ call'[p].files = call[p].files
         /\ call'[p].after = call[p].after
         /\ \A d \in Calls \ {p} : call'[d] = call[d]
         /\ call' \in [Calls -> CallRow]
         /\ tail' = TailAfter(p) /\ tail' \in Pushes \cup {NoCall}
<1> DEFINE r == [call[p] EXCEPT !.pc = answer]
<1>1. p \in Calls /\ r \in CallRow /\ r.pc = answer /\ r.files = call[p].files
      /\ r.after = call[p].after
  BY DEF GitTyped, CallRow, PCs, Calls
<1>2. CallIs(p, r) /\ tail' = TailAfter(p) /\ tail' \in Pushes \cup {NoCall}
  BY DEF Answer, TailAfter, GitTyped, GitTypeOK
<1> HIDE DEF r
<1>3. QED
  BY <1>1, <1>2, CallEffect

-----------------------------------------------------------------------------
(* The kinds of steps of a call: what it holds before it queues, where it  *)
(* stands in the queue, and what it does to the workspaces.                *)
Only(c) == (\A d \in Calls \ {c} : call'[d] = call[d]) /\ call' \in [Calls -> CallRow]
Keeps(c) == call'[c].files = call[c].files /\ call'[c].after = call[c].after

LEMMA TypedCalls ==
  ASSUME artefact' \in [GitPaths -> [content : Content, ok : BOOLEAN]],
         cleared' \in [GitPaths -> SUBSET Content], remote' \in Remote,
         foreign' \in 0..MaxForeign,
         pushed' \in [head : Tree, files : Tree], local' \in [head : Tree, files : Tree],
         call' \in [Calls -> CallRow], tail' \in Pushes \cup {NoCall}
  PROVE  GitTyped'
<1>1. \A c \in Calls :
        /\ call'[c].pc \in PCs /\ call'[c].files \in Tree /\ call'[c].left \subseteq GitPaths
        /\ call'[c].after \in Pushes \cup {NoCall} /\ call'[c].base \in Remote
  BY DEF CallRow
<1>2. QED
  BY <1>1 DEF GitTyped, GitTypeOK, PCs, Remote

(* What a call names is cleared when it is made.                           *)
Begins(c) ==
  /\ UNCHANGED <<artefact, cleared, remote, foreign, pushed, local, tail>>
  /\ Only(c) /\ GitTyped'
  /\ call[c].pc = "idle" /\ call'[c].pc \notin {"idle", "queued", "sync"}
  /\ c \in Pushes => call'[c].pc # "write"
  /\ \A f \in GitPaths :
       call'[c].files[f] = Absent
         \/ (artefact[f].ok /\ call'[c].files[f] = artefact[f].content)

LEMMA TurnedDownBegins ==
  ASSUME GitTyped, NEW c \in Calls, Doing(c, "idle"), TurnedDown(c),
         UNCHANGED <<artefact, cleared, remote, foreign, pushed, local, tail>>
  PROVE  Begins(c)
<1> DEFINE r == [Idle EXCEPT !.pc = "denied"]
<1>1. r \in CallRow /\ r.pc = "denied" /\ r.files = NoFiles
  BY TreeType DEF CallRow, PCs, Answers
<1>2. CallIs(c, r)
  BY DEF TurnedDown
<1> HIDE DEF r
<1>3. Only(c) /\ call'[c] = r
  BY <1>1, <1>2, CallEffect DEF Only
<1>4. GitTyped'
  BY <1>3, TypedCalls DEF Only, GitTyped, GitTypeOK, Remote
<1>5. QED
  BY <1>1, <1>3, <1>4, TreeType DEF Begins, Doing

LEMMA PushBegins ==
  ASSUME GitTyped, NEW p \in Pushes, NEW paths \in SUBSET GitPaths, Push(p, paths)
  PROVE  Begins(p)
<1>1. p \in Calls /\ Doing(p, "idle") /\ Blocked(paths) \subseteq GitPaths
      /\ UNCHANGED <<artefact, cleared, remote, foreign, pushed, local, tail>>
  BY DEF Push, Free, Calls, Blocked
<1>2. CASE Blocked(paths) # {} \/ TestsOf(paths) = {}
  BY <1>1, <1>2, TurnedDownBegins DEF Push
<1>3. CASE ~(Blocked(paths) # {} \/ TestsOf(paths) = {})
  <2> DEFINE named == TestsOf(paths)
             r == [Idle EXCEPT !.pc = "pages", !.files = FilesOf(named)]
  <2>1. named \in SUBSET GitPaths /\ \A f \in named : artefact[f].ok
    BY <1>3 DEF TestsOf, Blocked, GitPaths
  <2> HIDE DEF named
  <2>2. FilesOf(named) \in Tree
        /\ \A f \in GitPaths : FilesOf(named)[f] = IF f \in named THEN artefact[f].content ELSE Absent
    BY <2>1, FilesOfType
  <2>3. r \in CallRow /\ r.pc = "pages" /\ r.files = FilesOf(named)
    BY <2>2, TreeType DEF CallRow, PCs
  <2>4. CallIs(p, r)
    BY <1>3 DEF Push, named
  <2> HIDE DEF r
  <2>5. Only(p) /\ call'[p] = r
    BY <1>1, <2>3, <2>4, CallEffect DEF Only
  <2>6. GitTyped'
    BY <1>1, <2>5, TypedCalls DEF Only, GitTyped, GitTypeOK, Remote
  <2>7. \A f \in GitPaths : r.files[f] = Absent
          \/ (artefact[f].ok /\ r.files[f] = artefact[f].content)
    BY <2>1, <2>2, <2>3
  <2>8. QED
    BY <1>1, <2>3, <2>5, <2>6, <2>7 DEF Begins, Doing
<1>4. QED
  BY <1>2, <1>3

LEMMA CommitBegins ==
  ASSUME GitTyped, NEW c \in Commits, NEW paths \in SUBSET GitPaths, Commit(c, paths)
  PROVE  Begins(c)
<1>1. c \in Calls /\ c \notin Pushes /\ Doing(c, "idle")
      /\ UNCHANGED <<artefact, cleared, remote, foreign, pushed, local, tail>>
  BY GitAssumption DEF Commit, Free, Calls
<1>2. CASE Blocked(paths) # {}
  BY <1>1, <1>2, TurnedDownBegins DEF Commit
<1>3. CASE Blocked(paths) = {}
  <2> DEFINE r == [Idle EXCEPT !.pc = "write", !.files = FilesOf(paths), !.left = paths]
  <2>1. \A f \in paths : artefact[f].ok
    BY <1>3 DEF Blocked
  <2>2. FilesOf(paths) \in Tree
        /\ \A f \in GitPaths : FilesOf(paths)[f] = IF f \in paths THEN artefact[f].content ELSE Absent
    BY FilesOfType
  <2>3. r \in CallRow /\ r.pc = "write" /\ r.files = FilesOf(paths)
    BY <2>2, TreeType DEF CallRow, PCs
  <2>4. CallIs(c, r)
    BY <1>3 DEF Commit
  <2> HIDE DEF r
  <2>5. Only(c) /\ call'[c] = r
    BY <1>1, <2>3, <2>4, CallEffect DEF Only
  <2>6. GitTyped'
    BY <1>1, <2>5, TypedCalls DEF Only, GitTyped, GitTypeOK, Remote
  <2>7. \A f \in GitPaths : r.files[f] = Absent
          \/ (artefact[f].ok /\ r.files[f] = artefact[f].content)
    BY <2>1, <2>2, <2>3
  <2>8. QED
    BY <1>1, <2>3, <2>5, <2>6, <2>7 DEF Begins, Doing
<1>4. QED
  BY <1>2, <1>3

(* A push joins the queue.                                                 *)
Queues(p) ==
  /\ UNCHANGED <<artefact, cleared, remote, foreign, pushed, local>>
  /\ Only(p) /\ GitTyped'
  /\ call[p].pc = "pages" /\ call'[p].pc = "queued"
  /\ call'[p].after = tail /\ tail' = p
  /\ \A f \in GitPaths : f \notin PageObjects => call'[p].files[f] = call[p].files[f]

LEMMA ReadPageObjectsQueues ==
  ASSUME GitTyped, NEW p \in Pushes, ReadPageObjects(p) PROVE Queues(p)
<1> DEFINE read == Overlay(FilesOf(PageObjects), call[p].files)
           r == [call[p] EXCEPT !.pc = "queued", !.after = tail, !.files = read]
<1>1. p \in Calls /\ call[p] \in CallRow /\ call[p].files \in Tree /\ tail \in Pushes \cup {NoCall}
  BY DEF Calls, GitTyped, GitTypeOK, CallRow
<1>2. FilesOf(PageObjects) \in Tree
      /\ \A f \in GitPaths : f \notin PageObjects => FilesOf(PageObjects)[f] = Absent
  BY FilesOfType DEF GitPaths
<1>3. read \in Tree /\ \A f \in GitPaths : f \notin PageObjects => read[f] = call[p].files[f]
  BY <1>1, <1>2, OverlayType
<1> HIDE DEF read
<1>4. r \in CallRow /\ r.pc = "queued" /\ r.after = tail /\ r.files = read
  BY <1>1, <1>3 DEF CallRow, PCs
<1>5. CallIs(p, r) /\ call[p].pc = "pages" /\ tail' = p
      /\ UNCHANGED <<artefact, cleared, remote, foreign, pushed, local>>
  BY DEF ReadPageObjects, read, Doing
<1> HIDE DEF r
<1>6. Only(p) /\ call'[p] = r
  BY <1>1, <1>4, <1>5, CallEffect DEF Only
<1>7. GitTyped'
  BY <1>5, <1>6, TypedCalls DEF Only, GitTyped, GitTypeOK, Remote
<1>8. QED
  BY <1>3, <1>4, <1>5, <1>6, <1>7 DEF Queues

(* The push whose turn it is gets the workspace.                           *)
Enters(p) ==
  /\ UNCHANGED <<artefact, cleared, remote, foreign, pushed, local, tail>>
  /\ Only(p) /\ Keeps(p) /\ GitTyped'
  /\ call[p].pc = "queued" /\ call'[p].pc = "sync" /\ Settled(call[p].after)

LEMMA EnterEnters ==
  ASSUME GitTyped, NEW p \in Pushes, Enter(p) PROVE Enters(p)
<1> DEFINE r == [call[p] EXCEPT !.pc = "sync"]
<1>1. p \in Calls /\ r \in CallRow /\ r.pc = "sync" /\ r.files = call[p].files
      /\ r.after = call[p].after
  BY DEF Calls, GitTyped, CallRow, PCs
<1>2. CallIs(p, r) /\ call[p].pc = "queued" /\ Settled(call[p].after)
      /\ UNCHANGED <<artefact, cleared, remote, foreign, pushed, local, tail>>
  BY DEF Enter, Doing
<1> HIDE DEF r
<1>3. Only(p) /\ call'[p] = r
  BY <1>1, <1>2, CallEffect DEF Only
<1>4. GitTyped'
  BY <1>2, <1>3, TypedCalls DEF Only, GitTyped, GitTypeOK, Remote
<1>5. QED
  BY <1>1, <1>2, <1>3, <1>4 DEF Enters, Keeps

(* A push that has the workspace is answered.                              *)
AnswersPush(p) ==
  /\ UNCHANGED <<artefact, cleared, foreign, local>>
  /\ Only(p) /\ Keeps(p) /\ GitTyped'
  /\ call[p].pc \in {"sync", "write"} /\ call'[p].pc \in Answers /\ tail' = TailAfter(p)
  /\ pushed'.files = pushed.files /\ pushed'.head \in {pushed.head, pushed.files}
  /\ remote' = remote \/ remote' = Main(pushed.files)
  /\ call'[p].pc = "pushed" =>
       remote' = Main(pushed.files) /\ call[p].pc = "write" /\ call[p].left = {}

LEMMA AnswerAnswers ==
  ASSUME GitTyped, NEW p \in Pushes, NEW answer \in Answers, Answer(p, answer),
         UNCHANGED <<artefact, cleared, foreign, local>>,
         call[p].pc \in {"sync", "write"},
         pushed' = pushed \/ pushed' = [pushed EXCEPT !.head = pushed.files],
         remote' = remote \/ remote' = Main(pushed.files),
         answer = "pushed" =>
           remote' = Main(pushed.files) /\ call[p].pc = "write" /\ call[p].left = {}
  PROVE  AnswersPush(p)
<1>1. /\ call'[p].pc = answer /\ Keeps(p) /\ Only(p)
      /\ tail' = TailAfter(p) /\ tail' \in Pushes \cup {NoCall}
  BY AnswerEffect DEF Keeps, Only
<1>2. /\ pushed' \in [head : Tree, files : Tree]
      /\ pushed'.files = pushed.files /\ pushed'.head \in {pushed.head, pushed.files}
  BY DEF GitTyped, GitTypeOK
<1>3. remote' \in Remote
  BY TreeType DEF GitTyped, GitTypeOK, Remote
<1>4. GitTyped'
  BY <1>1, <1>2, <1>3, TypedCalls DEF Only, GitTyped, GitTypeOK
<1>5. QED
  BY <1>1, <1>2, <1>4 DEF AnswersPush

LEMMA AnsweringAnswers ==
  ASSUME GitTyped, NEW p \in Pushes,
         Unchanged(p) \/ PushCommit(p) \/ FailPush(p) \/ FailSync(p)
  PROVE  AnswersPush(p)
<1>1. ASSUME Unchanged(p) PROVE AnswersPush(p)
  BY <1>1, AnswerAnswers DEF Unchanged, Doing, Answers
<1>2. ASSUME PushCommit(p) PROVE AnswersPush(p)
  BY <1>2, AnswerAnswers DEF PushCommit, Doing, Answers
<1>3. ASSUME FailPush(p) PROVE AnswersPush(p)
  BY <1>3, AnswerAnswers DEF FailPush, Doing, Answers
<1>4. ASSUME FailSync(p) PROVE AnswersPush(p)
  BY <1>4, AnswerAnswers DEF FailSync, Answers
<1>5. QED
  BY <1>1, <1>2, <1>3, <1>4

(* The workspace is brought to the remote commit.                          *)
Syncs(p) ==
  /\ UNCHANGED <<artefact, cleared, remote, foreign, local, tail>>
  /\ Only(p) /\ Keeps(p) /\ GitTyped'
  /\ call[p].pc = "sync" /\ call'[p].pc = "write"
  /\ call'[p].left = WrittenBy(p) /\ call'[p].base = remote
  /\ IF remote.main
     THEN /\ pushed'.head = remote.files
          /\ \A f \in GitPaths :
               pushed'.files[f] = IF Dirty(f) /\ remote.files[f] # Absent THEN pushed.files[f]
                                  ELSE remote.files[f]
     ELSE UNCHANGED pushed

LEMMA SyncSyncs ==
  ASSUME GitTyped, NEW p \in Pushes, Sync(p) PROVE Syncs(p) \/ AnswersPush(p)
<1>1. call[p].pc = "sync" /\ UNCHANGED <<artefact, cleared, remote, foreign, local>>
      /\ p \in Calls
  BY DEF Sync, Doing, Calls
<1>2. CASE remote.main /\ CheckoutRefused
  BY <1>1, <1>2, AnswerAnswers DEF Sync, Answers
<1>3. CASE ~(remote.main /\ CheckoutRefused)
  <2> DEFINE r == [call[p] EXCEPT !.pc = "write", !.left = WrittenBy(p), !.base = remote]
  <2>1. WrittenBy(p) \in SUBSET GitPaths /\ remote \in Remote
    BY DEF WrittenBy, GitTyped, GitTypeOK, Remote
  <2>2. r \in CallRow /\ r.pc = "write" /\ r.files = call[p].files /\ r.after = call[p].after
        /\ r.left = WrittenBy(p) /\ r.base = remote
    BY <1>1, <2>1 DEF GitTyped, CallRow, PCs
  <2>3. CallIs(p, r) /\ UNCHANGED tail
    BY <1>3 DEF Sync
  <2> HIDE DEF r
  <2>4. Only(p) /\ call'[p] = r
    BY <1>1, <2>2, <2>3, CallEffect DEF Only
  <2>5. /\ pushed' \in [head : Tree, files : Tree]
        /\ IF remote.main
           THEN /\ pushed'.head = remote.files
                /\ \A f \in GitPaths :
                     pushed'.files[f] = IF Dirty(f) /\ remote.files[f] # Absent THEN pushed.files[f]
                                        ELSE remote.files[f]
           ELSE UNCHANGED pushed
    <3>1. CheckedOut \in Tree /\ remote.files \in Tree
      BY DEF CheckedOut, Tree, GitTyped, GitTypeOK
    <3>2. pushed' = IF remote.main THEN [head |-> remote.files, files |-> CheckedOut] ELSE pushed
      BY <1>3 DEF Sync
    <3>3. QED
      BY <3>1, <3>2 DEF CheckedOut, GitTyped, GitTypeOK
  <2>6. GitTyped'
    BY <1>1, <2>1, <2>3, <2>4, <2>5, TypedCalls DEF Only, GitTyped, GitTypeOK
  <2>7. Syncs(p)
    BY <1>1, <2>2, <2>3, <2>4, <2>5, <2>6 DEF Syncs, Keeps
  <2>8. QED
    BY <2>7
<1>4. QED
  BY <1>2, <1>3

(* One file of a push is written into the workspace.                       *)
Writes(p) ==
  /\ UNCHANGED <<artefact, cleared, remote, foreign, local, tail>>
  /\ Only(p) /\ Keeps(p) /\ GitTyped'
  /\ call[p].pc = "write" /\ call'[p].pc = "write" /\ call'[p].base = call[p].base
  /\ pushed'.head = pushed.head
  /\ \E f \in call[p].left :
       /\ call'[p].left = call[p].left \ {f}
       /\ pushed'.files[f] = call[p].files[f]
       /\ \A g \in GitPaths \ {f} : pushed'.files[g] = pushed.files[g]

LEMMA WriteFileWrites ==
  ASSUME GitTyped, NEW p \in Pushes, NEW f \in call[p].left, WriteFile(p, f) PROVE Writes(p)
<1> DEFINE r == [call[p] EXCEPT !.left = @ \ {f}]
<1>1. p \in Calls /\ call[p] \in CallRow /\ f \in GitPaths
  BY DEF Calls, GitTyped, CallRow
<1>2. r \in CallRow /\ r.pc = call[p].pc /\ r.files = call[p].files /\ r.after = call[p].after
      /\ r.base = call[p].base /\ r.left = call[p].left \ {f}
  BY <1>1 DEF CallRow
<1>3. CallIs(p, r) /\ call[p].pc = "write"
      /\ UNCHANGED <<artefact, cleared, remote, foreign, local, tail>>
  BY DEF WriteFile, Doing
<1> HIDE DEF r
<1>4. Only(p) /\ call'[p] = r
  BY <1>1, <1>2, <1>3, CallEffect DEF Only
<1>5. /\ pushed' \in [head : Tree, files : Tree] /\ pushed'.head = pushed.head
      /\ pushed'.files[f] = call[p].files[f]
      /\ \A g \in GitPaths \ {f} : pushed'.files[g] = pushed.files[g]
  <2>1. call[p].files[f] \in 0..Foreign
    BY <1>1 DEF CallRow, Tree
  <2>2. pushed \in [head : Tree, files : Tree]
    BY DEF GitTyped, GitTypeOK
  <2>3. pushed' = [pushed EXCEPT !.files[f] = call[p].files[f]]
    BY DEF WriteFile
  <2>4. QED
    BY <1>1, <2>1, <2>2, <2>3 DEF Tree
<1>6. GitTyped'
  BY <1>3, <1>4, <1>5, TypedCalls DEF Only, GitTyped, GitTypeOK, Remote
<1>7. QED
  BY <1>2, <1>3, <1>4, <1>5, <1>6 DEF Writes, Keeps

(* commit() goes on in a workspace of its own.                             *)
GoesOn(c) ==
  /\ UNCHANGED <<artefact, cleared, remote, foreign, pushed, tail>>
  /\ Only(c) /\ Keeps(c) /\ GitTyped'
  /\ local'.head \in {local.head, local.files}
  /\ \A f \in GitPaths : local'.files[f] \in {local.files[f], call[c].files[f]}

LEMMA WriteLocalGoesOn ==
  ASSUME GitTyped, NEW c \in Commits, NEW f \in call[c].left, WriteLocal(c, f) PROVE GoesOn(c)
<1> DEFINE r == [call[c] EXCEPT !.left = @ \ {f}]
<1>1. c \in Calls /\ call[c] \in CallRow /\ f \in GitPaths
  BY DEF Calls, GitTyped, CallRow
<1>2. r \in CallRow /\ r.files = call[c].files /\ r.after = call[c].after
  BY <1>1 DEF CallRow
<1>3. CallIs(c, r) /\ UNCHANGED <<artefact, cleared, remote, foreign, pushed, tail>>
  BY DEF WriteLocal
<1> HIDE DEF r
<1>4. Only(c) /\ call'[c] = r
  BY <1>1, <1>2, <1>3, CallEffect DEF Only
<1>5. /\ local' \in [head : Tree, files : Tree] /\ local'.head = local.head
      /\ \A g \in GitPaths : local'.files[g] \in {local.files[g], call[c].files[g]}
  <2>1. call[c].files[f] \in 0..Foreign
    BY <1>1 DEF CallRow, Tree
  <2>2. local \in [head : Tree, files : Tree]
    BY DEF GitTyped, GitTypeOK
  <2>3. local' = [local EXCEPT !.files[f] = call[c].files[f]]
    BY DEF WriteLocal
  <2>4. QED
    BY <1>1, <2>1, <2>2, <2>3 DEF Tree
<1>6. GitTyped'
  BY <1>3, <1>4, <1>5, TypedCalls DEF Only, GitTyped, GitTypeOK, Remote
<1>7. QED
  BY <1>2, <1>3, <1>4, <1>5, <1>6 DEF GoesOn, Keeps

LEMMA CommitGoesOn ==
  ASSUME GitTyped, NEW c \in Commits, CommitLocal(c) \/ FailCommit(c) PROVE GoesOn(c)
<1>1. PICK pc \in {"committed", "failed"} : CallIs(c, [call[c] EXCEPT !.pc = pc])
  BY DEF CommitLocal, FailCommit
<1> DEFINE r == [call[c] EXCEPT !.pc = pc]
<1>2. c \in Calls /\ r \in CallRow /\ r.files = call[c].files /\ r.after = call[c].after
  BY DEF Calls, GitTyped, CallRow, PCs, Answers
<1>3. CallIs(c, r)
  BY <1>1
<1> HIDE DEF r
<1>4. Only(c) /\ call'[c] = r
  BY <1>2, <1>3, CallEffect DEF Only
<1>5. /\ local' \in [head : Tree, files : Tree] /\ local'.head \in {local.head, local.files}
      /\ local'.files = local.files
      /\ UNCHANGED <<artefact, cleared, remote, foreign, pushed, tail>>
  BY DEF CommitLocal, FailCommit, GitTyped, GitTypeOK
<1>6. GitTyped'
  BY <1>4, <1>5, TypedCalls DEF Only, GitTyped, GitTypeOK, Remote
<1>7. QED
  BY <1>2, <1>4, <1>5, <1>6 DEF GoesOn, Keeps

(* The artefacts and the remote change by others' hands.                   *)
Surrounds ==
  /\ UNCHANGED <<pushed, local, call, tail>> /\ GitTyped'
  /\ \A f \in GitPaths :
       /\ cleared[f] \subseteq cleared'[f]
       /\ artefact'[f].ok => artefact'[f] = artefact[f] \/ artefact'[f].content \in cleared'[f]
       /\ remote'.files[f] \in {remote.files[f], Foreign}

LEMMA AroundSurrounds ==
  ASSUME GitTyped, NEW f \in GitPaths, EditArtefact(f) \/ ClearArtefact(f) \/ OthersCommit(f)
  PROVE  Surrounds
<1>1. artefact[f] \in [content : Content, ok : BOOLEAN] /\ call \in [Calls -> CallRow]
      /\ Foreign \in 0..Foreign
  BY GitAssumption DEF GitTyped, GitTypeOK, Foreign
<1>2. ASSUME EditArtefact(f) PROVE Surrounds
  <2> DEFINE a == [content |-> artefact[f].content + 1, ok |-> FALSE]
  <2>1. a \in [content : Content, ok : BOOLEAN] /\ ~a.ok
    BY <1>1, <1>2, GitAssumption DEF EditArtefact, Content
  <2>2. artefact' = [artefact EXCEPT ![f] = a]
        /\ UNCHANGED <<cleared, remote, foreign, pushed, local, call, tail>>
    BY <1>2 DEF EditArtefact
  <2> HIDE DEF a
  <2>3. /\ artefact' \in [GitPaths -> [content : Content, ok : BOOLEAN]]
        /\ \A g \in GitPaths : artefact'[g].ok => artefact'[g] = artefact[g]
    BY <2>1, <2>2 DEF GitTyped, GitTypeOK
  <2>4. GitTyped'
    BY <2>2, <2>3, TypedCalls DEF GitTyped, GitTypeOK, Remote
  <2>5. QED
    BY <2>2, <2>3, <2>4 DEF Surrounds
<1>3. ASSUME ClearArtefact(f) PROVE Surrounds
  <2> DEFINE a == [artefact[f] EXCEPT !.ok = TRUE]
             seen == cleared[f] \cup {artefact[f].content}
  <2>1. /\ a \in [content : Content, ok : BOOLEAN] /\ a.content = artefact[f].content
        /\ seen \in SUBSET Content /\ a.content \in seen /\ cleared[f] \subseteq seen
    BY <1>1 DEF GitTyped, GitTypeOK
  <2>2. artefact' = [artefact EXCEPT ![f] = a] /\ cleared' = [cleared EXCEPT ![f] = seen]
        /\ UNCHANGED <<remote, foreign, pushed, local, call, tail>>
    BY <1>3 DEF ClearArtefact
  <2> HIDE DEF a, seen
  <2>3. /\ artefact' \in [GitPaths -> [content : Content, ok : BOOLEAN]]
        /\ cleared' \in [GitPaths -> SUBSET Content]
        /\ artefact'[f] = a /\ cleared'[f] = seen
        /\ \A g \in GitPaths \ {f} : artefact'[g] = artefact[g] /\ cleared'[g] = cleared[g]
    BY <2>1, <2>2 DEF GitTyped, GitTypeOK
  <2>4. GitTyped'
    BY <2>2, <2>3, TypedCalls DEF GitTyped, GitTypeOK, Remote
  <2>5. QED
    BY <2>1, <2>2, <2>3, <2>4 DEF Surrounds
<1>4. ASSUME OthersCommit(f) PROVE Surrounds
  <2>1. remote \in Remote /\ foreign + 1 \in 0..MaxForeign
    BY <1>4, GitAssumption DEF GitTyped, GitTypeOK, Remote, OthersCommit
  <2>2. remote' = [remote EXCEPT !.files[f] = Foreign] /\ foreign' = foreign + 1
        /\ UNCHANGED <<artefact, cleared, pushed, local, call, tail>>
    BY <1>4 DEF OthersCommit
  <2>3. remote' \in Remote /\ \A g \in GitPaths : remote'.files[g] \in {remote.files[g], Foreign}
    BY <1>1, <2>1, <2>2 DEF Remote, Tree
  <2>4. GitTyped'
    BY <1>1, <2>1, <2>2, <2>3, TypedCalls DEF GitTyped, GitTypeOK
  <2>5. QED
    BY <2>2, <2>3, <2>4 DEF Surrounds
<1>5. QED
  BY <1>2, <1>3, <1>4

(* The backend stops and starts again.                                     *)
Stops ==
  /\ UNCHANGED <<artefact, cleared, remote, foreign, pushed, local>> /\ GitTyped'
  /\ tail' = NoCall
  /\ \A c \in Calls : /\ Keeps(c)
                      /\ call'[c].pc = IF call[c].pc \in Answers \cup {"idle"} THEN call[c].pc
                                        ELSE "failed"

LEMMA StopStops == GitTyped /\ Stop => Stops
<1> SUFFICES ASSUME GitTyped, Stop PROVE Stops
  OBVIOUS
<1>1. \A c \in Calls : call'[c] = IF Doing(c, "idle") \/ call[c].pc \in Answers THEN call[c]
                                 ELSE [call[c] EXCEPT !.pc = "failed"]
  BY DEF Stop
<1>2. \A c \in Calls : /\ call'[c] \in CallRow /\ Keeps(c)
                       /\ call'[c].pc = IF call[c].pc \in Answers \cup {"idle"} THEN call[c].pc
                                        ELSE "failed"
  <2> SUFFICES ASSUME NEW c \in Calls
               PROVE  /\ call'[c] \in CallRow /\ Keeps(c)
                      /\ call'[c].pc = IF call[c].pc \in Answers \cup {"idle"} THEN call[c].pc
                                        ELSE "failed"
    OBVIOUS
  <2>1. call[c] \in CallRow
    BY DEF GitTyped
  <2>2. [call[c] EXCEPT !.pc = "failed"] \in CallRow
    BY <2>1 DEF CallRow, PCs, Answers
  <2>3. QED
    BY <1>1, <2>1, <2>2 DEF Keeps, Doing, CallRow
<1>3. call' \in [Calls -> CallRow]
  BY <1>2 DEF Stop
<1>4. UNCHANGED <<artefact, cleared, remote, foreign, pushed, local>> /\ tail' = NoCall
  BY DEF Stop
<1>5. GitTyped'
  BY <1>3, <1>4, TypedCalls DEF GitTyped, GitTypeOK, Remote
<1>6. QED
  BY <1>2, <1>4, <1>5 DEF Stops

-----------------------------------------------------------------------------
(* Every step is of one of these kinds.                                    *)
GitMoves ==
  \/ \E c \in Calls : Begins(c)
  \/ \E p \in Pushes : Queues(p) \/ Enters(p) \/ Syncs(p) \/ Writes(p) \/ AnswersPush(p)
  \/ \E c \in Commits : GoesOn(c)
  \/ Surrounds \/ Stops

LEMMA StepsMove == GitTyped /\ GitNext => GitMoves
<1> SUFFICES ASSUME GitTyped, GitNext PROVE GitMoves
  OBVIOUS
<1>1. Pushes \subseteq Calls /\ Commits \subseteq Calls
  BY DEF Calls
<1>2. ASSUME NEW p \in Pushes, NEW paths \in SUBSET GitPaths, Push(p, paths) PROVE GitMoves
  BY <1>1, <1>2, PushBegins DEF GitMoves
<1>3. ASSUME NEW p \in Pushes, Pusher(p) PROVE GitMoves
  <2>1. CASE ReadPageObjects(p)
    BY <2>1, ReadPageObjectsQueues DEF GitMoves
  <2>2. CASE Enter(p)
    BY <2>2, EnterEnters DEF GitMoves
  <2>3. CASE Sync(p)
    BY <2>3, SyncSyncs DEF GitMoves
  <2>4. CASE \E f \in call[p].left : WriteFile(p, f)
    BY <2>4, WriteFileWrites DEF GitMoves
  <2>5. CASE Unchanged(p) \/ PushCommit(p)
    BY <2>5, AnsweringAnswers DEF GitMoves
  <2>6. QED
    BY <1>3, <2>1, <2>2, <2>3, <2>4, <2>5 DEF Pusher
<1>4. ASSUME NEW p \in Pushes, FailPush(p) \/ FailSync(p) PROVE GitMoves
  BY <1>4, AnsweringAnswers DEF GitMoves
<1>5. ASSUME NEW c \in Commits, Committer(c) PROVE GitMoves
  <2>1. CASE \E paths \in SUBSET GitPaths : Commit(c, paths)
    BY <1>1, <2>1, CommitBegins DEF GitMoves
  <2>2. CASE \E f \in call[c].left : WriteLocal(c, f)
    BY <2>2, WriteLocalGoesOn DEF GitMoves
  <2>3. CASE CommitLocal(c) \/ FailCommit(c)
    BY <2>3, CommitGoesOn DEF GitMoves
  <2>4. QED
    BY <1>5, <2>1, <2>2, <2>3 DEF Committer
<1>6. CASE Surroundings
  BY <1>6, AroundSurrounds, StopStops DEF Surroundings, GitMoves
<1>7. QED
  BY <1>2, <1>3, <1>4, <1>5, <1>6 DEF GitNext

-----------------------------------------------------------------------------
(* The test files that leave.  A cleared content stays cleared, and every  *)
(* place a test file can be in holds only such: what a call has read, the  *)
(* two workspaces with what broken-off calls left there, the remote.       *)
Sent(f) == {Absent} \cup cleared[f]

TestsAreCleared ==
  /\ \A f \in GitPaths : artefact[f].ok => artefact[f].content \in cleared[f]
  /\ \A f \in Tests :
       /\ remote.files[f] \in {Foreign} \cup Sent(f)
       /\ pushed.head[f] \in {Foreign} \cup Sent(f) /\ pushed.files[f] \in {Foreign} \cup Sent(f)
       /\ local.head[f] \in Sent(f) /\ local.files[f] \in Sent(f)
       /\ \A c \in Calls : call[c].files[f] \in Sent(f)

LEMMA InitCleared == GitInit => TestsAreCleared
<1> SUFFICES ASSUME GitInit PROVE TestsAreCleared
  OBVIOUS
<1>1. \A f \in GitPaths : artefact[f].content \in cleared[f]
  BY DEF GitInit
<1>2. \A f \in Tests : f \in GitPaths /\ NoFiles[f] = Absent
  BY TreeType DEF GitPaths
<1>3. remote.files = NoFiles
  BY DEF GitInit, Main, NoMain
<1>4. \A c \in Calls : call[c].files = NoFiles
  BY TreeType DEF GitInit
<1>5. pushed.head = NoFiles /\ pushed.files = NoFiles /\ local.head = NoFiles /\ local.files = NoFiles
  BY DEF GitInit
<1>6. QED
  BY <1>1, <1>2, <1>3, <1>4, <1>5 DEF TestsAreCleared, Sent

LEMMA MovesKeepCleared == GitTyped /\ TestsAreCleared /\ GitMoves => TestsAreCleared'
<1> SUFFICES ASSUME GitTyped, TestsAreCleared, GitMoves PROVE TestsAreCleared'
  OBVIOUS
<1> USE DEF TestsAreCleared, Sent
<1>1. Pushes \subseteq Calls /\ Commits \subseteq Calls /\ Tests \subseteq GitPaths
  BY DEF Calls, GitPaths
<1>2. ASSUME NEW c \in Calls, Begins(c) PROVE TestsAreCleared'
  BY <1>1, <1>2 DEF Begins, Only
<1>3. ASSUME NEW p \in Pushes, Queues(p) PROVE TestsAreCleared'
  <2>1. \A f \in Tests : f \notin PageObjects
    BY GitAssumption
  <2>2. QED
    BY <1>1, <1>3, <2>1 DEF Queues, Only
<1>4. ASSUME NEW p \in Pushes, Enters(p) PROVE TestsAreCleared'
  BY <1>1, <1>4 DEF Enters, Only, Keeps
<1>5. ASSUME NEW p \in Pushes, Syncs(p) PROVE TestsAreCleared'
  <2>1. /\ UNCHANGED <<artefact, cleared, remote, local>>
        /\ \A f \in GitPaths : /\ pushed'.head[f] \in {pushed.head[f], remote.files[f]}
                               /\ pushed'.files[f] \in {pushed.files[f], remote.files[f]}
        /\ \A c \in Calls : call'[c].files = call[c].files
    BY <1>1, <1>5 DEF Syncs, Only, Keeps
  <2>2. QED
    BY <1>1, <2>1
<1>6. ASSUME NEW p \in Pushes, Writes(p) PROVE TestsAreCleared'
  <2>1. /\ UNCHANGED <<artefact, cleared, remote, local>> /\ pushed'.head = pushed.head
        /\ \A f \in GitPaths : pushed'.files[f] \in {pushed.files[f], call[p].files[f]}
        /\ \A c \in Calls : call'[c].files = call[c].files
    BY <1>1, <1>6 DEF Writes, Only, Keeps
  <2>2. QED
    BY <1>1, <2>1
<1>7. ASSUME NEW p \in Pushes, AnswersPush(p) PROVE TestsAreCleared'
  <2>1. Main(pushed.files).files = pushed.files
    BY DEF Main
  <2>2. /\ UNCHANGED <<artefact, cleared, local>>
        /\ pushed'.files = pushed.files
        /\ pushed'.head = pushed.head \/ pushed'.head = pushed.files
        /\ remote'.files = remote.files \/ remote'.files = pushed.files
        /\ \A c \in Calls : call'[c].files = call[c].files
    BY <1>1, <1>7, <2>1 DEF AnswersPush, Only, Keeps
  <2>3. QED
    BY <1>1, <2>2
<1>8. ASSUME NEW c \in Commits, GoesOn(c) PROVE TestsAreCleared'
  <2>1. /\ UNCHANGED <<artefact, cleared, remote, pushed>>
        /\ local'.head = local.head \/ local'.head = local.files
        /\ \A f \in GitPaths : local'.files[f] \in {local.files[f], call[c].files[f]}
        /\ \A d \in Calls : call'[d].files = call[d].files
    BY <1>1, <1>8 DEF GoesOn, Only, Keeps
  <2>2. QED
    BY <1>1, <2>1
<1>9. CASE Surrounds
  BY <1>1, <1>9 DEF Surrounds
<1>10. CASE Stops
  BY <1>1, <1>10 DEF Stops, Keeps
<1>11. QED
  BY <1>2, <1>3, <1>4, <1>5, <1>6, <1>7, <1>8, <1>9, <1>10 DEF GitMoves

-----------------------------------------------------------------------------
(* The lock.  A ticket numbers the pushes in the queue: the first has the  *)
(* workspace or may take it, each other one waits for the one before it,   *)
(* the tail is the last.                                                   *)
Queued(p) == call[p].pc \in {"queued", "sync", "write"}

Line(ticket) ==
  /\ \A p \in Pushes : ticket[p] # 0 <=> Queued(p)
  /\ \A p, q \in Pushes : ticket[p] = ticket[q] /\ Queued(p) => p = q
  /\ \A p \in Pushes : ticket[p] > 1 =>
       call[p].pc = "queued" /\ call[p].after \in Pushes /\ ticket[call[p].after] = ticket[p] - 1
  /\ tail = NoCall => \A p \in Pushes : ticket[p] = 0
  /\ tail \in Pushes => Queued(tail) /\ \A p \in Pushes : ticket[p] <= ticket[tail]

PushesWaitInLine == \E ticket \in [Pushes -> Nat] : Line(ticket)

LEMMA LineHasOneHead ==
  ASSUME NEW ticket \in [Pushes -> Nat], Line(ticket)
  PROVE  /\ \A p \in Pushes : call[p].pc \in {"sync", "write"} => ticket[p] = 1
         /\ OnePushAtATime
<1>1. \A p \in Pushes : call[p].pc \in {"sync", "write"} => ticket[p] = 1 /\ Queued(p)
  <2> SUFFICES ASSUME NEW p \in Pushes, call[p].pc \in {"sync", "write"}
               PROVE  ticket[p] = 1 /\ Queued(p)
    OBVIOUS
  <2>1. ticket[p] \in Nat /\ ticket[p] # 0 /\ Queued(p) /\ call[p].pc # "queued"
    BY DEF Line, Queued
  <2>2. QED
    BY <2>1 DEF Line
<1>2. QED
  BY <1>1 DEF Line, OnePushAtATime

(* Steps that leave every push where it is in the queue.                   *)
LEMMA LineStays ==
  ASSUME NEW ticket \in [Pushes -> Nat], Line(ticket), tail' = tail,
         \A p \in Pushes : /\ Queued(p)' <=> Queued(p)
                           /\ ticket[p] > 1 =>
                               call'[p].pc = call[p].pc /\ call'[p].after = call[p].after
  PROVE  PushesWaitInLine'
<1>1. /\ \A p \in Pushes : ticket[p] # 0 <=> Queued(p)'
      /\ \A p, q \in Pushes : ticket[p] = ticket[q] /\ Queued(p)' => p = q
  BY DEF Line
<1>2. \A p \in Pushes : ticket[p] > 1 =>
        call'[p].pc = "queued" /\ call'[p].after \in Pushes /\ ticket[call'[p].after] = ticket[p] - 1
  BY DEF Line
<1>3. /\ tail' = NoCall => \A p \in Pushes : ticket[p] = 0
      /\ tail' \in Pushes => Queued(tail') /\ \A p \in Pushes : ticket[p] <= ticket[tail']
  BY DEF Line
<1>4. tail' \in Pushes => Queued(tail)'
  BY <1>3
<1>5. Line(ticket)'
  BY <1>1, <1>2, <1>3, <1>4 DEF Line
<1>6. QED
  BY <1>5 DEF PushesWaitInLine

LEMMA QueuesWait ==
  ASSUME GitTyped, PushesWaitInLine, NEW p \in Pushes, Queues(p) PROVE PushesWaitInLine'
<1>1. PICK ticket \in [Pushes -> Nat] : Line(ticket)
  BY DEF PushesWaitInLine
<1>2. /\ \A q \in Pushes \ {p} : call'[q] = call[q]
      /\ call[p].pc = "pages" /\ call'[p].pc = "queued" /\ call'[p].after = tail /\ tail' = p
      /\ tail \in Pushes \cup {NoCall} /\ NoCall \notin Pushes
  BY GitAssumption DEF Queues, Only, GitTyped, GitTypeOK, Calls, NoCall
<1>3. PICK n \in Nat : n = IF tail = NoCall THEN 0 ELSE ticket[tail]
  BY <1>2
<1>4. \A q \in Pushes : ticket[q] <= n
  BY <1>1, <1>2, <1>3 DEF Line
<1>5. PICK later \in [Pushes -> Nat] :
        later[p] = n + 1 /\ \A q \in Pushes \ {p} : later[q] = ticket[q]
  <2>1. [ticket EXCEPT ![p] = n + 1] \in [Pushes -> Nat]
    OBVIOUS
  <2>2. QED
    BY <2>1
<1>6. \A q \in Pushes : Queued(q)' <=> Queued(q) \/ q = p
  BY <1>2 DEF Queued
<1>7. ticket[p] = 0 /\ ~Queued(p)
  BY <1>1, <1>2 DEF Line, Queued
<1>8. \A q \in Pushes : later[q] # 0 <=> Queued(q)'
  BY <1>1, <1>5, <1>6 DEF Line
<1>9. \A q, r \in Pushes : later[q] = later[r] /\ Queued(q)' => q = r
  <2> SUFFICES ASSUME NEW q \in Pushes, NEW r \in Pushes, later[q] = later[r], Queued(q)', q # r
               PROVE  FALSE
    OBVIOUS
  <2>1. CASE q = p
    <3>1. later[r] = ticket[r] /\ later[r] = n + 1 /\ ticket[r] <= n
      BY <1>4, <1>5, <2>1
    <3>2. QED
      BY <3>1
  <2>2. CASE r = p
    <3>1. later[q] = ticket[q] /\ later[q] = n + 1 /\ ticket[q] <= n
      BY <1>4, <1>5, <2>2
    <3>2. QED
      BY <3>1
  <2>3. CASE q # p /\ r # p
    BY <1>1, <1>5, <1>6, <2>3 DEF Line
  <2>4. QED
    BY <2>1, <2>2, <2>3
<1>10. \A q \in Pushes : later[q] > 1 =>
         call'[q].pc = "queued" /\ call'[q].after \in Pushes /\ later[call'[q].after] = later[q] - 1
  <2> SUFFICES ASSUME NEW q \in Pushes, later[q] > 1
               PROVE  call'[q].pc = "queued" /\ call'[q].after \in Pushes
                      /\ later[call'[q].after] = later[q] - 1
    OBVIOUS
  <2>1. CASE q = p
    <3>1. n # 0
      BY <1>5, <2>1
    <3>2. tail \in Pushes /\ n = ticket[tail] /\ tail # p
      BY <1>2, <1>3, <1>7, <3>1
    <3>3. QED
      BY <1>2, <1>5, <2>1, <3>2
  <2>2. CASE q # p
    <3>1. ticket[q] > 1 /\ call'[q] = call[q] /\ later[q] = ticket[q]
      BY <1>2, <1>5, <2>2
    <3>2. call[q].pc = "queued" /\ call[q].after \in Pushes /\ ticket[call[q].after] = ticket[q] - 1
      BY <1>1, <3>1 DEF Line
    <3>3. ticket[q] \in Nat /\ call[q].after # p
      BY <1>7, <3>1, <3>2
    <3>4. QED
      BY <1>5, <3>1, <3>2, <3>3
  <2>3. QED
    BY <2>1, <2>2
<1>11. \A q \in Pushes : later[q] <= later[p]
  BY <1>4, <1>5
<1>12. Queued(p)' /\ tail' = p
  BY <1>2, <1>6
<1>13. Queued(tail)'
  BY <1>2 DEF Queued
<1>14. Line(later)'
  BY <1>2, <1>8, <1>9, <1>10, <1>11, <1>12, <1>13 DEF Line
<1>15. QED
  BY <1>14 DEF PushesWaitInLine

(* The push that is answered was the first; all others move up.            *)
LEMMA AnswersMoveUp ==
  ASSUME GitTyped, PushesWaitInLine, NEW p \in Pushes, AnswersPush(p) PROVE PushesWaitInLine'
<1>1. PICK ticket \in [Pushes -> Nat] : Line(ticket)
  BY DEF PushesWaitInLine
<1>2. /\ \A q \in Pushes \ {p} : call'[q] = call[q]
      /\ call[p].pc \in {"sync", "write"} /\ call'[p].pc \in Answers
      /\ tail' = IF tail = p THEN NoCall ELSE tail
      /\ tail \in Pushes \cup {NoCall} /\ NoCall \notin Pushes
  BY GitAssumption DEF AnswersPush, Only, GitTyped, GitTypeOK, Calls, NoCall, TailAfter
<1>3. ticket[p] = 1 /\ Queued(p)
  BY <1>1, <1>2, LineHasOneHead DEF Queued
<1>4. PICK later \in [Pushes -> Nat] :
        \A q \in Pushes : later[q] = IF ticket[q] = 0 THEN 0 ELSE ticket[q] - 1
  <2>1. [q \in Pushes |-> IF ticket[q] = 0 THEN 0 ELSE ticket[q] - 1] \in [Pushes -> Nat]
    OBVIOUS
  <2>2. QED
    BY <2>1
<1>5. \A q \in Pushes : Queued(q)' <=> Queued(q) /\ q # p
  BY <1>2 DEF Queued, Answers
<1>6. \A q \in Pushes : /\ q # p => ticket[q] # 1
                        /\ later[q] # 0 => ticket[q] = later[q] + 1 /\ Queued(q) /\ q # p
                        /\ later[q] = 0 => ticket[q] = 0 \/ q = p
  BY <1>1, <1>3, <1>4 DEF Line
<1>7. \A q \in Pushes : later[q] # 0 <=> Queued(q)'
  BY <1>1, <1>5, <1>6 DEF Line
<1>8. \A q, r \in Pushes : later[q] = later[r] /\ Queued(q)' => q = r
  <2> SUFFICES ASSUME NEW q \in Pushes, NEW r \in Pushes, later[q] = later[r], Queued(q)'
               PROVE  q = r
    OBVIOUS
  <2>1. later[q] # 0
    BY <1>7
  <2>2. ticket[q] = later[q] + 1 /\ ticket[r] = later[r] + 1 /\ Queued(q)
    BY <1>6, <2>1
  <2>3. QED
    BY <1>1, <2>2 DEF Line
<1>9. \A q \in Pushes : later[q] > 1 =>
        call'[q].pc = "queued" /\ call'[q].after \in Pushes /\ later[call'[q].after] = later[q] - 1
  <2> SUFFICES ASSUME NEW q \in Pushes, later[q] > 1
               PROVE  call'[q].pc = "queued" /\ call'[q].after \in Pushes
                      /\ later[call'[q].after] = later[q] - 1
    OBVIOUS
  <2>1. ticket[q] = later[q] + 1 /\ q # p /\ later[q] \in Nat
    BY <1>6
  <2>2. ticket[q] > 1 /\ call'[q] = call[q]
    BY <1>2, <2>1
  <2>3. call[q].pc = "queued" /\ call[q].after \in Pushes /\ ticket[call[q].after] = ticket[q] - 1
    BY <1>1, <2>2 DEF Line
  <2>4. later[call[q].after] = ticket[call[q].after] - 1
    BY <1>4, <2>1, <2>3
  <2>5. QED
    BY <2>1, <2>2, <2>3, <2>4
<1>10. tail' = NoCall => \A q \in Pushes : later[q] = 0
  <2>1. CASE tail = p
    <3>1. \A q \in Pushes : ticket[q] <= 1
      BY <1>1, <1>3, <2>1 DEF Line
    <3>2. QED
      BY <1>4, <3>1
  <2>2. CASE tail # p
    BY <1>1, <1>2, <1>4, <2>2 DEF Line
  <2>3. QED
    BY <2>1, <2>2
<1>11. tail' \in Pushes => Queued(tail)' /\ \A q \in Pushes : later[q] <= later[tail']
  <2> SUFFICES ASSUME tail' \in Pushes
               PROVE  Queued(tail)' /\ \A q \in Pushes : later[q] <= later[tail']
    OBVIOUS
  <2>1. tail' = tail /\ tail # p /\ tail \in Pushes
    BY <1>2
  <2>2. Queued(tail) /\ (\A q \in Pushes : ticket[q] <= ticket[tail]) /\ ticket[tail] # 0
    BY <1>1, <2>1 DEF Line
  <2>3. Queued(tail)'
    BY <1>2, <2>1, <2>2 DEF Queued
  <2>4. QED
    BY <1>4, <2>1, <2>2, <2>3
<1>12. Line(later)'
  BY <1>7, <1>8, <1>9, <1>10, <1>11 DEF Line
<1>13. QED
  BY <1>12 DEF PushesWaitInLine

LEMMA MovesKeepLine == GitTyped /\ PushesWaitInLine /\ GitMoves => PushesWaitInLine'
<1> SUFFICES ASSUME GitTyped, PushesWaitInLine, GitMoves PROVE PushesWaitInLine'
  OBVIOUS
<1>1. PICK ticket \in [Pushes -> Nat] : Line(ticket)
  BY DEF PushesWaitInLine
<1>2. /\ Pushes \subseteq Calls /\ \A c \in Commits : c \notin Pushes
  BY GitAssumption DEF Calls
<1>3. \A p \in Pushes : ticket[p] > 1 => call[p].pc = "queued"
  BY <1>1 DEF Line
<1>4. ASSUME NEW c \in Calls, Begins(c) PROVE PushesWaitInLine'
  <2>1. tail' = tail /\ \A q \in Calls \ {c} : call'[q] = call[q]
    BY <1>4 DEF Begins, Only
  <2>2. /\ call[c].pc = "idle"
        /\ c \in Pushes => call'[c].pc \notin {"queued", "sync", "write"}
    BY <1>4 DEF Begins
  <2>3. \A p \in Pushes : /\ Queued(p)' <=> Queued(p)
                          /\ ticket[p] > 1 => call'[p].pc = call[p].pc /\ call'[p].after = call[p].after
    BY <1>2, <1>3, <2>1, <2>2 DEF Queued
  <2>4. QED
    BY <1>1, <2>1, <2>3, LineStays
<1>5. ASSUME NEW p \in Pushes, Queues(p) \/ AnswersPush(p) PROVE PushesWaitInLine'
  BY <1>5, QueuesWait, AnswersMoveUp
<1>6. ASSUME NEW p \in Pushes, Enters(p) PROVE PushesWaitInLine'
  <2>1. tail' = tail /\ (\A q \in Pushes \ {p} : call'[q] = call[q])
        /\ call[p].pc = "queued" /\ call'[p].pc = "sync" /\ Settled(call[p].after)
    BY <1>2, <1>6 DEF Enters, Only
  <2>2. ~(ticket[p] > 1)
    <3> SUFFICES ASSUME ticket[p] > 1 PROVE FALSE
      OBVIOUS
    <3>1. call[p].after \in Pushes /\ ticket[call[p].after] = ticket[p] - 1 /\ ticket[p] \in Nat
      BY <1>1 DEF Line
    <3>2. Queued(call[p].after)
      BY <1>1, <3>1 DEF Line
    <3>3. QED
      BY <2>1, <3>1, <3>2 DEF Settled, Queued, Answers
  <2>3. \A q \in Pushes : /\ Queued(q)' <=> Queued(q)
                          /\ ticket[q] > 1 => call'[q].pc = call[q].pc /\ call'[q].after = call[q].after
    BY <2>1, <2>2 DEF Queued
  <2>4. QED
    BY <1>1, <2>1, <2>3, LineStays
<1>7. ASSUME NEW p \in Pushes, Syncs(p) \/ Writes(p) PROVE PushesWaitInLine'
  <2>1. tail' = tail /\ (\A q \in Pushes \ {p} : call'[q] = call[q])
        /\ call[p].pc \in {"sync", "write"} /\ call'[p].pc = "write"
    BY <1>2, <1>7 DEF Syncs, Writes, Only
  <2>2. \A q \in Pushes : /\ Queued(q)' <=> Queued(q)
                          /\ ticket[q] > 1 => call'[q].pc = call[q].pc /\ call'[q].after = call[q].after
    BY <1>3, <2>1 DEF Queued
  <2>3. QED
    BY <1>1, <2>1, <2>2, LineStays
<1>8. ASSUME NEW c \in Commits, GoesOn(c) PROVE PushesWaitInLine'
  <2>1. tail' = tail /\ \A q \in Pushes : call'[q] = call[q]
    BY <1>2, <1>8 DEF GoesOn, Only
  <2>2. QED
    BY <1>1, <2>1, LineStays DEF Queued
<1>9. CASE Surrounds
  <2>1. tail' = tail /\ call' = call
    BY <1>9 DEF Surrounds
  <2>2. QED
    BY <1>1, <2>1, LineStays DEF Queued
<1>10. CASE Stops
  <2>1. /\ tail' = NoCall /\ NoCall \notin Pushes
        /\ \A q \in Pushes : call'[q].pc \in Answers \cup {"idle"}
    BY <1>2, <1>10, GitAssumption DEF Stops, NoCall, Answers
  <2>2. PICK later \in [Pushes -> Nat] : \A q \in Pushes : later[q] = 0
    <3>1. [q \in Pushes |-> 0] \in [Pushes -> Nat]
      OBVIOUS
    <3>2. QED
      BY <3>1
  <2>3. \A q \in Pushes : ~Queued(q)'
    BY <2>1 DEF Queued, Answers
  <2>4. Line(later)'
    BY <2>1, <2>2, <2>3 DEF Line
  <2>5. QED
    BY <2>4 DEF PushesWaitInLine
<1>11. QED
  BY <1>4, <1>5, <1>6, <1>7, <1>8, <1>9, <1>10 DEF GitMoves

-----------------------------------------------------------------------------
(* The workspace.  What differs from the commit checked out was written by *)
(* a push, and so was, under the push that has the workspace now, what is  *)
(* neither of the remote commit nor its own.                               *)
Reached(q) == call[q].pc \in {"write"} \cup Answers

LeftBy(q, f) == Reached(q) /\ call[q].files[f] = pushed.files[f]

WriterHolds(p) ==
  /\ call[p].left \subseteq WrittenBy(p)
  /\ \A f \in WrittenBy(p) \ call[p].left : pushed.files[f] = call[p].files[f]
  /\ call[p].base.main =>
       \A f \in GitPaths \ WrittenBy(p) :
         \/ pushed.files[f] = call[p].base.files[f]
         \/ call[p].base.files[f] # Absent /\ \E q \in Pushes \ {p} : LeftBy(q, f)

WorkspaceIsAccounted ==
  /\ \A f \in GitPaths : Dirty(f) => \E q \in Pushes : LeftBy(q, f)
  /\ \A p \in Pushes : call[p].pc = "write" => WriterHolds(p)

LEMMA InitAccounted == GitInit => WorkspaceIsAccounted
<1> SUFFICES ASSUME GitInit PROVE WorkspaceIsAccounted
  OBVIOUS
<1>1. \A f \in GitPaths : ~Dirty(f)
  BY DEF GitInit, Dirty
<1>2. \A p \in Pushes : call[p].pc = "idle"
  BY TreeType DEF GitInit, Calls
<1>3. QED
  BY <1>1, <1>2 DEF WorkspaceIsAccounted

(* Steps that write no file, and take no push to the workspace.            *)
LEMMA AccountedStays ==
  ASSUME WorkspaceIsAccounted, pushed'.files = pushed.files,
         pushed'.head = pushed.head \/ pushed'.head = pushed.files,
         \A q \in Pushes : Reached(q) => Reached(q)' /\ call'[q].files = call[q].files,
         \A p \in Pushes : call'[p].pc = "write" => call'[p] = call[p]
  PROVE  WorkspaceIsAccounted'
<1>1. \A q \in Pushes, f \in GitPaths : LeftBy(q, f) => LeftBy(q, f)'
  BY DEF LeftBy
<1>2. \A f \in GitPaths : Dirty(f)' => Dirty(f)
  BY DEF Dirty
<1>3. \A f \in GitPaths : Dirty(f)' => \E q \in Pushes : LeftBy(q, f)'
  BY <1>1, <1>2 DEF WorkspaceIsAccounted
<1>4. ASSUME NEW p \in Pushes, call'[p].pc = "write" PROVE WriterHolds(p)'
  <2>1. call'[p] = call[p] /\ WriterHolds(p)
    BY <1>4 DEF WorkspaceIsAccounted
  <2>2. WrittenBy(p)' = WrittenBy(p)
    BY <2>1 DEF WrittenBy
  <2>3. QED
    BY <1>1, <2>1, <2>2 DEF WriterHolds
<1>5. QED
  BY <1>3, <1>4 DEF WorkspaceIsAccounted

LEMMA SyncAccounts ==
  ASSUME GitTyped, OnePushAtATime, WorkspaceIsAccounted, NEW p \in Pushes, Syncs(p)
  PROVE  WorkspaceIsAccounted'
<1>1. /\ \A q \in Pushes \ {p} : call'[q] = call[q]
      /\ call[p].pc = "sync" /\ call'[p].pc = "write" /\ call'[p].files = call[p].files
      /\ call'[p].left = WrittenBy(p) /\ call'[p].base = remote
  BY DEF Syncs, Only, Keeps, Calls
<1>2. \A q \in Pushes : call'[q].pc = "write" => q = p
  BY <1>1 DEF OnePushAtATime
<1>3. \A q \in Pushes, f \in GitPaths :
        LeftBy(q, f) /\ pushed'.files[f] = pushed.files[f] => LeftBy(q, f)' /\ q # p
  BY <1>1 DEF LeftBy, Reached, Answers
<1>4. CASE ~remote.main
  <2>1. pushed' = pushed
    BY <1>4 DEF Syncs
  <2>2. \A f \in GitPaths : Dirty(f)' => \E q \in Pushes : LeftBy(q, f)'
    BY <1>3, <2>1 DEF WorkspaceIsAccounted, Dirty
  <2>3. WrittenBy(p)' = WrittenBy(p)
    BY <1>1 DEF WrittenBy
  <2>4. WriterHolds(p)'
    BY <1>1, <1>4, <2>3 DEF WriterHolds
  <2>5. QED
    BY <1>2, <2>2, <2>4 DEF WorkspaceIsAccounted
<1>5. CASE remote.main
  <2>1. /\ pushed'.head = remote.files
        /\ \A f \in GitPaths :
             pushed'.files[f] = IF Dirty(f) /\ remote.files[f] # Absent THEN pushed.files[f]
                                ELSE remote.files[f]
    BY <1>5 DEF Syncs
  <2>2. ASSUME NEW f \in GitPaths, pushed'.files[f] # remote.files[f]
        PROVE  remote.files[f] # Absent /\ \E q \in Pushes \ {p} : LeftBy(q, f)'
    <3>1. Dirty(f) /\ remote.files[f] # Absent /\ pushed'.files[f] = pushed.files[f]
      BY <2>1, <2>2
    <3>2. PICK q \in Pushes : LeftBy(q, f)
      BY <3>1 DEF WorkspaceIsAccounted
    <3>3. QED
      BY <1>3, <3>1, <3>2
  <2>3. \A f \in GitPaths : Dirty(f)' => \E q \in Pushes : LeftBy(q, f)'
    BY <2>1, <2>2 DEF Dirty
  <2>4. WrittenBy(p)' = WrittenBy(p)
    BY <1>1 DEF WrittenBy
  <2>5. \A f \in GitPaths : \/ pushed'.files[f] = call'[p].base.files[f]
                           \/ /\ call'[p].base.files[f] # Absent
                              /\ \E q \in Pushes \ {p} : LeftBy(q, f)'
    BY <1>1, <2>2
  <2>6. WriterHolds(p)'
    BY <1>1, <2>4, <2>5 DEF WriterHolds
  <2>7. QED
    BY <1>2, <2>3, <2>6 DEF WorkspaceIsAccounted
<1>6. QED
  BY <1>4, <1>5

LEMMA WriteAccounts ==
  ASSUME GitTyped, OnePushAtATime, WorkspaceIsAccounted, NEW p \in Pushes, Writes(p)
  PROVE  WorkspaceIsAccounted'
<1>1. /\ \A q \in Pushes \ {p} : call'[q] = call[q]
      /\ call[p].pc = "write" /\ call'[p].pc = "write" /\ call'[p].files = call[p].files
      /\ call'[p].base = call[p].base /\ pushed'.head = pushed.head
  BY DEF Writes, Only, Keeps, Calls
<1>2. PICK f \in call[p].left :
        /\ call'[p].left = call[p].left \ {f}
        /\ pushed'.files[f] = call[p].files[f]
        /\ \A g \in GitPaths \ {f} : pushed'.files[g] = pushed.files[g]
  BY DEF Writes
<1>3. WriterHolds(p) /\ f \in WrittenBy(p)
  BY <1>1, <1>2 DEF WorkspaceIsAccounted, WriterHolds
<1>4. \A q \in Pushes : call'[q].pc = "write" => q = p
  BY <1>1 DEF OnePushAtATime
<1>5. \A q \in Pushes : Reached(q) => Reached(q)' /\ call'[q].files = call[q].files
  BY <1>1 DEF Reached
<1>6. \A q \in Pushes, g \in GitPaths \ {f} : LeftBy(q, g) => LeftBy(q, g)'
  BY <1>2, <1>5 DEF LeftBy
<1>7. LeftBy(p, f)'
  BY <1>1, <1>2 DEF LeftBy, Reached
<1>8. \A g \in GitPaths : Dirty(g)' => \E q \in Pushes : LeftBy(q, g)'
  <2> SUFFICES ASSUME NEW g \in GitPaths, g # f, Dirty(g)' PROVE \E q \in Pushes : LeftBy(q, g)'
    BY <1>7
  <2>1. Dirty(g)
    BY <1>1, <1>2 DEF Dirty
  <2>2. QED
    BY <1>6, <2>1 DEF WorkspaceIsAccounted
<1>9. WrittenBy(p)' = WrittenBy(p)
  BY <1>1 DEF WrittenBy
<1>10. WriterHolds(p)'
  <2>1. \A g \in WrittenBy(p) \ call'[p].left : pushed'.files[g] = call'[p].files[g]
    BY <1>1, <1>2, <1>3 DEF WriterHolds, WrittenBy
  <2>2. call'[p].left \subseteq WrittenBy(p)
    BY <1>2, <1>3 DEF WriterHolds
  <2>3. \A g \in GitPaths \ WrittenBy(p) : pushed'.files[g] = pushed.files[g] /\ g # f
    BY <1>2, <1>3
  <2>4. QED
    BY <1>1, <1>3, <1>6, <1>9, <2>1, <2>2, <2>3 DEF WriterHolds
<1>11. QED
  BY <1>4, <1>8, <1>10 DEF WorkspaceIsAccounted

LEMMA MovesKeepAccounts ==
  GitTyped /\ OnePushAtATime /\ WorkspaceIsAccounted /\ GitMoves => WorkspaceIsAccounted'
<1> SUFFICES ASSUME GitTyped, OnePushAtATime, WorkspaceIsAccounted, GitMoves
             PROVE  WorkspaceIsAccounted'
  OBVIOUS
<1>1. Pushes \subseteq Calls /\ \A c \in Commits : c \notin Pushes
  BY GitAssumption DEF Calls
<1>2. ASSUME NEW c \in Calls, Begins(c) PROVE WorkspaceIsAccounted'
  <2>1. /\ pushed' = pushed /\ \A q \in Calls \ {c} : call'[q] = call[q]
        /\ call[c].pc = "idle" /\ (c \in Pushes => call'[c].pc # "write")
    BY <1>2 DEF Begins, Only
  <2>2. /\ \A q \in Pushes : Reached(q) => Reached(q)' /\ call'[q].files = call[q].files
        /\ \A p \in Pushes : call'[p].pc = "write" => call'[p] = call[p]
    BY <1>1, <2>1 DEF Reached, Answers
  <2>3. QED
    BY <2>1, <2>2, AccountedStays
<1>3. ASSUME NEW p \in Pushes, Queues(p) \/ Enters(p) PROVE WorkspaceIsAccounted'
  <2>1. /\ pushed' = pushed /\ \A q \in Pushes \ {p} : call'[q] = call[q]
        /\ call[p].pc \in {"pages", "queued"} /\ call'[p].pc # "write"
    BY <1>1, <1>3 DEF Queues, Enters, Only
  <2>2. /\ \A q \in Pushes : Reached(q) => Reached(q)' /\ call'[q].files = call[q].files
        /\ \A q \in Pushes : call'[q].pc = "write" => call'[q] = call[q]
    BY <2>1 DEF Reached, Answers
  <2>3. QED
    BY <2>1, <2>2, AccountedStays
<1>4. ASSUME NEW p \in Pushes, AnswersPush(p) PROVE WorkspaceIsAccounted'
  <2>1. /\ \A q \in Pushes \ {p} : call'[q] = call[q]
        /\ call'[p].files = call[p].files /\ call'[p].pc \in Answers
        /\ pushed'.files = pushed.files /\ (pushed'.head = pushed.head \/ pushed'.head = pushed.files)
    BY <1>1, <1>4 DEF AnswersPush, Only, Keeps
  <2>2. /\ \A q \in Pushes : Reached(q) => Reached(q)' /\ call'[q].files = call[q].files
        /\ \A q \in Pushes : call'[q].pc = "write" => call'[q] = call[q]
    BY <2>1 DEF Reached, Answers
  <2>3. QED
    BY <2>1, <2>2, AccountedStays
<1>5. ASSUME NEW c \in Commits, GoesOn(c) PROVE WorkspaceIsAccounted'
  <2>1. pushed' = pushed /\ \A q \in Pushes : call'[q] = call[q]
    BY <1>1, <1>5 DEF GoesOn, Only
  <2>2. QED
    BY <2>1, AccountedStays DEF Reached
<1>6. CASE Surrounds
  <2>1. pushed' = pushed /\ call' = call
    BY <1>6 DEF Surrounds
  <2>2. QED
    BY <2>1, AccountedStays DEF Reached
<1>7. CASE Stops
  <2>1. pushed' = pushed
    BY <1>7 DEF Stops
  <2>2. /\ \A q \in Pushes : Reached(q) => Reached(q)' /\ call'[q].files = call[q].files
        /\ \A q \in Pushes : call'[q].pc = "write" => call'[q] = call[q]
    BY <1>1, <1>7 DEF Stops, Keeps, Reached, Answers
  <2>3. QED
    BY <2>1, <2>2, AccountedStays
<1>8. QED
  BY <1>2, <1>3, <1>4, <1>5, <1>6, <1>7, SyncAccounts, WriteAccounts DEF GitMoves

-----------------------------------------------------------------------------
GitInv ==
  /\ GitTyped
  /\ TestsAreCleared
  /\ PushesWaitInLine
  /\ WorkspaceIsAccounted

LEMMA InitGitInv == GitInit => GitInv
<1> SUFFICES ASSUME GitInit PROVE GitInv
  OBVIOUS
<1>1. GitTyped
  <2>1. \A c \in Calls : call[c] = Idle
    BY DEF GitInit
  <2>2. call \in [Calls -> CallRow]
    BY <2>1, TreeType DEF GitInit
  <2>3. artefact \in [GitPaths -> [content : Content, ok : BOOLEAN]] /\ cleared \in [GitPaths -> SUBSET Content]
    <3>1. 1 \in Content
      BY GitAssumption DEF Content
    <3>2. QED
      BY <3>1 DEF GitInit
  <2>4. remote \in Remote
    BY TreeType DEF GitInit
  <2>5. /\ pushed \in [head : Tree, files : Tree] /\ local \in [head : Tree, files : Tree]
        /\ foreign \in 0..MaxForeign /\ tail \in Pushes \cup {NoCall}
    BY TreeType, GitAssumption DEF GitInit
  <2>6. \A c \in Calls :
          /\ call[c].pc \in PCs /\ call[c].files \in Tree /\ call[c].left \subseteq GitPaths
          /\ call[c].after \in Pushes \cup {NoCall} /\ call[c].base \in Remote
    BY <2>2 DEF CallRow
  <2>7. QED
    BY <2>2, <2>3, <2>4, <2>5, <2>6 DEF GitTyped, GitTypeOK, PCs, Remote
<1>2. PushesWaitInLine
  <2>1. PICK ticket \in [Pushes -> Nat] : \A p \in Pushes : ticket[p] = 0
    <3>1. [p \in Pushes |-> 0] \in [Pushes -> Nat]
      OBVIOUS
    <3>2. QED
      BY <3>1
  <2>2. \A p \in Pushes : ~Queued(p)
    BY TreeType DEF GitInit, Queued, Calls
  <2>3. tail = NoCall /\ NoCall \notin Pushes
    BY GitAssumption DEF GitInit, NoCall
  <2>4. Line(ticket)
    BY <2>1, <2>2, <2>3 DEF Line
  <2>5. QED
    BY <2>4 DEF PushesWaitInLine
<1>3. QED
  BY <1>1, <1>2, InitCleared, InitAccounted DEF GitInv

LEMMA InvOnePush == GitInv => OnePushAtATime
  BY LineHasOneHead DEF GitInv, PushesWaitInLine

LEMMA MovesAreTyped == GitMoves => GitTyped'
  BY DEF GitMoves, Begins, Queues, Enters, Syncs, Writes, AnswersPush, GoesOn, Surrounds, Stops

LEMMA StepGitInv == GitInv /\ [GitNext]_gitVars => GitInv'
<1> SUFFICES ASSUME GitInv, [GitNext]_gitVars PROVE GitInv'
  OBVIOUS
<1>1. CASE GitNext
  <2>1. GitMoves /\ OnePushAtATime
    BY <1>1, StepsMove, InvOnePush DEF GitInv
  <2>2. QED
    BY <2>1, MovesAreTyped, MovesKeepCleared, MovesKeepLine, MovesKeepAccounts DEF GitInv
<1>2. CASE UNCHANGED gitVars
  <2>1. /\ artefact' = artefact /\ cleared' = cleared /\ remote' = remote /\ foreign' = foreign
        /\ pushed' = pushed /\ local' = local /\ call' = call /\ tail' = tail
    BY <1>2 DEF gitVars
  <2>2. GitTyped'
    BY <2>1, TypedCalls DEF GitInv, GitTyped, GitTypeOK, Remote
  <2>3. TestsAreCleared'
    BY <2>1 DEF GitInv, TestsAreCleared, Sent
  <2>4. PushesWaitInLine'
    <3>1. PICK ticket \in [Pushes -> Nat] : Line(ticket)
      BY DEF GitInv, PushesWaitInLine
    <3>2. QED
      BY <2>1, <3>1, LineStays DEF Queued
  <2>5. WorkspaceIsAccounted'
    BY <2>1, AccountedStays DEF GitInv, Reached
  <2>6. QED
    BY <2>2, <2>3, <2>4, <2>5 DEF GitInv
<1>3. QED
  BY <1>1, <1>2

(* Only approved and validated test files leave the platform, from either  *)
(* workspace, whatever was left there and however the calls interleave.    *)
THEOREM TestsLeaveCleared == GitSpec => []OnlyClearedLeaves
<1>1. GitInv => OnlyClearedLeaves
  BY DEF GitInv, TestsAreCleared, Sent, OnlyClearedLeaves
<1>2. QED
  BY <1>1, InitGitInv, StepGitInv, PTL DEF GitSpec

(* withPushLock(): one push at a time is between its fetch and its answer, *)
(* also when pushes fail or the backend stops.                             *)
THEOREM PushesTakeTurns == GitSpec => []OnePushAtATime
<1>1. QED
  BY InvOnePush, InitGitInv, StepGitInv, PTL DEF GitSpec

LEMMA CommittedAnswers ==
  ASSUME GitTyped, GitMoves, NEW p \in Pushes, Committed(p)
  PROVE  AnswersPush(p)
<1>1. p \in Calls /\ p \notin Commits
  BY GitAssumption DEF Calls
<1>2. call[p].pc = "write" /\ call'[p].pc = "pushed"
  BY DEF Committed, Doing
<1>3. ASSUME NEW c \in Calls, Begins(c) PROVE FALSE
  BY <1>1, <1>2, <1>3 DEF Begins, Only
<1>4. ASSUME NEW q \in Pushes, Queues(q) \/ Enters(q) \/ Syncs(q) \/ Writes(q) PROVE FALSE
  BY <1>1, <1>2, <1>4 DEF Queues, Enters, Syncs, Writes, Only
<1>5. ASSUME NEW c \in Commits, GoesOn(c) PROVE FALSE
  BY <1>1, <1>2, <1>5 DEF GoesOn, Only
<1>6. ~Surrounds /\ ~Stops
  BY <1>1, <1>2 DEF Surrounds, Stops
<1>7. ASSUME NEW q \in Pushes, AnswersPush(q) PROVE q = p
  BY <1>1, <1>2, <1>7 DEF AnswersPush, Only
<1>8. QED
  BY <1>3, <1>4, <1>5, <1>6, <1>7 DEF GitMoves

(* A push that succeeds over a remote commit puts its own files on top of  *)
(* it; another file it changes was written by a push that broke off.       *)
THEOREM PushesKeepFilesOfOthers == GitSpec => PushKeepsOthers
<1>1. ASSUME GitInv, GitNext, NEW p \in Pushes, Committed(p), call[p].base.main, NEW f \in GitPaths
      PROVE  \/ remote'.files[f] = Overlay(call[p].base.files, call[p].files)[f]
             \/ /\ call[p].files[f] = Absent /\ call[p].base.files[f] # Absent
                /\ \E q \in Pushes \ {p} : call[q].files[f] = remote'.files[f]
  <2>1. AnswersPush(p)
    BY <1>1, StepsMove, CommittedAnswers DEF GitInv
  <2>2. remote'.files = pushed.files /\ call[p].left = {} /\ call[p].pc = "write"
    BY <1>1, <2>1 DEF AnswersPush, Main, Committed, Doing
  <2>3. WriterHolds(p)
    BY <1>1, <2>2 DEF GitInv, WorkspaceIsAccounted
  <2>4. Overlay(call[p].base.files, call[p].files)[f] =
          IF call[p].files[f] = Absent THEN call[p].base.files[f] ELSE call[p].files[f]
    BY <1>1 DEF Overlay
  <2>5. CASE call[p].files[f] # Absent
    BY <1>1, <2>2, <2>3, <2>4, <2>5 DEF WriterHolds, WrittenBy
  <2>6. CASE call[p].files[f] = Absent
    BY <1>1, <2>2, <2>3, <2>4, <2>6 DEF WriterHolds, WrittenBy, LeftBy
  <2>7. QED
    BY <2>5, <2>6
<1>2. GitInv /\ [GitNext]_gitVars =>
        [\A p \in Pushes : Committed(p) /\ call[p].base.main =>
           \A f \in GitPaths :
              \/ remote'.files[f] = Overlay(call[p].base.files, call[p].files)[f]
              \/ /\ call[p].files[f] = Absent /\ call[p].base.files[f] # Absent
                 /\ \E q \in Pushes \ {p} : call[q].files[f] = remote'.files[f]]_gitVars
  BY <1>1
<1>3. QED
  BY <1>2, InitGitInv, StepGitInv, PTL DEF GitSpec, PushKeepsOthers

-----------------------------------------------------------------------------
(* Sessions.                                                               *)

Ref == [pc : {"none", "sent", "granted", "refused"}, token : Tokens]
ReqRow == [pc : {"idle", "served", "failed"} \cup InFlight, token : Tokens,
           by : Users \cup {Nobody}, retried : BOOLEAN]
SessionTyped ==
  SessionTypeOK /\ login \in Ref /\ refresh \in Ref /\ req \in [Requests -> ReqRow]

Issued(n, u) == n \in DOMAIN issued /\ issued[n] = u

(* A login is under way only without a session; the cookie is then that of *)
(* the user it has let in, unless a late logout or another tab took it.    *)
LoginAlone ==
  /\ login.pc # "none" => status = "unauthenticated"
  /\ login.pc = "granted" =>
       /\ login.token \in DOMAIN issued
       /\ ~overtaken => cookie \in {issued[login.token], Nobody}

BootstrapAlone ==
  status = "initializing" =>
    /\ logout = "none" /\ refresh.pc = "none" /\ \A i \in Requests : req[i].pc = "idle"
    /\ shown = Nobody
    /\ store # NoToken =>
         store \in DOMAIN issued /\ (~overtaken => cookie \in {issued[store], Nobody})

PageIsOfOne ==
  ~overtaken =>
    /\ status = "unauthenticated" => store = NoToken /\ shown = Nobody
    /\ status = "authenticated" =>
         /\ shown \in Users /\ cookie \in {shown, Nobody}
         /\ store # NoToken => Issued(store, shown)

CallsAreOfOne ==
  ~overtaken =>
    /\ refresh.pc # "none" => status = "authenticated"
    /\ refresh.pc = "granted" => Issued(refresh.token, shown)
    /\ \A i \in Requests :
         /\ req[i].pc \in InFlight =>
              /\ status = "authenticated" /\ req[i].by = shown
              /\ req[i].token # NoToken => Issued(req[i].token, shown)
         /\ req[i].pc = "served" => Issued(req[i].token, req[i].by)

SessionInv == SessionTyped /\ LoginAlone /\ BootstrapAlone /\ PageIsOfOne /\ CallsAreOfOne

-----------------------------------------------------------------------------
LEMMA QuietType == Quiet \in Ref /\ Unsent \in ReqRow /\ NoToken \in Tokens /\ Nobody \notin Users
  BY SessionAssumption DEF Quiet, Unsent, Ref, ReqRow, NoToken, Tokens, Nobody

LEMMA TypedSession ==
  ASSUME active' \in [Users -> BOOLEAN], cookie' \in Users \cup {Nobody}, issued' \in Seq(Users),
         Len(issued') <= MaxTokens, expired' \subseteq DOMAIN issued', store' \in Tokens,
         shown' \in Users \cup {Nobody},
         status' \in {"initializing", "authenticated", "unauthenticated"},
         login' \in Ref, logout' \in {"none", "sent", "answered"}, refresh' \in Ref,
         req' \in [Requests -> ReqRow], overtaken' \in BOOLEAN
  PROVE  SessionTyped'
  BY DEF SessionTyped, SessionTypeOK, Ref, ReqRow, InFlight

(* The next token names its user; the others name whom they did.           *)
LEMMA IssueEffect ==
  ASSUME SessionTyped, NEW u \in Users, Signs(u), issued' = Append(issued, u)
  PROVE  /\ issued' \in Seq(Users) /\ Len(issued') <= MaxTokens /\ DOMAIN issued \subseteq DOMAIN issued'
         /\ \A n \in DOMAIN issued : issued'[n] = issued[n]
         /\ NextToken \in DOMAIN issued' /\ issued'[NextToken] = u
         /\ NextToken \in Tokens /\ NextToken # NoToken
  BY SessionAssumption DEF SessionTyped, SessionTypeOK, Signs, NextToken, Tokens, NoToken

LEMMA IssuedStays ==
  ASSUME NEW n, NEW u, DOMAIN issued \subseteq DOMAIN issued',
         \A m \in DOMAIN issued : issued'[m] = issued[m], Issued(n, u)
  PROVE  Issued(n, u)'
  BY DEF Issued

(* What ends a session, if nothing of it is under way.                     *)
LEMMA ClearKeeps ==
  ASSUME SessionInv, ClearSession, UNCHANGED <<backend, login>>,
         logout' \in {"none", "sent", "answered"}, refresh' \in Ref, req' \in [Requests -> ReqRow],
         \A i \in Requests : req'[i].pc = "served" => req'[i] = req[i]
  PROVE  SessionInv'
<1> USE DEF SessionInv
<1>1. /\ store' = NoToken /\ shown' = Nobody /\ status' = "unauthenticated"
      /\ overtaken' \in BOOLEAN /\ login' = login /\ cookie' = cookie /\ issued' = issued
      /\ active' = active /\ expired' = expired
  BY DEF ClearSession, backend, SessionTyped, SessionTypeOK
<1>2. ~overtaken' => /\ ~overtaken /\ refresh'.pc = "none"
                     /\ \A i \in Requests : req'[i].pc \notin InFlight
  BY DEF ClearSession
<1>3. SessionTyped'
  BY <1>1, TypedSession, QuietType DEF SessionTyped, SessionTypeOK
<1>4. LoginAlone' /\ BootstrapAlone' /\ PageIsOfOne'
  BY <1>1, <1>2 DEF LoginAlone, BootstrapAlone, PageIsOfOne
<1>5. CallsAreOfOne'
  BY <1>1, <1>2 DEF CallsAreOfOne, Issued
<1>6. QED
  BY <1>3, <1>4, <1>5

(* The requests of the pages and the refresh, the rest unchanged.          *)
LEMMA ClientKeeps ==
  ASSUME SessionInv, UNCHANGED <<backend, page, login, logout, overtaken>>,
         refresh' \in Ref, req' \in [Requests -> ReqRow], CallsAreOfOne',
         status = "initializing" => refresh' = refresh /\ req' = req
  PROVE  SessionInv'
<1> USE DEF SessionInv
<1>1. /\ active' = active /\ cookie' = cookie /\ issued' = issued /\ expired' = expired
      /\ store' = store /\ shown' = shown /\ status' = status
      /\ login' = login /\ logout' = logout /\ overtaken' = overtaken
  BY DEF backend, page
<1>2. SessionTyped'
  BY <1>1, TypedSession DEF SessionTyped, SessionTypeOK
<1>3. LoginAlone' /\ PageIsOfOne'
  BY <1>1 DEF LoginAlone, PageIsOfOne, Issued
<1>4. BootstrapAlone'
  BY <1>1 DEF BootstrapAlone, Issued
<1>5. QED
  BY <1>2, <1>3, <1>4

LEMMA ReqEffect ==
  ASSUME SessionTyped, NEW i \in Requests, NEW r \in ReqRow, ReqIs(i, r)
  PROVE  /\ req'[i] = r /\ (\A j \in Requests \ {i} : req'[j] = req[j])
         /\ req' \in [Requests -> ReqRow]
  BY DEF ReqIs, SessionTyped

LEMMA SendKeeps ==
  ASSUME SessionInv, NEW i \in Requests, Send(i) PROVE SessionInv'
<1> DEFINE r == [pc |-> "sent", token |-> store, by |-> shown, retried |-> FALSE]
<1>1. r \in ReqRow /\ r.pc = "sent" /\ r.token = store /\ r.by = shown
  BY DEF SessionInv, SessionTyped, SessionTypeOK, ReqRow, InFlight
<1>2. ReqIs(i, r) /\ status = "authenticated"
      /\ UNCHANGED <<backend, page, login, logout, refresh, overtaken>>
  BY DEF Send
<1> HIDE DEF r
<1>3. /\ req'[i] = r /\ (\A j \in Requests \ {i} : req'[j] = req[j])
      /\ req' \in [Requests -> ReqRow]
  BY <1>1, <1>2, ReqEffect DEF SessionInv
<1>4. /\ issued' = issued /\ store' = store /\ shown' = shown /\ status' = status
      /\ overtaken' = overtaken /\ refresh' = refresh /\ refresh' \in Ref
  BY <1>2 DEF backend, page, SessionInv, SessionTyped
<1>5. CallsAreOfOne'
  BY <1>1, <1>2, <1>3, <1>4 DEF SessionInv, CallsAreOfOne, PageIsOfOne, Issued, InFlight
<1>6. QED
  BY <1>2, <1>3, <1>4, <1>5, ClientKeeps

LEMMA AnswerKeeps ==
  ASSUME SessionInv, NEW i \in Requests, Serve(i) \/ Lose(i) PROVE SessionInv'
<1>1. PICK pc \in {"served", "denied", "failed"} :
        /\ ReqIs(i, [req[i] EXCEPT !.pc = pc])
        /\ pc = "served" => Valid(req[i].token)
  BY DEF Serve, Lose
<1> DEFINE r == [req[i] EXCEPT !.pc = pc]
<1>2. r \in ReqRow /\ r.pc = pc /\ r.token = req[i].token /\ r.by = req[i].by
  BY DEF SessionInv, SessionTyped, ReqRow, InFlight
<1>3. ReqIs(i, r) /\ req[i].pc = "sent"
      /\ UNCHANGED <<backend, page, login, logout, refresh, overtaken>>
  BY <1>1 DEF Serve, Lose
<1> HIDE DEF r
<1>4. /\ req'[i] = r /\ (\A j \in Requests \ {i} : req'[j] = req[j])
      /\ req' \in [Requests -> ReqRow]
  BY <1>2, <1>3, ReqEffect DEF SessionInv
<1>5. /\ issued' = issued /\ store' = store /\ shown' = shown /\ status' = status
      /\ overtaken' = overtaken /\ refresh' = refresh /\ refresh' \in Ref
  BY <1>3 DEF backend, page, SessionInv, SessionTyped
<1>6. CallsAreOfOne'
  BY <1>1, <1>2, <1>3, <1>4, <1>5 DEF SessionInv, CallsAreOfOne, Issued, InFlight, Valid
<1>7. status # "initializing"
  BY <1>3 DEF SessionInv, BootstrapAlone
<1>8. QED
  BY <1>3, <1>4, <1>5, <1>6, <1>7, ClientKeeps

LEMMA DeniedKeeps ==
  ASSUME SessionInv, NEW i \in Requests, Denied(i) PROVE SessionInv'
<1>1. PICK r \in ReqRow :
        /\ ReqIs(i, r) /\ r.token = req[i].token /\ r.by = req[i].by
        /\ r.pc \in {"failed", "waiting"}
  <2>1. CASE req[i].retried
    <3>1. [req[i] EXCEPT !.pc = "failed"] \in ReqRow
      BY DEF SessionInv, SessionTyped, ReqRow
    <3>2. QED
      BY <2>1, <3>1 DEF Denied, SessionInv, SessionTyped, ReqRow
  <2>2. CASE ~req[i].retried
    <3>1. [req[i] EXCEPT !.pc = "waiting", !.retried = TRUE] \in ReqRow
      BY DEF SessionInv, SessionTyped, ReqRow, InFlight
    <3>2. QED
      BY <2>2, <3>1 DEF Denied, SessionInv, SessionTyped, ReqRow
  <2>3. QED
    BY <2>1, <2>2
<1>2. /\ req[i].pc = "denied" /\ UNCHANGED <<backend, page, login, logout, overtaken>>
      /\ refresh' = refresh \/ (refresh.pc = "none" /\ refresh' = [Quiet EXCEPT !.pc = "sent"])
  BY DEF Denied
<1>3. refresh' \in Ref /\ (refresh' = refresh \/ refresh'.pc = "sent")
  BY <1>2, QuietType DEF SessionInv, SessionTyped, Ref
<1>4. /\ req'[i] = r /\ (\A j \in Requests \ {i} : req'[j] = req[j])
      /\ req' \in [Requests -> ReqRow]
  BY <1>1, ReqEffect DEF SessionInv
<1>5. /\ issued' = issued /\ store' = store /\ shown' = shown /\ status' = status
      /\ overtaken' = overtaken
  BY <1>2 DEF backend, page
<1>6. CallsAreOfOne'
  BY <1>1, <1>2, <1>3, <1>4, <1>5 DEF SessionInv, CallsAreOfOne, Issued, InFlight
<1>7. status # "initializing"
  BY <1>2 DEF SessionInv, BootstrapAlone
<1>8. QED
  BY <1>2, <1>3, <1>4, <1>6, <1>7, ClientKeeps

(* A token is issued to the user of the cookie, or of a login.             *)
LEMMA IssueKeepsParts ==
  ASSUME SessionInv, NEW u \in Users, Signs(u), issued' = Append(issued, u)
  PROVE  /\ \A n, v : Issued(n, v) => n \in DOMAIN issued' /\ issued'[n] = v
         /\ expired \subseteq DOMAIN issued'
         /\ \A n \in DOMAIN issued : n \in DOMAIN issued' /\ issued'[n] = issued[n]
<1>1. /\ DOMAIN issued \subseteq DOMAIN issued'
      /\ \A n \in DOMAIN issued : issued'[n] = issued[n]
  BY IssueEffect DEF SessionInv
<1>2. QED
  BY <1>1 DEF Issued, SessionInv, SessionTyped, SessionTypeOK

LEMMA ServeRefreshKeeps == SessionInv /\ (ServeRefresh \/ LoseRefresh) => SessionInv'
<1> SUFFICES ASSUME SessionInv, ServeRefresh \/ LoseRefresh PROVE SessionInv'
  OBVIOUS
<1>1. refresh.pc = "sent" /\ UNCHANGED <<active, cookie, expired, page, login, logout, req, overtaken>>
  BY DEF ServeRefresh, LoseRefresh, backend
<1>2. CASE issued' = issued /\ refresh' = [refresh EXCEPT !.pc = "refused"]
  <2>1. refresh' \in Ref /\ refresh'.pc = "refused"
    BY <1>2 DEF SessionInv, SessionTyped, Ref
  <2>2. /\ store' = store /\ shown' = shown /\ status' = status /\ req' = req
        /\ overtaken' = overtaken /\ req' \in [Requests -> ReqRow]
    BY <1>1 DEF page, SessionInv, SessionTyped
  <2>3. CallsAreOfOne'
    BY <1>1, <1>2, <2>1, <2>2 DEF SessionInv, CallsAreOfOne, Issued
  <2>4. status # "initializing"
    BY <1>1 DEF SessionInv, BootstrapAlone
  <2>5. QED
    BY <1>1, <1>2, <2>1, <2>2, <2>3, <2>4, ClientKeeps DEF backend
<1>3. CASE Signs(cookie) /\ issued' = Append(issued, cookie)
           /\ refresh' = [pc |-> "granted", token |-> NextToken]
  <2>1. cookie \in Users
    BY <1>3 DEF Signs
  <2>2. /\ issued' \in Seq(Users) /\ Len(issued') <= MaxTokens
        /\ NextToken \in DOMAIN issued' /\ issued'[NextToken] = cookie /\ NextToken \in Tokens
    BY <1>3, <2>1, IssueEffect DEF SessionInv
  <2>3. /\ \A n, v : Issued(n, v) => n \in DOMAIN issued' /\ issued'[n] = v
        /\ expired \subseteq DOMAIN issued'
        /\ \A n \in DOMAIN issued : n \in DOMAIN issued' /\ issued'[n] = issued[n]
    BY <1>3, <2>1, IssueKeepsParts
  <2>4. refresh' \in Ref /\ refresh'.pc = "granted" /\ refresh'.token = NextToken
    BY <1>3, <2>2 DEF Ref
  <2>5. /\ active' = active /\ cookie' = cookie /\ expired' = expired /\ login' = login
        /\ store' = store /\ shown' = shown /\ status' = status /\ req' = req
        /\ overtaken' = overtaken /\ logout' = logout
    BY <1>1 DEF page
  <2>6. status # "initializing"
    BY <1>1 DEF SessionInv, BootstrapAlone
  <2>7. ~overtaken => status = "authenticated" /\ cookie = shown
    BY <1>1, <2>1, QuietType DEF SessionInv, CallsAreOfOne, PageIsOfOne
  <2>8. SessionTyped'
    BY <2>2, <2>3, <2>4, <2>5, TypedSession DEF SessionInv, SessionTyped, SessionTypeOK
  <2>9. LoginAlone'
    BY <2>3, <2>5 DEF SessionInv, LoginAlone
  <2>10. BootstrapAlone'
    BY <2>5, <2>6 DEF BootstrapAlone
  <2>11. PageIsOfOne'
    BY <2>3, <2>5 DEF SessionInv, PageIsOfOne, Issued
  <2>12. CallsAreOfOne'
    <3> SUFFICES ASSUME ~overtaken PROVE CallsAreOfOne'
      BY <2>5 DEF CallsAreOfOne
    <3>1. Issued(refresh.token, shown)'
      BY <2>2, <2>4, <2>5, <2>7 DEF Issued
    <3>2. ASSUME NEW i \in Requests
          PROVE  /\ req[i].pc \in InFlight =>
                      /\ status = "authenticated" /\ req[i].by = shown
                      /\ req[i].token # NoToken => Issued(req[i].token, shown)'
                 /\ req[i].pc = "served" => Issued(req[i].token, req[i].by)'
      BY <2>3, <2>5 DEF SessionInv, CallsAreOfOne, Issued
    <3>3. QED
      BY <2>5, <2>7, <3>1, <3>2 DEF CallsAreOfOne
  <2>13. QED
    BY <2>8, <2>9, <2>10, <2>11, <2>12 DEF SessionInv
<1>4. QED
  BY <1>2, <1>3 DEF ServeRefresh, LoseRefresh, backend

(* The answer of the refresh, told to all that wait for it.                *)
LEMMA GrantedKeeps == SessionInv /\ Granted => SessionInv'
<1> SUFFICES ASSUME SessionInv, Granted PROVE SessionInv'
  OBVIOUS
<1>1. /\ active' = active /\ cookie' = cookie /\ issued' = issued /\ expired' = expired
      /\ shown' = shown /\ status' = status /\ login' = login /\ logout' = logout
      /\ overtaken' = overtaken /\ refresh.pc = "granted" /\ refresh' = Quiet
      /\ store' = refresh.token
  BY DEF Granted, backend
<1>2. refresh.token \in Tokens /\ refresh' \in Ref /\ refresh'.pc = "none"
  BY <1>1, QuietType DEF SessionInv, SessionTyped, Ref, Quiet
<1>3. \A i \in Requests :
        /\ req'[i] \in ReqRow /\ req'[i].by = req[i].by
        /\ \/ req'[i] = req[i]
           \/ req[i].pc = "waiting" /\ req'[i].pc = "sent" /\ req'[i].token = refresh.token
  <2> SUFFICES ASSUME NEW i \in Requests
               PROVE  /\ req'[i] \in ReqRow /\ req'[i].by = req[i].by
                      /\ \/ req'[i] = req[i]
                         \/ /\ req[i].pc = "waiting" /\ req'[i].pc = "sent"
                            /\ req'[i].token = refresh.token
    OBVIOUS
  <2>1. req[i] \in ReqRow
    BY DEF SessionInv, SessionTyped
  <2> DEFINE r == [req[i] EXCEPT !.pc = "sent", !.token = refresh.token]
  <2>2. r \in ReqRow /\ r.pc = "sent" /\ r.token = refresh.token /\ r.by = req[i].by
    BY <1>2, <2>1 DEF ReqRow, InFlight
  <2>3. req'[i] = IF req[i].pc = "waiting" THEN r ELSE req[i]
    BY DEF Granted, Told
  <2> HIDE DEF r
  <2>4. QED
    BY <2>1, <2>2, <2>3
<1>4. req' \in [Requests -> ReqRow]
  BY <1>3 DEF Granted
<1>5. status # "initializing" /\ (~overtaken => status = "authenticated" /\ Issued(refresh.token, shown))
  BY <1>1 DEF SessionInv, BootstrapAlone, CallsAreOfOne
<1>6. SessionTyped'
  BY <1>1, <1>2, <1>4, TypedSession DEF SessionInv, SessionTyped, SessionTypeOK
<1>7. LoginAlone' /\ BootstrapAlone' /\ PageIsOfOne'
  BY <1>1, <1>5 DEF SessionInv, LoginAlone, BootstrapAlone, PageIsOfOne, Issued
<1>8. CallsAreOfOne'
  BY <1>1, <1>2, <1>3, <1>5 DEF SessionInv, CallsAreOfOne, Issued, InFlight
<1>9. QED
  BY <1>6, <1>7, <1>8 DEF SessionInv

LEMMA RefusedKeeps == SessionInv /\ Refused => SessionInv'
<1> SUFFICES ASSUME SessionInv, Refused PROVE SessionInv'
  OBVIOUS
<1>1. ClearSession /\ UNCHANGED <<backend, login, logout>> /\ refresh' = Quiet
  BY DEF Refused
<1>2. \A i \in Requests : /\ req'[i] \in ReqRow
                          /\ req'[i] = req[i] \/ req'[i].pc = "failed"
  <2> SUFFICES ASSUME NEW i \in Requests
               PROVE  req'[i] \in ReqRow /\ (req'[i] = req[i] \/ req'[i].pc = "failed")
    OBVIOUS
  <2>1. req[i] \in ReqRow
    BY DEF SessionInv, SessionTyped
  <2>2. [req[i] EXCEPT !.pc = "failed"] \in ReqRow
    BY <2>1 DEF ReqRow
  <2>3. req'[i] = IF req[i].pc = "waiting" THEN [req[i] EXCEPT !.pc = "failed"] ELSE req[i]
    BY DEF Refused, Told
  <2>4. QED
    BY <2>1, <2>2, <2>3 DEF ReqRow
<1>3. req' \in [Requests -> ReqRow]
  BY <1>2 DEF Refused
<1>4. refresh' \in Ref /\ logout' \in {"none", "sent", "answered"}
  BY <1>1, QuietType DEF SessionInv, SessionTyped, SessionTypeOK
<1>5. \A i \in Requests : req'[i].pc = "served" => req'[i] = req[i]
  BY <1>2
<1>6. QED
  BY <1>1, <1>3, <1>4, <1>5, ClearKeeps

(* Signing in and out.                                                     *)
LEMMA BootstrapKeeps == SessionInv /\ (Bootstrap \/ Me \/ LoseBootstrap \/ AnswerLogout) => SessionInv'
<1> SUFFICES ASSUME SessionInv, Bootstrap \/ Me \/ LoseBootstrap \/ AnswerLogout PROVE SessionInv'
  OBVIOUS
<1>1. UNCHANGED <<active, cookie, expired, login, refresh, req>>
  BY DEF Bootstrap, Me, LoseBootstrap, AnswerLogout, backend
<1>2. refresh' \in Ref /\ req' \in [Requests -> ReqRow] /\ logout' \in {"none", "sent", "answered"}
  BY <1>1 DEF SessionInv, SessionTyped, SessionTypeOK, Bootstrap, Me, LoseBootstrap, AnswerLogout
<1>3. CASE ClearSession /\ issued' = issued
  BY <1>1, <1>2, <1>3, ClearKeeps DEF backend
<1>4. CASE /\ status = "initializing" /\ store = NoToken /\ Signs(cookie)
           /\ issued' = Append(issued, cookie) /\ store' = NextToken
           /\ UNCHANGED <<shown, status, overtaken, logout>>
  <2>1. cookie \in Users
    BY <1>4 DEF Signs
  <2>2. /\ issued' \in Seq(Users) /\ Len(issued') <= MaxTokens
        /\ NextToken \in DOMAIN issued' /\ issued'[NextToken] = cookie /\ NextToken \in Tokens
    BY <1>4, <2>1, IssueEffect DEF SessionInv
  <2>3. /\ \A n, v : Issued(n, v) => n \in DOMAIN issued' /\ issued'[n] = v
        /\ expired \subseteq DOMAIN issued'
    BY <1>4, <2>1, IssueKeepsParts
  <2>4. SessionTyped'
    BY <1>1, <1>2, <1>4, <2>2, <2>3, TypedSession DEF SessionInv, SessionTyped, SessionTypeOK
  <2>5. LoginAlone' /\ PageIsOfOne'
    BY <1>1, <1>4 DEF SessionInv, LoginAlone, PageIsOfOne
  <2>6. BootstrapAlone'
    BY <1>1, <1>4, <2>2 DEF SessionInv, BootstrapAlone, Issued
  <2>7. CallsAreOfOne'
    BY <1>1, <1>4, <2>3 DEF SessionInv, BootstrapAlone, CallsAreOfOne, Issued, InFlight
  <2>8. QED
    BY <2>4, <2>5, <2>6, <2>7 DEF SessionInv
<1>5. CASE /\ status = "initializing" /\ store # NoToken
           /\ shown' = issued[store] /\ status' = "authenticated"
           /\ UNCHANGED <<store, overtaken, issued, logout>>
  <2>1. /\ store \in DOMAIN issued /\ (~overtaken => cookie \in {issued[store], Nobody})
        /\ refresh.pc = "none"
        /\ (\A i \in Requests : req[i].pc = "idle") /\ login.pc = "none"
    BY <1>5 DEF SessionInv, BootstrapAlone, LoginAlone
  <2>2. shown' = issued[store] /\ shown' \in Users
    BY <1>5, <2>1 DEF SessionInv, SessionTyped, SessionTypeOK
  <2>3. SessionTyped'
    BY <1>1, <1>2, <1>5, <2>2, TypedSession DEF SessionInv, SessionTyped, SessionTypeOK
  <2>4. LoginAlone' /\ BootstrapAlone' /\ PageIsOfOne'
    BY <1>1, <1>5, <2>1, <2>2 DEF LoginAlone, BootstrapAlone, PageIsOfOne, Issued
  <2>5. CallsAreOfOne'
    BY <1>1, <1>5, <2>1 DEF CallsAreOfOne, InFlight
  <2>6. QED
    BY <2>3, <2>4, <2>5 DEF SessionInv
<1>6. QED
  BY <1>3, <1>4, <1>5 DEF Bootstrap, Me, LoseBootstrap, AnswerLogout, backend

(* Steps that leave the page, the tokens and the requests alone.           *)
LEMMA CookieKeeps ==
  ASSUME SessionInv, UNCHANGED <<issued, page, refresh, req, overtaken>>,
         active' \in [Users -> BOOLEAN], expired' \subseteq DOMAIN issued,
         login' \in Ref, logout' \in {"none", "sent", "answered"},
         cookie' \in {cookie, Nobody}, LoginAlone', BootstrapAlone'
  PROVE  SessionInv'
<1>1. /\ issued' = issued /\ store' = store /\ shown' = shown /\ status' = status
      /\ refresh' = refresh /\ req' = req /\ overtaken' = overtaken
  BY DEF page
<1>2. SessionTyped'
  BY <1>1, TypedSession DEF SessionInv, SessionTyped, SessionTypeOK
<1>3. PageIsOfOne'
  BY <1>1 DEF SessionInv, PageIsOfOne, Issued
<1>4. CallsAreOfOne'
  BY <1>1 DEF SessionInv, CallsAreOfOne, Issued
<1>5. QED
  BY <1>2, <1>3, <1>4 DEF SessionInv

LEMMA SetActiveKeeps ==
  ASSUME SessionInv, NEW u \in Users, SetActive(u) PROVE SessionInv'
<1>1. active' \in [Users -> BOOLEAN]
  BY DEF SetActive, SessionInv, SessionTyped, SessionTypeOK
<1>2. UNCHANGED <<cookie, issued, expired, page, login, logout, refresh, req, overtaken>>
  BY DEF SetActive, page
<1>3. LoginAlone' /\ BootstrapAlone'
  BY <1>2 DEF page, SessionInv, LoginAlone, BootstrapAlone, Issued
<1>4. QED
  BY <1>1, <1>2, <1>3, CookieKeeps DEF SessionInv, SessionTyped, SessionTypeOK

LEMMA ExpireKeeps ==
  ASSUME SessionInv, NEW n \in DOMAIN issued, Expire(n) PROVE SessionInv'
<1>1. expired' \subseteq DOMAIN issued
  BY DEF Expire, SessionInv, SessionTyped, SessionTypeOK
<1>2. UNCHANGED <<active, cookie, issued, page, login, logout, refresh, req, overtaken>>
  BY DEF Expire, page
<1>3. LoginAlone' /\ BootstrapAlone'
  BY <1>2 DEF page, SessionInv, LoginAlone, BootstrapAlone, Issued
<1>4. QED
  BY <1>1, <1>2, <1>3, CookieKeeps DEF SessionInv, SessionTyped, SessionTypeOK

LEMMA LoginKeeps == SessionInv /\ (Login \/ RefuseLogin) => SessionInv'
<1> SUFFICES ASSUME SessionInv, Login \/ RefuseLogin PROVE SessionInv'
  OBVIOUS
<1>1. UNCHANGED <<active, cookie, issued, expired, page, logout, refresh, req, overtaken>>
  BY DEF Login, RefuseLogin, backend
<1>2. login' \in Ref /\ login'.pc \in {"sent", "refused"} /\ status = "unauthenticated"
  BY SessionAssumption
     DEF Login, RefuseLogin, SessionInv, SessionTyped, LoginAlone, Ref, Tokens, NoToken
<1>3. LoginAlone' /\ BootstrapAlone'
  BY <1>1, <1>2 DEF page, LoginAlone, BootstrapAlone
<1>4. QED
  BY <1>1, <1>2, <1>3, CookieKeeps DEF SessionInv, SessionTyped, SessionTypeOK

LEMMA LogoutKeeps == SessionInv /\ (Logout \/ ServeLogout \/ LoseLogout) => SessionInv'
<1> SUFFICES ASSUME SessionInv, Logout \/ ServeLogout \/ LoseLogout PROVE SessionInv'
  OBVIOUS
<1>1. UNCHANGED <<active, issued, expired, page, login, refresh, req, overtaken>>
  BY DEF Logout, ServeLogout, LoseLogout, backend
<1>2. /\ cookie' \in {cookie, Nobody} /\ logout' \in {"none", "sent", "answered"}
      /\ status # "initializing"
  BY DEF Logout, ServeLogout, LoseLogout, backend, SessionInv, BootstrapAlone
<1>3. LoginAlone' /\ BootstrapAlone'
  BY <1>1, <1>2 DEF page, SessionInv, LoginAlone, BootstrapAlone
<1>4. QED
  BY <1>1, <1>2, <1>3, CookieKeeps DEF SessionInv, SessionTyped, SessionTypeOK

LEMMA ServeLoginKeeps ==
  ASSUME SessionInv, NEW u \in Users, ServeLogin(u) PROVE SessionInv'
<1>1. /\ active' = active /\ expired' = expired /\ store' = store /\ shown' = shown
      /\ status' = status /\ logout' = logout /\ refresh' = refresh /\ req' = req
      /\ overtaken' = overtaken /\ cookie' = u /\ issued' = Append(issued, u) /\ Signs(u)
      /\ login' = [pc |-> "granted", token |-> NextToken] /\ login.pc = "sent"
  BY DEF ServeLogin, page
<1>2. /\ issued' \in Seq(Users) /\ Len(issued') <= MaxTokens
      /\ NextToken \in DOMAIN issued' /\ issued'[NextToken] = u /\ NextToken \in Tokens
  BY <1>1, IssueEffect DEF SessionInv
<1>3. /\ \A n, v : Issued(n, v) => n \in DOMAIN issued' /\ issued'[n] = v
      /\ expired \subseteq DOMAIN issued'
  BY <1>1, IssueKeepsParts
<1>4. login' \in Ref /\ login'.pc = "granted" /\ login'.token = NextToken
  BY <1>1, <1>2 DEF Ref
<1>5. status = "unauthenticated"
  BY <1>1 DEF SessionInv, LoginAlone
<1>6. SessionTyped'
  BY <1>1, <1>2, <1>3, <1>4, TypedSession DEF SessionInv, SessionTyped, SessionTypeOK
<1>7. LoginAlone' /\ BootstrapAlone' /\ PageIsOfOne'
  BY <1>1, <1>2, <1>4, <1>5 DEF SessionInv, LoginAlone, BootstrapAlone, PageIsOfOne
<1>8. CallsAreOfOne'
  BY <1>1, <1>3, <1>5 DEF SessionInv, CallsAreOfOne, Issued
<1>9. QED
  BY <1>6, <1>7, <1>8 DEF SessionInv

LEMMA AnswerLoginKeeps == SessionInv /\ AnswerLogin => SessionInv'
<1> SUFFICES ASSUME SessionInv, AnswerLogin PROVE SessionInv'
  OBVIOUS
<1>1. /\ active' = active /\ cookie' = cookie /\ issued' = issued /\ expired' = expired
      /\ logout' = logout /\ refresh' = refresh /\ req' = req /\ overtaken' = overtaken
      /\ login' = Quiet /\ login.pc \in {"granted", "refused"}
  BY DEF AnswerLogin, backend
<1>2. login' \in Ref /\ login'.pc = "none" /\ status = "unauthenticated"
  BY <1>1, QuietType DEF SessionInv, LoginAlone, Quiet
<1>3. ~overtaken => refresh.pc = "none" /\ \A i \in Requests : req[i].pc \notin InFlight
  BY <1>2 DEF SessionInv, CallsAreOfOne
<1>4. CASE login.pc = "refused"
  <2>1. store' = store /\ shown' = shown /\ status' = status
    BY <1>4 DEF AnswerLogin, page
  <2>2. LoginAlone' /\ BootstrapAlone'
    BY <1>1, <1>2, <2>1 DEF LoginAlone, BootstrapAlone
  <2>3. QED
    BY <1>1, <1>2, <2>1, <2>2, CookieKeeps DEF page, SessionInv, SessionTyped, SessionTypeOK
<1>5. CASE login.pc = "granted"
  <2>1. store' = login.token /\ shown' = issued[login.token] /\ status' = "authenticated"
    BY <1>5 DEF AnswerLogin
  <2>2. Issued(login.token, shown') /\ shown' \in Users
        /\ (~overtaken => cookie \in {shown', Nobody}) /\ login.token \in Tokens
    BY <1>5, <2>1 DEF SessionInv, LoginAlone, Issued, SessionTyped, SessionTypeOK, Ref
  <2>3. SessionTyped'
    BY <1>1, <1>2, <2>1, <2>2, TypedSession DEF SessionInv, SessionTyped, SessionTypeOK
  <2>4. LoginAlone' /\ BootstrapAlone' /\ PageIsOfOne'
    BY <1>1, <1>2, <2>1, <2>2 DEF LoginAlone, BootstrapAlone, PageIsOfOne, Issued
  <2>5. CallsAreOfOne'
    BY <1>1, <1>3, <2>1 DEF SessionInv, CallsAreOfOne, Issued
  <2>6. QED
    BY <2>3, <2>4, <2>5 DEF SessionInv
<1>6. QED
  BY <1>1, <1>4, <1>5

LEMMA OtherTabKeeps ==
  ASSUME SessionInv, NEW u \in Users \cup {Nobody}, OtherTab(u) PROVE SessionInv'
<1>1. /\ active' = active /\ issued' = issued /\ expired' = expired /\ store' = store
      /\ shown' = shown /\ status' = status /\ login' = login /\ logout' = logout
      /\ refresh' = refresh /\ req' = req /\ cookie' = u
  BY DEF OtherTab, page
<1>2. /\ overtaken' \in BOOLEAN
      /\ ~overtaken' => ~overtaken /\ (InSession => u \in {Nobody, shown})
  BY DEF OtherTab, SessionInv, SessionTyped, SessionTypeOK
<1>3. SessionTyped'
  BY <1>1, <1>2, TypedSession DEF SessionInv, SessionTyped, SessionTypeOK
<1>4. LoginAlone'
  <2>1. ~overtaken' /\ login.pc = "granted" => u = Nobody
    <3>1. ~overtaken /\ login.pc = "granted" => shown = Nobody
      BY DEF SessionInv, LoginAlone, PageIsOfOne
    <3>2. QED
      BY <1>2, <3>1 DEF InSession
  <2>2. QED
    BY <1>1, <2>1 DEF SessionInv, LoginAlone
<1>5. BootstrapAlone'
  <2>1. ~overtaken' /\ status = "initializing" /\ store # NoToken => u = Nobody
    BY <1>2 DEF InSession, SessionInv, BootstrapAlone
  <2>2. QED
    BY <1>1, <2>1 DEF SessionInv, BootstrapAlone
<1>6. PageIsOfOne'
  BY <1>1, <1>2 DEF InSession, SessionInv, PageIsOfOne, Issued
<1>7. CallsAreOfOne'
  BY <1>1, <1>2 DEF SessionInv, CallsAreOfOne, Issued
<1>8. QED
  BY <1>3, <1>4, <1>5, <1>6, <1>7 DEF SessionInv

LEMMA InitSessionInv == SessionInit => SessionInv
<1> SUFFICES ASSUME SessionInit PROVE SessionInv
  OBVIOUS
<1>1. /\ login \in Ref /\ refresh \in Ref /\ req \in [Requests -> ReqRow]
      /\ login.pc = "none" /\ refresh.pc = "none" /\ \A i \in Requests : req[i].pc = "idle"
  BY QuietType DEF SessionInit, Quiet, Unsent
<1>2. SessionTyped
  <2>1. issued \in Seq(Users) /\ Len(issued) <= MaxTokens /\ expired \subseteq DOMAIN issued
    BY SessionAssumption DEF SessionInit
  <2>2. /\ active \in [Users -> BOOLEAN] /\ cookie \in Users \cup {Nobody} /\ store \in Tokens
        /\ shown \in Users \cup {Nobody} /\ status = "initializing" /\ logout = "none"
        /\ overtaken \in BOOLEAN
    BY QuietType DEF SessionInit
  <2>3. QED
    BY <1>1, <2>1, <2>2 DEF SessionTyped, SessionTypeOK, Ref
<1>3. LoginAlone /\ BootstrapAlone /\ PageIsOfOne /\ CallsAreOfOne
  BY <1>1 DEF SessionInit, LoginAlone, BootstrapAlone, PageIsOfOne, CallsAreOfOne, InFlight
<1>4. QED
  BY <1>2, <1>3 DEF SessionInv

LEMMA StepSessionInv == SessionInv /\ [SessionNext]_sessionVars => SessionInv'
<1> SUFFICES ASSUME SessionInv, [SessionNext]_sessionVars PROVE SessionInv'
  OBVIOUS
<1>1. ASSUME NEW u \in Users, SetActive(u) \/ ServeLogin(u) PROVE SessionInv'
  BY <1>1, SetActiveKeeps, ServeLoginKeeps
<1>2. ASSUME NEW n \in DOMAIN issued, Expire(n) PROVE SessionInv'
  BY <1>2, ExpireKeeps
<1>3. CASE Bootstrap \/ Me \/ LoseBootstrap \/ AnswerLogout
  BY <1>3, BootstrapKeeps
<1>4. CASE Login \/ RefuseLogin \/ AnswerLogin
  BY <1>4, LoginKeeps, AnswerLoginKeeps
<1>5. CASE Logout \/ ServeLogout \/ LoseLogout
  BY <1>5, LogoutKeeps
<1>6. ASSUME NEW u \in Users \cup {Nobody}, OtherTab(u) PROVE SessionInv'
  BY <1>6, OtherTabKeeps
<1>7. ASSUME NEW i \in Requests, Send(i) \/ Lose(i) \/ Network(i) PROVE SessionInv'
  BY <1>7, SendKeeps, AnswerKeeps, DeniedKeeps DEF Network
<1>8. CASE Refreshing
  BY <1>8, ServeRefreshKeeps, GrantedKeeps, RefusedKeeps DEF Refreshing
<1>9. CASE UNCHANGED sessionVars
  <2>1. UNCHANGED <<backend, page, login, logout, refresh, req, overtaken>>
    BY <1>9 DEF sessionVars, backend, page
  <2>2. LoginAlone' /\ BootstrapAlone'
    BY <2>1 DEF backend, page, SessionInv, LoginAlone, BootstrapAlone, Issued
  <2>3. QED
    BY <2>1, <2>2, CookieKeeps DEF backend, SessionInv, SessionTyped, SessionTypeOK
<1>10. QED
  BY <1>1, <1>2, <1>3, <1>4, <1>5, <1>6, <1>7, <1>8, <1>9 DEF SessionNext

(* The session keeps its type: tokens name users, no more are issued than  *)
(* the bound.                                                              *)
THEOREM SessionsAreTyped == SessionSpec => []SessionTypeOK
<1>1. SessionInv => SessionTypeOK
  BY DEF SessionInv, SessionTyped
<1>2. QED
  BY <1>1, InitSessionInv, StepSessionInv, PTL DEF SessionSpec

(* Token, shown user and the requests served belong together, for any      *)
(* number of users, requests and refreshes, until a session ends with some *)
(* of its requests under way or another tab signs in as someone else.      *)
THEOREM SessionIsOfOneUser == SessionSpec => []OneSession
<1>1. SessionInv => OneSession
  BY DEF SessionInv, PageIsOfOne, CallsAreOfOne, Issued, OneSession
<1>2. QED
  BY <1>1, InitSessionInv, StepSessionInv, PTL DEF SessionSpec

-----------------------------------------------------------------------------
(* QAWorkflow.                                                             *)

USE AttemptsAssumption, BudgetAssumption

LEMMA NoReportType == NoReport \in Report
  BY DEF NoReport, Report

LEMMA InitInv == Init => WorkflowInv
<1> SUFFICES ASSUME Init PROVE WorkflowInv
  OBVIOUS
<1>1. TypeOK
  <2>1. rows \in [Generations -> Row \cup {NoRow}]
    BY DEF Init
  <2>2. report \in Report /\ files \in Generations \cup {None} /\ run \in Generations \cup {None}
    BY NoReportType DEF Init
  <2>3. made \in 0..(Budget + MAX_AUTOMATION_ATTEMPTS) /\ attempts \in Nat /\ unseen \in Nat
    BY DEF Init
  <2>4. stage \in Nodes \cup Gates \cup {"END"} /\ decision \in Decisions \cup {"none"}
    BY DEF Init, Nodes
  <2>5. QED
    BY <2>1, <2>2, <2>3, <2>4 DEF Init, TypeOK
<1>2. CountersAgree /\ ConsentIsFresh /\ GateSeesVerdict /\ RunIsCurrent
  BY DEF Init, CountersAgree, ConsentIsFresh, GateSeesVerdict, RunIsCurrent, None
<1>3. QED
  BY <1>1, <1>2 DEF WorkflowInv

(* The nodes that change the stage alone, and those of the cases. *)
LEMMA AnalyseKeeps == WorkflowInv /\ Analyse => WorkflowInv'
  BY DEF WorkflowInv, TypeOK, CountersAgree, ConsentIsFresh, GateSeesVerdict, RunIsCurrent, Analyse,
         Nodes, Gates, Saved

LEMMA PlanKeeps == WorkflowInv /\ Plan => WorkflowInv'
  BY DEF WorkflowInv, TypeOK, CountersAgree, ConsentIsFresh, GateSeesVerdict, RunIsCurrent, Plan,
         Nodes, Gates

LEMMA GenerateCasesKeeps == WorkflowInv /\ GenerateCases => WorkflowInv'
  BY DEF WorkflowInv, TypeOK, CountersAgree, ConsentIsFresh, GateSeesVerdict, RunIsCurrent, GenerateCases,
         Nodes, Gates

LEMMA ClassifyFailuresKeeps == WorkflowInv /\ ClassifyFailures => WorkflowInv'
  BY DEF WorkflowInv, TypeOK, CountersAgree, ConsentIsFresh, GateSeesVerdict, RunIsCurrent,
         ClassifyFailures, Nodes, Gates

LEMMA GenerateReportKeeps == WorkflowInv /\ GenerateReport => WorkflowInv'
  BY DEF WorkflowInv, TypeOK, CountersAgree, ConsentIsFresh, GateSeesVerdict, RunIsCurrent,
         GenerateReport, Nodes, Gates, None

LEMMA ExecuteTestsKeeps == WorkflowInv /\ ExecuteTests => WorkflowInv'
  BY DEF WorkflowInv, TypeOK, CountersAgree, ConsentIsFresh, GateSeesVerdict, RunIsCurrent,
         ExecuteTests, Nodes, Gates, None

LEMMA StartAgainKeeps == WorkflowInv /\ StartAgain => WorkflowInv'
  BY DEF WorkflowInv, TypeOK, CountersAgree, ConsentIsFresh, GateSeesVerdict, RunIsCurrent,
         StartAgain, Nodes, Gates

LEMMA NewThreadKeeps == WorkflowInv /\ NewThread => WorkflowInv'
<1> SUFFICES ASSUME WorkflowInv, NewThread PROVE WorkflowInv'
  OBVIOUS
<1>1. report' \in Report
  BY NoReportType DEF NewThread
<1>2. TypeOK'
  BY <1>1 DEF WorkflowInv, TypeOK, NewThread, Nodes
<1>3. CountersAgree' /\ ConsentIsFresh' /\ GateSeesVerdict' /\ RunIsCurrent'
  BY DEF WorkflowInv, TypeOK, CountersAgree, ConsentIsFresh, GateSeesVerdict, RunIsCurrent, NewThread
<1>4. QED
  BY <1>2, <1>3 DEF WorkflowInv

LEMMA DecideCasesKeeps ==
  ASSUME NEW d \in Decisions, WorkflowInv, DecideCases(d)
  PROVE  WorkflowInv'
<1>1. stage' \in {"generate_automation", "generate_cases", "END"}
  BY DEF DecideCases, route_after_case_approval
<1>2. TypeOK'
  BY <1>1 DEF WorkflowInv, TypeOK, DecideCases, Nodes, Gates
<1>3. CountersAgree' /\ ConsentIsFresh' /\ GateSeesVerdict' /\ RunIsCurrent'
  BY <1>1 DEF WorkflowInv, TypeOK, CountersAgree, ConsentIsFresh, GateSeesVerdict, RunIsCurrent, DecideCases
<1>4. QED
  BY <1>2, <1>3 DEF WorkflowInv

(* A generation fits into the budget: made <= Budget + unseen and          *)
(* unseen < MAX_AUTOMATION_ATTEMPTS.                                       *)
LEMMA GenerateAutomationKeeps == WorkflowInv /\ GenerateAutomation => WorkflowInv'
<1> SUFFICES ASSUME WorkflowInv, GenerateAutomation PROVE WorkflowInv'
  OBVIOUS
<1>1. /\ made \in Nat /\ unseen \in Nat /\ attempts \in Nat
      /\ unseen < MAX_AUTOMATION_ATTEMPTS /\ unseen <= attempts /\ made <= Budget + unseen
  BY DEF WorkflowInv, TypeOK, CountersAgree, GenerateAutomation
<1>2. made + 1 \in Generations
  BY <1>1 DEF Generations
<1>3. /\ stage' = "validate_code" /\ made' = made + 1 /\ unseen' = unseen + 1
      /\ attempts' = attempts + 1 /\ report' = NoReport
      /\ UNCHANGED <<cases, approvedCases, decision, run, consented, executed, reported>>
  BY DEF GenerateAutomation
<1>4. files' \in Generations \cup {None}
  BY <1>2 DEF GenerateAutomation
<1>5. rows' \in [Generations -> Row \cup {NoRow}]
  <2>1. CASE UNCHANGED rows
    BY <2>1 DEF WorkflowInv, TypeOK
  <2>2. ASSUME NEW p \in Paths, NEW s \in {"draft", "lost"},
               rows' = [rows EXCEPT ![made + 1] = [path |-> p, status |-> s]]
        PROVE  rows' \in [Generations -> Row \cup {NoRow}]
    <3>1. [path |-> p, status |-> s] \in Row
      BY DEF Row, RowStatus
    <3>2. QED
      BY <1>2, <2>2, <3>1 DEF WorkflowInv, TypeOK
  <2>3. QED
    BY <2>1, <2>2 DEF GenerateAutomation
<1>6. TypeOK'
  BY <1>1, <1>2, <1>3, <1>4, <1>5
     DEF WorkflowInv, TypeOK, Nodes, Report, NoReport, Generations
<1>7. CountersAgree' /\ ConsentIsFresh' /\ GateSeesVerdict' /\ RunIsCurrent'
  BY <1>1, <1>3 DEF CountersAgree, ConsentIsFresh, GateSeesVerdict, RunIsCurrent
<1>8. QED
  BY <1>6, <1>7 DEF WorkflowInv

LEMMA ValidateCodeKeeps == WorkflowInv /\ ValidateCode => WorkflowInv'
<1> SUFFICES ASSUME WorkflowInv, ValidateCode PROVE WorkflowInv'
  OBVIOUS
<1>1. /\ report' \in Report /\ report'.of = files
      /\ UNCHANGED <<cases, approvedCases, files, attempts, decision, run, rows,
                     made, unseen, consented, executed, reported>>
  <2>1. PICK p \in {FALSE, files # None} : report' = [of |-> files, passed |-> p]
    BY DEF ValidateCode
  <2>2. files \in Generations \cup {None} /\ p \in BOOLEAN
    BY <2>1 DEF WorkflowInv, TypeOK
  <2>3. QED
    BY <2>1, <2>2 DEF ValidateCode, Report
<1>2. \/ /\ stage' = "await_code_approval"
         /\ report'.passed \/ attempts >= MAX_AUTOMATION_ATTEMPTS
      \/ /\ stage' = "generate_automation"
         /\ ~(attempts >= MAX_AUTOMATION_ATTEMPTS)
  BY DEF ValidateCode, route_after_validation
<1>3. TypeOK'
  BY <1>1, <1>2 DEF WorkflowInv, TypeOK, Nodes, Gates
<1>4. CountersAgree' /\ ConsentIsFresh' /\ GateSeesVerdict' /\ RunIsCurrent'
  BY <1>1, <1>2
     DEF WorkflowInv, TypeOK, CountersAgree, ConsentIsFresh, GateSeesVerdict, RunIsCurrent, ValidateCode
<1>5. QED
  BY <1>3, <1>4 DEF WorkflowInv

LEMMA JudgedType ==
  ASSUME NEW d \in Decisions, rows \in [Generations -> Row \cup {NoRow}],
         files \in Generations \cup {None}
  PROVE  Judged(d) \in [Generations -> Row \cup {NoRow}]
<1> SUFFICES ASSUME NEW g \in NewestRow
             PROVE  [rows[g] EXCEPT !.status = IF d = "regenerate" THEN "draft" ELSE d] \in Row
  BY DEF Judged, NewestRow
<1>1. g \in Generations /\ rows[g] \in Row
  BY DEF NewestRow, Saved, NoRow
<1>2. (IF d = "regenerate" THEN "draft" ELSE d) \in RowStatus
  BY DEF Decisions, RowStatus
<1>3. QED
  BY <1>1, <1>2 DEF Row

LEMMA DecideCodeKeeps ==
  ASSUME NEW d \in Decisions, WorkflowInv, DecideCode(d)
  PROVE  WorkflowInv'
<1>1. rows' \in [Generations -> Row \cup {NoRow}]
  BY JudgedType DEF WorkflowInv, TypeOK, DecideCode
<1>2. /\ stage' \in {"execute_tests", "generate_automation", "END"}
      /\ stage' = "execute_tests" => d = "approved"
      /\ stage' = "generate_automation" => d = "regenerate"
  BY DEF DecideCode, route_after_code_approval
<1>3. /\ consented' \subseteq Generations
      /\ d = "approved" => files = None \/ files \in consented'
  BY DEF WorkflowInv, TypeOK, DecideCode
<1>4. TypeOK'
  BY <1>1, <1>2, <1>3 DEF WorkflowInv, TypeOK, DecideCode, Nodes, Gates
<1>5. CountersAgree' /\ ConsentIsFresh' /\ GateSeesVerdict' /\ RunIsCurrent'
  BY <1>2, <1>3
     DEF WorkflowInv, TypeOK, CountersAgree, ConsentIsFresh, GateSeesVerdict, RunIsCurrent, DecideCode
<1>6. QED
  BY <1>4, <1>5 DEF WorkflowInv

LEMMA StepInv == WorkflowInv /\ [Next]_vars => WorkflowInv'
<1> SUFFICES ASSUME WorkflowInv, [Next]_vars PROVE WorkflowInv'
  OBVIOUS
<1>1. CASE Node
  BY <1>1, AnalyseKeeps, PlanKeeps, GenerateCasesKeeps, GenerateAutomationKeeps,
     ValidateCodeKeeps, ExecuteTestsKeeps, ClassifyFailuresKeeps, GenerateReportKeeps DEF Node
<1>2. ASSUME NEW d \in Decisions, DecideCases(d) \/ DecideCode(d) PROVE WorkflowInv'
  BY <1>2, DecideCasesKeeps, DecideCodeKeeps
<1>3. CASE StartAgain \/ NewThread
  BY <1>3, StartAgainKeeps, NewThreadKeeps
<1>4. CASE UNCHANGED vars
  BY <1>4 DEF WorkflowInv, TypeOK, CountersAgree, ConsentIsFresh, GateSeesVerdict, RunIsCurrent, vars
<1>5. QED
  BY <1>1, <1>2, <1>3, <1>4 DEF Next

(* Every variable of the workflow keeps its type; no generation exceeds    *)
(* what a human or a new thread has asked for.                             *)
THEOREM TypeCorrect == Spec => []TypeOK
<1>1. WorkflowInv => TypeOK
  BY DEF WorkflowInv
<1>2. QED
  BY <1>1, InitInv, StepInv, PTL DEF Spec

(* A human is asked after at most MAX_AUTOMATION_ATTEMPTS generations.     *)
THEOREM RetriesAreBounded == Spec => []RetriesBounded
<1>1. WorkflowInv => RetriesBounded
  BY DEF WorkflowInv, CountersAgree, RetriesBounded
<1>2. QED
  BY <1>1, InitInv, StepInv, PTL DEF Spec

(* The gate shows the verdict on the files it shows, and a failing one     *)
(* only when the retries are used up.                                      *)
THEOREM HumanSeesVerdict == Spec => []GateSeesVerdict
<1>1. WorkflowInv => GateSeesVerdict
  BY DEF WorkflowInv
<1>2. QED
  BY <1>1, InitInv, StepInv, PTL DEF Spec

(* A report is on the code the human agreed to last, never on the run of   *)
(* an earlier pass.                                                        *)
THEOREM ReportsFollowApproval == Spec => ReportMatchesApproval
<1>1. WorkflowInv /\ [Next]_vars =>
        [stage = "generate_report" => reported' \subseteq reported \cup ({files} \cap executed)]_vars
  <2> SUFFICES ASSUME WorkflowInv, Next, stage = "generate_report"
               PROVE  reported' \subseteq reported \cup ({files} \cap executed)
    OBVIOUS
  <2>1. CASE GenerateReport
    BY <2>1 DEF GenerateReport, WorkflowInv, RunIsCurrent
  <2>2. CASE NewThread
    BY <2>2 DEF NewThread
  <2>3. QED
    BY <2>1, <2>2
       DEF Next, Node, Analyse, Plan, GenerateCases, GenerateAutomation, ValidateCode,
           ExecuteTests, ClassifyFailures, DecideCases, DecideCode, StartAgain, Gates
<1>2. QED
  BY <1>1, InitInv, StepInv, PTL DEF Spec, ReportMatchesApproval

-----------------------------------------------------------------------------
(* Rows of generated code.                                                 *)

LEMMA QuietRows ==
  ASSUME RowInv, UNCHANGED <<rows, made, consented>>,
         stage' \notin {"validate_code", "await_code_approval"}
  PROVE  RowInv'
  BY DEF RowInv, FilesAreNewest, ApprovedRowWasShown

LEMMA ValidateRows ==
  ASSUME RowInv, ValidateCode PROVE RowInv'
<1>1. stage = "validate_code" /\ UNCHANGED <<rows, made, consented, files>>
  BY DEF ValidateCode
<1>2. QED
  BY <1>1 DEF RowInv, FilesAreNewest, ApprovedRowWasShown

(* The new row is at a place where there was none. *)
LEMMA GenerateRows ==
  ASSUME WorkflowInv, RowInv, GenerateAutomation
  PROVE  RowInv'
<1>1. /\ made \in Nat /\ made' = made + 1 /\ consented' = consented
      /\ stage' = "validate_code"
  BY DEF WorkflowInv, TypeOK, GenerateAutomation
<1>2. made + 1 \in Generations
  <2>1. /\ unseen \in Nat /\ attempts \in Nat /\ unseen < MAX_AUTOMATION_ATTEMPTS
        /\ made <= Budget + unseen
    BY DEF WorkflowInv, TypeOK, CountersAgree, GenerateAutomation
  <2>2. QED
    BY <1>1, <2>1 DEF Generations
<1>3. rows[made + 1].status = "none"
  BY <1>1, <1>2 DEF RowInv, FilesAreNewest
<1>4. CASE files' = None /\ UNCHANGED rows
  <2>1. \A g \in Generations : g <= made => g <= made + 1
    BY <1>1 DEF Generations
  <2>2. FilesAreNewest'
    BY <1>1, <1>4, <2>1 DEF RowInv, FilesAreNewest
  <2>3. ApprovedRowWasShown'
    <3>1. rows' = rows /\ consented' = consented
      BY <1>1, <1>4
    <3>2. QED
      BY <3>1 DEF RowInv, ApprovedRowWasShown
  <2>4. QED
    BY <2>2, <2>3 DEF RowInv
<1>5. ASSUME NEW p \in Paths, NEW s \in {"draft", "lost"}, files' = made + 1,
             rows' = [rows EXCEPT ![made + 1] = [path |-> p, status |-> s]]
      PROVE  RowInv'
  <2>1. /\ rows'[made + 1].status = s
        /\ \A g \in Generations : g # made + 1 => rows'[g] = rows[g]
    BY <1>2, <1>5 DEF WorkflowInv, TypeOK
  <2>2. FilesAreNewest'
    BY <1>1, <1>2, <1>5, <2>1 DEF RowInv, FilesAreNewest, Generations
  <2>3. ASSUME NEW g \in Generations, rows'[g].status = "approved", g \notin consented
        PROVE  \E h \in consented : /\ rows'[h].status = "lost"
                                    /\ rows'[h].path = rows'[g].path /\ h > g
    <3>1. g # made + 1 /\ rows'[g] = rows[g]
      BY <2>1, <2>3
    <3>2. PICK h \in consented : rows[h].status = "lost" /\ rows[h].path = rows[g].path /\ h > g
      BY <2>3, <3>1 DEF RowInv, ApprovedRowWasShown
    <3>3. h \in Generations /\ h # made + 1
      BY <1>3, <3>2 DEF WorkflowInv, TypeOK
    <3>4. QED
      BY <2>1, <3>1, <3>2, <3>3
  <2>4. QED
    BY <1>1, <2>2, <2>3 DEF RowInv, ApprovedRowWasShown
<1>6. QED
  BY <1>4, <1>5 DEF GenerateAutomation

(* The row that is approved is that of the files the human saw, or, when   *)
(* that one was lost, an older one of its path.                            *)
LEMMA DecideRows ==
  ASSUME NEW d \in Decisions, WorkflowInv, RowInv, DecideCode(d)
  PROVE  RowInv'
<1>1. /\ stage = "await_code_approval" /\ made' = made /\ files' = files
      /\ stage' \notin {"validate_code", "await_code_approval"}
      /\ consented \subseteq consented' /\ consented' \subseteq Generations
      /\ d = "approved" /\ files # None => files \in consented'
  BY DEF WorkflowInv, TypeOK, DecideCode, route_after_code_approval
<1>2. rows' = rows \/ rows' = Judged(d)
  BY DEF DecideCode
<1>3. \A g \in Generations :
        /\ rows'[g].path = rows[g].path
        /\ rows'[g].status = "lost" <=> rows[g].status = "lost"
        /\ rows'[g].status = "none" <=> rows[g].status = "none"
        /\ \/ rows'[g].status = rows[g].status
           \/ g \in NewestRow /\ (rows'[g].status = "approved" => d = "approved")
  <2> SUFFICES ASSUME NEW g \in Generations, g \in NewestRow, rows' = Judged(d)
               PROVE  /\ rows'[g].path = rows[g].path
                      /\ rows'[g].status = "lost" <=> rows[g].status = "lost"
                      /\ rows'[g].status = "none" <=> rows[g].status = "none"
                      /\ rows'[g].status = "approved" => d = "approved"
    BY <1>2 DEF Judged
  <2>1. rows[g] \in Row /\ rows[g].status \notin {"none", "lost"}
    BY DEF NewestRow, Saved, WorkflowInv, TypeOK, NoRow
  <2>2. rows'[g] = [rows[g] EXCEPT !.status = IF d = "regenerate" THEN "draft" ELSE d]
    BY DEF Judged
  <2>3. QED
    BY <2>1, <2>2 DEF Row, Decisions
<1>4. FilesAreNewest'
  BY <1>1, <1>3 DEF RowInv, FilesAreNewest
<1>5. ASSUME NEW g \in Generations, rows'[g].status = "approved"
      PROVE  \/ g \in consented'
             \/ \E h \in consented' : /\ rows'[h].status = "lost"
                                      /\ rows'[h].path = rows'[g].path /\ h > g
  <2>1. CASE rows[g].status = "approved"
    BY <1>1, <1>3, <1>5, <2>1 DEF RowInv, ApprovedRowWasShown
  <2>2. CASE rows[g].status # "approved"
    <3>1. g \in NewestRow /\ d = "approved"
      BY <1>3, <1>5, <2>2
    <3>2. /\ files # None /\ Saved(g) /\ rows[g].path = rows[files].path
          /\ \A h \in Generations : Saved(h) /\ rows[h].path = rows[files].path => h <= g
      BY <3>1 DEF NewestRow
    <3>3. /\ files \in Generations /\ files \in consented' /\ files = made
          /\ rows[files].status # "none"
      BY <1>1, <3>1, <3>2 DEF WorkflowInv, TypeOK, RowInv, FilesAreNewest
    <3>4. g <= files
      BY <3>2, <3>3 DEF RowInv, FilesAreNewest, Saved
    <3>5. CASE rows[files].status = "lost"
      <4>1. g # files
        BY <3>2, <3>5 DEF Saved
      <4>2. files > g
        BY <3>3, <3>4, <4>1 DEF Generations
      <4>3. QED
        BY <1>3, <3>2, <3>3, <3>5, <4>2
    <3>6. CASE rows[files].status # "lost"
      <4>1. files <= g
        BY <3>2, <3>3, <3>6 DEF Saved
      <4>2. g = files
        BY <3>3, <3>4, <4>1 DEF Generations
      <4>3. QED
        BY <3>3, <4>2
    <3>7. QED
      BY <3>5, <3>6
  <2>3. QED
    BY <2>1, <2>2
<1>6. QED
  BY <1>4, <1>5 DEF RowInv, ApprovedRowWasShown

LEMMA StepRows == WorkflowInv /\ RowInv /\ [Next]_vars => RowInv'
<1> SUFFICES ASSUME WorkflowInv, RowInv, [Next]_vars PROVE RowInv'
  OBVIOUS
<1>1. CASE Analyse \/ Plan \/ GenerateCases \/ ExecuteTests \/ ClassifyFailures
           \/ GenerateReport \/ StartAgain \/ NewThread
  BY <1>1, QuietRows DEF Analyse, Plan, GenerateCases, ExecuteTests, ClassifyFailures,
                         GenerateReport, StartAgain, NewThread
<1>2. CASE GenerateAutomation \/ ValidateCode
  BY <1>2, GenerateRows, ValidateRows
<1>3. ASSUME NEW d \in Decisions, DecideCases(d) PROVE RowInv'
  BY <1>3, QuietRows DEF DecideCases, route_after_case_approval
<1>4. ASSUME NEW d \in Decisions, DecideCode(d) PROVE RowInv'
  BY <1>4, DecideRows
<1>5. CASE UNCHANGED vars
  BY <1>5 DEF vars, RowInv, FilesAreNewest, ApprovedRowWasShown
<1>6. QED
  BY <1>1, <1>2, <1>3, <1>4, <1>5 DEF Next, Node

(* A row of generated code is approved only if a human saw its content, or *)
(* if what he saw has no row and this one of its path stood in for it.     *)
THEOREM ApprovedRowsWereShown == Spec => []ApprovedRowWasShown
<1>1. Init => RowInv
  BY DEF Init, RowInv, FilesAreNewest, ApprovedRowWasShown, NoRow
<1>2. RowInv => ApprovedRowWasShown
  BY DEF RowInv
<1>3. QED
  BY <1>1, <1>2, InitInv, StepInv, StepRows, PTL DEF Spec

-----------------------------------------------------------------------------
(* The workflow implements the human gate.                                 *)

offered == IF stage = "await_code_approval" THEN files ELSE None

LEMMA InitGate == Init => Gate!Init
  BY DEF Init, Gate!Init

(* Away from the code gate and from execution the contract does not move.  *)
LEMMA QuietStep ==
  ASSUME offered' = offered, UNCHANGED <<consented, executed>>
  PROVE  [Gate!Next]_<<offered, consented, executed>>
  OBVIOUS

LEMMA ValidateGate ==
  ASSUME WorkflowInv, ValidateCode
  PROVE  [Gate!Next]_<<offered, consented, executed>>
<1>1. offered = None /\ UNCHANGED <<consented, executed>>
  BY DEF ValidateCode, offered
<1>2. offered' = None \/ offered' = files
  BY DEF ValidateCode, offered
<1>3. CASE offered' = None
  BY <1>1, <1>3
<1>4. CASE offered' = files /\ files # None
  <2>1. files \in Generations
    BY <1>4 DEF WorkflowInv, TypeOK
  <2>2. Gate!Offer(files)
    BY <1>1, <1>4 DEF Gate!Offer, offered
  <2>3. QED
    BY <2>1, <2>2 DEF Gate!Next
<1>5. QED
  BY <1>2, <1>3, <1>4

(* Leaving the gate in any other way than by consent.                      *)
LEMMA WithdrawGate ==
  ASSUME offered' = None, UNCHANGED <<consented, executed>>
  PROVE  [Gate!Next]_<<offered, consented, executed>>
<1>1. CASE offered = None
  BY <1>1
<1>2. CASE offered # None
  BY <1>2 DEF Gate!Next, Gate!Withdraw, offered
<1>3. QED
  BY <1>1, <1>2

LEMMA DecideGate ==
  ASSUME NEW d \in Decisions, WorkflowInv, DecideCode(d)
  PROVE  [Gate!Next]_<<offered, consented, executed>>
<1>1. offered = files /\ UNCHANGED executed
  BY DEF DecideCode, offered
<1>2. offered' = None
  BY DEF DecideCode, route_after_code_approval, offered
<1>3. CASE d = "approved" /\ files # None
  <2>1. files \in Generations
    BY <1>3 DEF WorkflowInv, TypeOK
  <2>2. Gate!Consent
    BY <1>1, <1>2, <1>3, <2>1 DEF Gate!Consent, DecideCode, offered
  <2>3. QED
    BY <2>2 DEF Gate!Next
<1>4. CASE ~(d = "approved" /\ files # None)
  BY <1>1, <1>2, <1>4, WithdrawGate DEF DecideCode
<1>5. QED
  BY <1>3, <1>4

LEMMA ExecuteGate ==
  ASSUME WorkflowInv, ExecuteTests
  PROVE  [Gate!Next]_<<offered, consented, executed>>
<1>1. offered = None /\ offered' = None /\ UNCHANGED consented
  BY DEF ExecuteTests, offered
<1>2. CASE UNCHANGED executed
  BY <1>1, <1>2
<1>3. CASE files # None /\ executed' = executed \cup {files}
  <2>1. files \in Generations /\ files \in consented
    BY <1>3 DEF WorkflowInv, TypeOK, ConsentIsFresh, ExecuteTests
  <2>2. Gate!Execute(files)
    BY <1>1, <1>3, <2>1 DEF Gate!Execute, offered
  <2>3. QED
    BY <2>1, <2>2 DEF Gate!Next
<1>4. QED
  BY <1>2, <1>3 DEF ExecuteTests

LEMMA StepGate == WorkflowInv /\ [Next]_vars => [Gate!Next]_<<offered, consented, executed>>
<1> SUFFICES ASSUME WorkflowInv, [Next]_vars
             PROVE  [Gate!Next]_<<offered, consented, executed>>
  OBVIOUS
<1>1. CASE Analyse \/ Plan \/ GenerateCases \/ GenerateAutomation \/ ClassifyFailures
           \/ GenerateReport
  BY <1>1, QuietStep DEF Analyse, Plan, GenerateCases, GenerateAutomation, ClassifyFailures,
                         GenerateReport, offered
<1>2. CASE ValidateCode \/ ExecuteTests
  BY <1>2, ValidateGate, ExecuteGate
<1>3. ASSUME NEW d \in Decisions, DecideCases(d)
      PROVE  [Gate!Next]_<<offered, consented, executed>>
  BY <1>3, QuietStep DEF DecideCases, route_after_case_approval, offered
<1>4. ASSUME NEW d \in Decisions, DecideCode(d)
      PROVE  [Gate!Next]_<<offered, consented, executed>>
  BY <1>4, DecideGate
<1>5. CASE StartAgain \/ NewThread
  BY <1>5, WithdrawGate DEF StartAgain, NewThread, offered
<1>6. CASE UNCHANGED vars
  BY <1>6, QuietStep DEF vars, offered
<1>7. QED
  BY <1>1, <1>2, <1>3, <1>4, <1>5, <1>6 DEF Next, Node

(* FR-HITL-001: only code that was laid before a human who agreed to it is *)
(* run, whatever is regenerated, started again or left from earlier.       *)
THEOREM OnlyAgreedCodeRuns == Spec => GateContract
<1>1. WorkflowInv /\ [Next]_vars => [Gate!Next]_<<offered, consented, executed>>
  BY StepGate
<1>2. QED
  BY <1>1, InitGate, InitInv, StepInv, PTL DEF Spec, GateContract, Gate!Spec, offered
=============================================================================
