------------------------------- MODULE Uploads -------------------------------
(***************************************************************************)
(* Documents come in.  The upload page keeps a queue of files, one request *)
(* each (features/uploads/useUploadQueue.ts).  The backend checks a file,  *)
(* has it parsed by the engine and stores the document, then its segments  *)
(* (modules/documents).  An aborted or broken request is not taken back:   *)
(* the backend may go on with it while the page sends the file again.      *)
(***************************************************************************)
EXTENDS Naturals, FiniteSets

CONSTANTS
  Files,         \* files a user adds to the queue, each once
  MaxUploads    \* bound: requests per file

VARIABLES
  kind,          \* what validateUpload() says of a file, and the limit of its size
  item,          \* the upload queue of the page
  request,       \* what the backend is doing for a request
  document,      \* source_documents, by the request that stored them
  segments,      \* document_segments: requests whose segments are stored
  undone         \* history: files whose request the page had given up
uploadVars == <<kind, item, request, document, segments, undone>>

Attempts == Files \X (1..MaxUploads)
FileOf(r) == r[1]

ItemStatuses == {"absent", "queued", "uploading", "done", "error", "cancelled"}
Parses == {"parsed", "unreadable"}
NoItem == [status |-> "absent", attempt |-> 0, shown |-> "none"]
NoDocument == [row |-> "none", parse |-> "none"]

UploadTypeOK ==
  /\ kind \in [Files -> {"good", "bad", "large"}]
  /\ item \in [Files -> [status : ItemStatuses, attempt : 0..MaxUploads,
                         shown : Parses \cup {"none"}]]
  /\ request \in [Attempts -> {"none", "sent", "parsing", "storing", "stored", "rejected", "failed"}]
  /\ document \in [Attempts -> [row : {"none", "present", "removing", "removed"},
                                parse : Parses \cup {"none"}]]
  /\ segments \subseteq Attempts /\ undone \subseteq Files

UploadInit ==
  /\ kind \in [Files -> {"good", "bad", "large"}]
  /\ item = [f \in Files |-> NoItem]
  /\ request = [r \in Attempts |-> "none"]
  /\ document = [r \in Attempts |-> NoDocument]
  /\ segments = {} /\ undone = {}

page == <<kind, item, undone>>
server == <<request, document, segments>>

-----------------------------------------------------------------------------
(* The queue of the page.                                                  *)
AddFile(f) ==
  /\ item[f].status = "absent"
  /\ item' = [item EXCEPT ![f].status = IF kind[f] = "large" THEN "error" ELSE "queued"]
  /\ UNCHANGED <<kind, undone, server>>

(* Mutant: whatever is not finished is sent again. *)
Retryable_Unfinished(status) == status # "done"

(* uploadAll() takes what is queued, retry() what failed or was cancelled. *)
Retryable(status) == status \in {"queued", "error", "cancelled"}

Upload(f) ==
  /\ item[f].status # "absent" /\ Retryable(item[f].status) /\ item[f].attempt < MaxUploads
  /\ item' = [item EXCEPT ![f].status = "uploading", ![f].attempt = @ + 1]
  /\ request' = [request EXCEPT ![<<f, item[f].attempt + 1>>] = "sent"]
  /\ UNCHANGED <<kind, undone, document, segments>>

(* cancel(): the request is aborted, or its connection breaks.             *)
GiveUp(f, status) ==
  /\ item[f].status = "uploading"
  /\ item' = [item EXCEPT ![f].status = status]
  /\ undone' = undone \cup {f}
  /\ UNCHANGED <<kind, server>>

(* The answer.  A rejected file is an answer like any other, but reports   *)
(* no parse status: the page then shows its default.                       *)
ParseStatus(r) == IF request[r] = "stored" THEN document[r].parse ELSE "none"

Answered(f) ==
  LET r == <<f, item[f].attempt>> IN
  /\ item[f].status = "uploading"
  /\ \/ /\ request[r] \in {"stored", "rejected"}
        /\ item' = [item EXCEPT ![f].status = "done",
                      ![f].shown = IF ParseStatus(r) = "none" THEN "parsed" ELSE ParseStatus(r)]
     \/ request[r] = "failed" /\ item' = [item EXCEPT ![f].status = "error"]
  /\ UNCHANGED <<kind, undone, server>>

(* removeItem() and clearFinished(); an upload in flight has no button.    *)
RemoveItem(f) ==
  /\ item[f].status \notin {"absent", "uploading"} /\ item[f].attempt > 0
  /\ item' = [item EXCEPT ![f].status = "absent", ![f].shown = "none"]
  /\ undone' = undone \cup {f}
  /\ UNCHANGED <<kind, server>>

-----------------------------------------------------------------------------
(* upload(): check and parse, the document, its segments.  A request that  *)
(* the page has given up may be lost on the way or be served all the same. *)
RequestIs(r, s) == request' = [request EXCEPT ![r] = s]

Check(r) ==
  /\ request[r] = "sent"
  /\ RequestIs(r, CASE kind[FileOf(r)] = "large" -> "failed"
                    [] kind[FileOf(r)] = "bad" -> "rejected"
                    [] OTHER -> "parsing")
  /\ UNCHANGED <<document, segments, page>>

(* Mutant: the answer is given before the segments are stored. *)
AfterDocument_Answers == "stored"

AfterDocument == "storing"

StoreDocument(r, parse) ==
  /\ request[r] = "parsing" /\ RequestIs(r, AfterDocument)
  /\ document' = [document EXCEPT ![r] = [row |-> "present", parse |-> parse]]
  /\ UNCHANGED <<segments, page>>

StoreSegments(r) ==
  /\ request[r] = "storing" /\ RequestIs(r, "stored")
  /\ segments' = segments \cup {r}
  /\ UNCHANGED <<document, page>>

(* The engine or the table fails; a document may stay without segments.    *)
FailRequest(r) ==
  /\ request[r] \in {"sent", "parsing", "storing"} /\ RequestIs(r, "failed")
  /\ UNCHANGED <<document, segments, page>>

(* remove(): the segments that are there, then the document.               *)
RemoveUploadedSegments(r) ==
  /\ document[r].row = "present"
  /\ document' = [document EXCEPT ![r].row = "removing"]
  /\ segments' = segments \ {r}
  /\ UNCHANGED <<request, page>>

RemoveUpload(r) ==
  /\ document[r].row = "removing"
  /\ document' = [document EXCEPT ![r].row = "removed"]
  /\ UNCHANGED <<request, segments, page>>

UploadNext ==
  \/ \E f \in Files : \/ AddFile(f) \/ Upload(f) \/ Answered(f) \/ RemoveItem(f)
                     \/ \E s \in {"cancelled", "error"} : GiveUp(f, s)
  \/ \E r \in Attempts : \/ Check(r) \/ StoreSegments(r) \/ FailRequest(r)
                        \/ \E p \in Parses : StoreDocument(r, p)
                        \/ RemoveUploadedSegments(r) \/ RemoveUpload(r)

UploadSpec == UploadInit /\ [][UploadNext]_uploadVars

-----------------------------------------------------------------------------
(* "never re-POST an in-flight or completed upload"                        *)
(* (useUploadQueue.ts:119): a file is stored twice only if the page gave a *)
(* request of it up, or the user removed it and added it again.            *)
StoredOnce ==
  \A f \in Files \ undone : Cardinality({r \in Attempts : FileOf(r) = f /\ request[r] = "stored"}) <= 1

(* What the page shows as done, and the backend accepted, is there with    *)
(* all its segments until it is removed.                                   *)
DoneIsStored ==
  \A f \in Files : LET r == <<f, item[f].attempt>> IN
    item[f].status = "done" /\ request[r] = "stored" /\ document[r].row = "present"
      => r \in segments

(* "Server-reported parse status once uploaded" (useUploadQueue.ts:19).    *)
ShownIsReported ==
  \A f \in Files : item[f].status = "done" => item[f].shown = ParseStatus(<<f, item[f].attempt>>)
=============================================================================
