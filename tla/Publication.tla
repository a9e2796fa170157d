----------------------------- MODULE Publication -----------------------------
(***************************************************************************)
(* The publication of one stored report (ReportsService, the record-only   *)
(* approvals, ExecutionReportPage): people decide on their pages whether   *)
(* it may leave, and export it.  A decision is a record of its own and the *)
(* gate looks for the latest, by the clock of the database, which two may  *)
(* share (SQLite keeps seconds).                                           *)
(***************************************************************************)
EXTENDS Naturals, Sequences

CONSTANTS
  Sheets,         \* open report pages; each waits for one answer at a time
  MaxRecords,     \* bound: decisions on the report
  MaxSeconds      \* bound: time

VARIABLES
  clock,
  records,        \* the approvals of the report, in the order they were stored
  sheet,          \* the request of each page
  known           \* history: records whose decision a page has shown
publicationVars == <<clock, records, sheet, known>>

(* The page offers the first two, the API takes all of them.               *)
PublicationDecisions == {"approved", "rejected", "regenerate"}

EmptySheet == [pc |-> "idle"]
Deciding == [pc : {"record", "audit", "answered"}, decision : PublicationDecisions,
             record : 0..MaxRecords]
(* after, upto: records that were known when the export was asked for, and *)
(* stored when it passed the gate.                                         *)
Exporting == [pc : {"gate", "rows", "render", "file"}, format : {"stored", "rows", "pdf"},
              after : SUBSET (1..MaxRecords), upto : 0..MaxRecords]

PublicationTypeOK ==
  /\ clock \in 0..MaxSeconds
  /\ records \in Seq([decision : PublicationDecisions, createdAt : 0..MaxSeconds])
  /\ sheet \in [Sheets -> {EmptySheet} \cup Deciding \cup Exporting]
  /\ known \subseteq DOMAIN records

PublicationInit ==
  /\ clock = 0
  /\ records = <<>>
  /\ sheet = [p \in Sheets |-> EmptySheet]
  /\ known = {}

-----------------------------------------------------------------------------
SheetAt(p, pc) == sheet[p].pc = pc
SheetIs(p, r) == sheet' = [sheet EXCEPT ![p] = r]

Tick ==
  /\ clock < MaxSeconds
  /\ clock' = clock + 1
  /\ UNCHANGED <<records, sheet, known>>

(* The run is loaded; it has a report.                                     *)
DecidePublication(p, decision) ==
  /\ SheetAt(p, "idle")
  /\ SheetIs(p, [pc |-> "record", decision |-> decision, record |-> 0])
  /\ UNCHANGED <<clock, records, known>>

RecordStandalone(p) ==
  /\ SheetAt(p, "record") /\ Len(records) < MaxRecords
  /\ records' = Append(records, [decision |-> sheet[p].decision, createdAt |-> clock])
  /\ SheetIs(p, [sheet[p] EXCEPT !.pc = "audit", !.record = Len(records')])
  /\ UNCHANGED <<clock, known>>

Audit(p) ==
  /\ SheetAt(p, "audit")
  /\ SheetIs(p, [sheet[p] EXCEPT !.pc = "answered"])
  /\ UNCHANGED <<clock, records, known>>

(* The banner of the page.                                                 *)
ShowDecision(p) ==
  /\ SheetAt(p, "answered")
  /\ known' = known \cup {sheet[p].record}
  /\ SheetIs(p, EmptySheet)
  /\ UNCHANGED <<clock, records>>

(* A step fails or the answer is lost; what was recorded stands.           *)
FailDecision(p) ==
  /\ sheet[p].pc \in {"record", "audit", "answered"}
  /\ SheetIs(p, EmptySheet)
  /\ UNCHANGED <<clock, records, known>>

-----------------------------------------------------------------------------
(* A button per format; the run is loaded.  JSON and HTML are of the       *)
(* stored report, JUnit and CSV of the rows.                               *)
Export(p, format) ==
  /\ SheetAt(p, "idle")
  /\ SheetIs(p, [pc |-> "gate", format |-> format, after |-> known, upto |-> 0])
  /\ UNCHANGED <<clock, records, known>>

(* Mutant: the order of the records is left out, and the first is found. *)
Latest_First == {i \in DOMAIN records : i = 1}

(* Records of one time are in no order.                                    *)
Latest ==
  {i \in DOMAIN records : \A k \in DOMAIN records : records[k].createdAt <= records[i].createdAt}

(* Only a rejection keeps a report in.                                     *)
Refuse(p) ==
  /\ SheetAt(p, "gate")
  /\ \E i \in Latest : records[i].decision = "rejected"
  /\ SheetIs(p, EmptySheet)
  /\ UNCHANGED <<clock, records, known>>

AwaitFor == [stored |-> "file", rows |-> "rows", pdf |-> "render"]

Pass(p) ==
  /\ SheetAt(p, "gate")
  /\ records = <<>> \/ \E i \in Latest : records[i].decision # "rejected"
  /\ SheetIs(p, [sheet[p] EXCEPT !.upto = Len(records), !.pc = AwaitFor[sheet[p].format]])
  /\ UNCHANGED <<clock, records, known>>

(* The results are read as they are now.                                   *)
ReadRows(p) ==
  /\ SheetAt(p, "rows")
  /\ SheetIs(p, [sheet[p] EXCEPT !.pc = "file"])
  /\ UNCHANGED <<clock, records, known>>

(* A report that the engine cannot render leaves as the stored HTML.       *)
RenderPdf(p) ==
  /\ SheetAt(p, "render")
  /\ \E format \in {"pdf", "stored"} :
       SheetIs(p, [sheet[p] EXCEPT !.pc = "file", !.format = format])
  /\ UNCHANGED <<clock, records, known>>

(* The file is saved, or lost.                                             *)
Download(p) ==
  /\ SheetAt(p, "file")
  /\ SheetIs(p, EmptySheet)
  /\ UNCHANGED <<clock, records, known>>

PublicationNext ==
  \/ Tick
  \/ \E p \in Sheets :
       \/ \E decision \in PublicationDecisions : DecidePublication(p, decision)
       \/ RecordStandalone(p) \/ Audit(p) \/ ShowDecision(p) \/ FailDecision(p)
       \/ \E format \in {"stored", "rows", "pdf"} : Export(p, format)
       \/ Refuse(p) \/ Pass(p) \/ ReadRows(p) \/ RenderPdf(p) \/ Download(p)

PublicationSpec == PublicationInit /\ [][PublicationNext]_publicationVars

-----------------------------------------------------------------------------
(* "Rejected reports cannot be exported." (ExecutionReportPage.tsx:130):   *)
(* after a page has said so no page gets a file, in whatever format and    *)
(* however requests overlap, unless another decision on it was made since - *)
(* or in the same second, when the gate cannot tell which came last.       *)
RejectedStaysIn ==
  \A p \in Sheets : SheetAt(p, "file") =>
    \A i \in sheet[p].after : records[i].decision = "rejected" =>
      \E k \in 1..sheet[p].upto :
        records[k].decision # "rejected" /\ records[k].createdAt >= records[i].createdAt

(* The same when no second is shared.                                      *)
RejectedStaysInForGood ==
  \A p \in Sheets : SheetAt(p, "file") =>
    \A i \in sheet[p].after : records[i].decision = "rejected" =>
      \E k \in (i + 1)..sheet[p].upto : records[k].decision # "rejected"
=============================================================================
