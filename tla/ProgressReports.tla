--------------------------- MODULE ProgressReports ---------------------------
(***************************************************************************)
(* Progress reports of stopped events (event-progress-report.service.ts).  *)
(* requestReport inserts a pending row and starts generateReport without   *)
(* waiting for it; nothing takes up a generation that died with its        *)
(* process.  The rows are kept in the order of created_at.                 *)
(***************************************************************************)
EXTENDS EventRecords

CONSTANTS MaxReports  \* bound: reports requested

VARIABLES report  \* rows of event_progress_reports, each with its generation

reportVars == <<report>>

ReportsInit == report = <<>>

Latest(d, rows) ==
  LET mine == {i \in DOMAIN rows : rows[i].event = d}
  IN  IF mine = {} THEN None ELSE CHOOSE i \in mine : \A j \in mine : j <= i

\* getLatestReport
LatestStatus(d) ==
  LET i == Latest(d, report) IN IF i = None THEN "none" ELSE report[i].status

\* streamLatestReport: the latest report that is ready, if its object is there.
CanDownload(d) ==
  \E i \in DOMAIN report :
    /\ report[i].event = d /\ report[i].status = "ready" /\ report[i].pdf
    /\ \A j \in i + 1 .. Len(report) : ~(report[j].event = d /\ report[j].status = "ready")

RequestReport(t) ==
  /\ In(t, "report", "request")
  /\ IF event[call[t].event].status = "stopped"
     THEN /\ report' = Append(report, [event |-> call[t].event, status |-> "pending",
                                       pdf |-> FALSE, job |-> "assemble"])
          /\ Goto(t, "ok")
     ELSE Goto(t, "error") /\ UNCHANGED report
  /\ UNCHANGED <<Rows, removal>>

Move(i, job) == report' = [report EXCEPT ![i].job = job]

AssembleReport(i) ==
  /\ report[i].job = "assemble"
  /\ Move(i, "put") \/ Move(i, "fail")

StorePdf(i) ==
  /\ report[i].job = "put"
  /\ \/ report' = [report EXCEPT ![i].pdf = TRUE, ![i].job = "ready"]
     \/ Move(i, "fail")

MarkReady(i) ==
  /\ report[i].job = "ready"
  /\ \/ report' = [report EXCEPT ![i].status = "ready", ![i].job = "none"]
     \/ Move(i, "fail")

\* The row that says so may fail to be written as well.
MarkFailed(i) ==
  /\ report[i].job = "fail"
  /\ \/ report' = [report EXCEPT ![i].status = "failed", ![i].job = "none"]
     \/ Move(i, "none")

\* The process ends.
GenerationDies(i) == report[i].job # "none" /\ Move(i, "none")

\* Mutant of GenerateReport: the row is marked before the PDF is stored.
GenerateUnstored(i) ==
  /\ \/ AssembleReport(i) \/ MarkReady(i) \/ MarkFailed(i) \/ GenerationDies(i)
     \/ report[i].job = "put" /\ report' = [report EXCEPT ![i].status = "ready", ![i].job = "late"]
     \/ report[i].job = "late" /\ report' = [report EXCEPT ![i].pdf = TRUE, ![i].job = "none"]
  /\ UNCHANGED recordVars

GenerateReport(i) ==
  /\ AssembleReport(i) \/ StorePdf(i) \/ MarkReady(i) \/ MarkFailed(i) \/ GenerationDies(i)
  /\ UNCHANGED recordVars
=============================================================================
