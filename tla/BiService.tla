------------------------------ MODULE BiService -----------------------------
(* The scheduled reports of the analytics service: a run reads the KPIs, out  *)
(* of the cache, the read replica or the primary, writes them to the file of  *)
(* its report, notes the file in the report's row and mails the file to each  *)
(* recipient.  Requests and the hourly scan start runs, requests delete       *)
(* reports.  The KPIs are the number of a version of the books; the replica   *)
(* may be any number of versions behind.  A file has the report's name, so    *)
(* that runs of one report write the same one.                                *)
EXTENDS Integers, Sequences, FiniteSetsExt

CONSTANTS BiReportIds, Recipients, MaxBooks, MaxRuns, MaxDeletions, BiFaults

VARIABLES
  reportRow,    \* "fresh" without a file, "ran" with one, or "gone"
  reportFile,   \* the version in the report's file, 0 when there is none
  kpis,         \* the version of the books, and the cached one or 0
  reportRuns,   \* runReport under way
  deletions,    \* deleteReport under way, or failed after it removed the file
  scan,         \* handleScheduledReports
  strayed,      \* ghost: a run without another beside it mailed what it did not read
  biTally

biVars == <<reportRow, reportFile, kpis, reportRuns, deletions, scan, strayed, biTally>>

NoScan == [on |-> FALSE, read |-> {}, left |-> {}, tried |-> {}, minute |-> TRUE]

BiInit ==
  /\ reportRow = [x \in BiReportIds |-> "fresh"] /\ reportFile = [x \in BiReportIds |-> 0]
  /\ kpis = [books |-> 1, cached |-> 0]
  /\ reportRuns = {} /\ deletions = {} /\ scan = NoScan /\ strayed = FALSE
  /\ biTally = [runs |-> 0, deletions |-> 0, faults |-> 0]

Active(x) == reportRow[x] # "gone"
BiFault == biTally.faults < BiFaults /\ biTally' = [biTally EXCEPT !.faults = @ + 1]

-----------------------------------------------------------------------------
Books ==
  /\ kpis.books < MaxBooks /\ kpis' = [kpis EXCEPT !.books = @ + 1]
  /\ UNCHANGED <<reportRow, reportFile, reportRuns, deletions, scan, strayed, biTally>>

CacheExpires ==
  /\ kpis.cached # 0 /\ kpis' = [kpis EXCEPT !.cached = 0]
  /\ UNCHANGED <<reportRow, reportFile, reportRuns, deletions, scan, strayed, biTally>>

-----------------------------------------------------------------------------
\* runReport finds its report.  A run beside it makes neither of them alone.
StartRun(x, by) ==
  LET beside == {r \in reportRuns : r.of = x}
      run == [of |-> x, by |-> by, id |-> biTally.runs, at |-> "cache", kpi |-> 0,
              mailed |-> 0, alone |-> beside = {}]
  IN /\ Active(x) /\ biTally.runs < MaxRuns
     /\ reportRuns' = {run} \cup (reportRuns \ beside) \cup {[r EXCEPT !.alone = FALSE] : r \in beside}
     /\ biTally' = [biTally EXCEPT !.runs = @ + 1]

RequestRun(x) ==
  /\ StartRun(x, "request")
  /\ UNCHANGED <<reportRow, reportFile, kpis, deletions, scan, strayed>>

Goes(r, next) == reportRuns' = (reportRuns \ {r}) \cup {next}

\* wrap: a failed read of the cache counts as a miss.
ReadCache(r) ==
  /\ r.at = "cache"
  /\ \/ kpis.cached # 0 /\ Goes(r, [r EXCEPT !.at = "write", !.kpi = kpis.cached]) /\ UNCHANGED biTally
     \/ kpis.cached = 0 /\ Goes(r, [r EXCEPT !.at = "load"]) /\ UNCHANGED biTally
     \/ kpis.cached # 0 /\ Goes(r, [r EXCEPT !.at = "load"]) /\ BiFault
  /\ UNCHANGED <<reportRow, reportFile, kpis, deletions, scan, strayed>>

\* queryReplicaOrPrimary: of the replica, or of the primary when that fails.
LoadKpis(r) ==
  /\ r.at = "load"
  /\ \E v \in 1 .. kpis.books : Goes(r, [r EXCEPT !.at = "store", !.kpi = v])
  /\ UNCHANGED <<reportRow, reportFile, kpis, deletions, scan, strayed, biTally>>

StoreInCache(r) ==
  /\ r.at = "store" /\ Goes(r, [r EXCEPT !.at = "write"])
  /\ \/ kpis' = [kpis EXCEPT !.cached = r.kpi] /\ UNCHANGED biTally
     \/ UNCHANGED kpis /\ BiFault
  /\ UNCHANGED <<reportRow, reportFile, deletions, scan, strayed>>

WriteFile(r) ==
  /\ r.at = "write" /\ Goes(r, [r EXCEPT !.at = "note"])
  /\ reportFile' = [reportFile EXCEPT ![r.of] = r.kpi]
  /\ UNCHANGED <<reportRow, kpis, deletions, scan, strayed, biTally>>

NoteFile(r) ==
  /\ r.at = "note" /\ Active(r.of) /\ Goes(r, [r EXCEPT !.at = "mail"])
  /\ reportRow' = [reportRow EXCEPT ![r.of] = "ran"]
  /\ UNCHANGED <<reportFile, kpis, deletions, scan, strayed, biTally>>

\* send reads the file for every recipient; a mail that is refused is only logged.
MailReport(r) ==
  /\ r.at = "mail" /\ r.mailed < Recipients /\ reportFile[r.of] # 0
  /\ Goes(r, [r EXCEPT !.mailed = @ + 1])
  /\ \/ strayed' = (strayed \/ (r.alone /\ reportFile[r.of] # r.kpi)) /\ UNCHANGED biTally
     \/ UNCHANGED strayed /\ BiFault
  /\ UNCHANGED <<reportRow, reportFile, kpis, deletions, scan>>

RunEnds(r) ==
  /\ r.at = "mail" /\ r.mailed = Recipients
  /\ reportRuns' = reportRuns \ {r}
  /\ UNCHANGED <<reportRow, reportFile, kpis, deletions, scan, strayed, biTally>>

\* The row or the file is gone, or a query, the document or the update fails.
Throws(r) ==
  \/ r.at = "note" /\ ~Active(r.of) /\ UNCHANGED biTally
  \/ r.at = "mail" /\ r.mailed < Recipients /\ reportFile[r.of] = 0 /\ UNCHANGED biTally
  \/ r.at \in {"load", "write", "note"} /\ BiFault

\* The scan's catch around the whole loop instead of each run.
RunFailsAll(r) ==
  /\ Throws(r) /\ reportRuns' = reportRuns \ {r}
  /\ scan' = IF r.by = "scan" THEN [scan EXCEPT !.left = {}] ELSE scan
  /\ UNCHANGED <<reportRow, reportFile, kpis, deletions, strayed>>

RunFails(r) ==
  /\ Throws(r) /\ reportRuns' = reportRuns \ {r}
  /\ UNCHANGED <<reportRow, reportFile, kpis, deletions, scan, strayed>>

-----------------------------------------------------------------------------
\* The hour strikes: the scan reads the active reports, all of them due.
ScanStarts ==
  /\ ~scan.on /\ scan.read = {}
  /\ LET found == {x \in BiReportIds : Active(x)}
     IN scan' = [NoScan EXCEPT !.on = TRUE, !.read = found, !.left = found]
  /\ UNCHANGED <<reportRow, reportFile, kpis, reportRuns, deletions, strayed, biTally>>

MinutePasses ==
  /\ scan.on /\ scan.minute /\ scan' = [scan EXCEPT !.minute = FALSE]
  /\ UNCHANGED <<reportRow, reportFile, kpis, reportRuns, deletions, strayed, biTally>>

\* shouldRunNow asks the clock for every report anew; a report deleted since is not found.
ScanNext(x) ==
  /\ x \in scan.left /\ \A r \in reportRuns : r.by # "scan"
  /\ \/ /\ scan.minute /\ StartRun(x, "scan")
        /\ scan' = [scan EXCEPT !.left = @ \ {x}, !.tried = @ \cup {x}]
     \/ /\ scan.minute /\ ~Active(x) /\ UNCHANGED <<reportRuns, biTally>>
        /\ scan' = [scan EXCEPT !.left = @ \ {x}, !.tried = @ \cup {x}]
     \/ /\ ~scan.minute /\ UNCHANGED <<reportRuns, biTally>>
        /\ scan' = [scan EXCEPT !.left = @ \ {x}]
  /\ UNCHANGED <<reportRow, reportFile, kpis, deletions, strayed>>

ScanEnds ==
  /\ scan.on /\ scan.left = {} /\ \A r \in reportRuns : r.by # "scan"
  /\ scan' = [scan EXCEPT !.on = FALSE]
  /\ UNCHANGED <<reportRow, reportFile, kpis, reportRuns, deletions, strayed, biTally>>

-----------------------------------------------------------------------------
DeleteReport(x) ==
  /\ Active(x) /\ biTally.deletions < MaxDeletions
  /\ deletions' = deletions \cup {[of |-> x, id |-> biTally.deletions, at |-> "read",
                                   ran |-> reportRow[x] = "ran"]}
  /\ biTally' = [biTally EXCEPT !.deletions = @ + 1]
  /\ UNCHANGED <<reportRow, reportFile, kpis, reportRuns, scan, strayed>>

Unlink(d) ==
  /\ d.at = "read" /\ deletions' = (deletions \ {d}) \cup {[d EXCEPT !.at = "unlinked"]}
  /\ reportFile' = [reportFile EXCEPT ![d.of] = IF d.ran THEN 0 ELSE @]
  /\ UNCHANGED <<reportRow, kpis, reportRuns, scan, strayed, biTally>>

DeleteRow(d) ==
  /\ d.at = "unlinked"
  /\ \/ deletions' = deletions \ {d} /\ UNCHANGED biTally
        /\ reportRow' = [reportRow EXCEPT ![d.of] = "gone"]
     \/ deletions' = (deletions \ {d}) \cup {[d EXCEPT !.at = "failed"]} /\ BiFault
        /\ UNCHANGED reportRow
  /\ UNCHANGED <<reportFile, kpis, reportRuns, scan, strayed>>

RunStep(r) ==
  ReadCache(r) \/ LoadKpis(r) \/ StoreInCache(r) \/ WriteFile(r) \/ NoteFile(r) \/ MailReport(r)
    \/ RunEnds(r) \/ RunFails(r)

BiNext ==
  \/ Books \/ CacheExpires
  \/ \E x \in BiReportIds : RequestRun(x) \/ ScanNext(x) \/ DeleteReport(x)
  \/ \E r \in reportRuns : RunStep(r)
  \/ ScanStarts \/ MinutePasses \/ ScanEnds
  \/ \E d \in deletions : Unlink(d) \/ DeleteRow(d)

BiSpec == BiInit /\ [][BiNext]_biVars

-----------------------------------------------------------------------------
\* getReportFile: a report whose row names a file can be downloaded, unless a
\* deletion of it is under way or failed halfway, whatever runs overlap.
NotedFileExists ==
  \A x \in BiReportIds :
    (reportRow[x] = "ran" /\ \A d \in deletions : d.of = x => d.at = "read") => reportFile[x] # 0

\* runReport: a run that no other run of its report overlapped mails the numbers it
\* read itself, never those of an earlier run's file.
LoneRunMailsItsOwn == ~strayed

\* handleScheduledReports: a scan that ends within its minute has tried every report
\* it read: the failure of one keeps no other from its run.
ScanReachesAll == (~scan.on /\ scan.minute) => scan.read \subseteq scan.tried

\* The reports as a whole.
ReportsHold == NotedFileExists /\ LoneRunMailsItsOwn /\ ScanReachesAll

-----------------------------------------------------------------------------
(* The widgets of the analytics service: what a chart counts of the rows of   *)
(* one kind under its filters, what the drill-down of one of its bars lists,  *)
(* and the ageing of the receivables the KPIs add up on their own, while the  *)
(* books change.  A row is an invoice with its days overdue, an order or      *)
(* project with its status, an employee with a department, or an allocation   *)
(* with project and employee.                                                 *)
CONSTANTS ChartDepts, ChartCrew, MaxChartRows, MaxChartSteps,
          TakeLimit  \* how many rows a query takes: drill-downs and the heat map, by kind

ASSUME TakeLimitAssumption == TakeLimit \in [{"order", "project", "staff", "resource"} -> Nat \ {0}]

VARIABLES
  widget,       \* the kind of the rows, "none" before the page is opened
  books,        \* the rows
  chartSteps

chartVars == <<widget, books, chartSteps>>

ChartKinds == {"bill", "order", "project", "staff", "resource"}
Buckets == {"Current", "31-60", "61-90", "90+"}
OpenStates == {"DRAFT", "SUBMITTED", "APPROVED", "PLANNING", "ACTIVE", "ON_HOLD"}
ClosedStates == {"RECEIVED", "CANCELLED", "CLOSED", "COMPLETED"}
Stages == {"PLANNING", "ACTIVE", "ON_HOLD", "COMPLETED", "CANCELLED"}
StatesOf(kind) ==
  IF kind = "project" THEN Stages
  ELSE {"DRAFT", "SUBMITTED", "APPROVED", "PARTIALLY_RECEIVED", "RECEIVED", "CLOSED", "CANCELLED"}

\* The filters the charts of a kind read; the others are left alone.
FiltersOf(kind) ==
  [period : IF kind = "bill" THEN {"all", "current", "overdue"} ELSE {"all"},
   status : CASE kind = "bill" -> {"all", "closed"}
              [] kind \in {"order", "project"} -> {"all", "open", "closed"}
              [] OTHER -> {"all"},
   dept : IF kind = "staff" THEN {"all"} \cup ChartDepts ELSE {"all"}]

\* What rows of a kind can be: gone is paid or cancelled, deleted, or no longer active.
RowsOf(kind) ==
  [gone : BOOLEAN, worth : IF kind \in {"bill", "resource"} THEN {1, 2} ELSE {1},
   days : IF kind = "bill" THEN {30, 60, 90} ELSE {0},
   group : CASE kind = "bill" -> {"AR"}
             [] kind \in {"order", "project"} -> StatesOf(kind)
             [] kind = "staff" -> ChartDepts \cup {"Unassigned"}
             [] kind = "resource" -> ChartDepts,
   who : IF kind = "resource" THEN ChartCrew ELSE {"nobody"}]

ChartInit == widget = "none" /\ books = <<>> /\ chartSteps = 0

-----------------------------------------------------------------------------
Worth(S) == MapThenSumSet(LAMBDA k : books[k].worth, S)

Bucket(days) ==
  CASE days <= 30 -> "Current" [] days \in 31 .. 60 -> "31-60"
    [] days \in 61 .. 90 -> "61-90" [] days > 90 -> "90+"

Skipped(b, f) == (f.period = "current" /\ b # "Current") \/ (f.period = "overdue" /\ b = "Current")

\* getArAgingChart.
AgingChart(f) ==
  [b \in Buckets |-> Worth({k \in DOMAIN books : /\ books[k].gone = (f.status = "closed")
                                                /\ Bucket(books[k].days) = b /\ ~Skipped(b, f)})]

\* computeExecutiveKpis: the bucket of the filter, and the sums.
KpiAging(f) ==
  LET counted == {k \in DOMAIN books : /\ books[k].gone = (f.status = "closed")
                                       /\ ~Skipped(Bucket(books[k].days), f)}
      Over(a, b) == Worth({k \in counted : a < books[k].days /\ books[k].days <= b})
  IN [b \in Buckets |->
        CASE b = "Current" -> Worth({k \in counted : books[k].days <= 30})
          [] b = "31-60" -> Over(30, 60)
          [] b = "61-90" -> Over(60, 90)
          [] b = "90+" -> Worth({k \in counted : books[k].days > 90})]

\* getPurchaseOrderChart, getProjectFunnelChart, getEmployeesByDepartmentChart: the
\* groups their filters let through, and the rows counted.  Orders are never deleted.
Admits(f, g) ==
  /\ f.status = "open" => g \in OpenStates
  /\ f.status = "closed" => g \in ClosedStates
  /\ f.dept # "all" => g = f.dept

Counted(k, f) == (widget = "order" \/ ~books[k].gone) /\ Admits(f, books[k].group)

\* A bar for every group with rows; the funnel has one for every stage.
GroupChart(f) ==
  LET shown == {k \in DOMAIN books : Counted(k, f)}
      bars == IF widget = "project" THEN Stages ELSE {books[k].group : k \in shown}
  IN [g \in bars |-> Cardinality({k \in shown : books[k].group = g})]

\* take: all the rows, or so many of them, whichever the database puts first.
Limited(kind, n) == IF n <= TakeLimit[kind] THEN n ELSE TakeLimit[kind]
Taken(kind, S) == {T \in SUBSET S : Cardinality(T) = Limited(kind, Cardinality(S))}

\* getResourceHeatmap: of the allocations taken, the first of each pair is shown.
Pair(k) == <<books[k].group, books[k].who>>
Cells(T) == {S \in SUBSET T : \A k \in T : \E j \in S : \A i \in S : Pair(i) = Pair(k) <=> i = j}
HeatMap(S) == [p \in {Pair(k) : k \in S} |-> books[CHOOSE k \in S : Pair(k) = p].worth]

\* The charts a query may answer.
ChartsOf(f) ==
  CASE widget = "bill" -> {AgingChart(f)}
    [] widget = "resource" -> {HeatMap(S) : S \in UNION {Cells(T) : T \in Taken("resource", DOMAIN books)}}
    [] OTHER -> {GroupChart(f)}

\* getDrillDown: the rows behind a bar, or behind the project of a heat map's cell.
RowsBehind(g) ==
  CASE widget = "bill" -> {k \in DOMAIN books : ~books[k].gone /\ Bucket(books[k].days) = g}
    [] widget = "order" -> {k \in DOMAIN books : books[k].group = g}
    [] widget = "resource" -> {k \in DOMAIN books : books[k].group = g[1]}
    [] OTHER -> {k \in DOMAIN books : ~books[k].gone /\ books[k].group = g}

\* The lists it may answer; those of invoices and allocations are whole.
DrillDowns(g) ==
  IF widget \in {"bill", "resource"} THEN {RowsBehind(g)} ELSE Taken(widget, RowsBehind(g))

-----------------------------------------------------------------------------
ChartStep == chartSteps < MaxChartSteps /\ chartSteps' = chartSteps + 1

OpenWidget ==
  /\ widget = "none" /\ widget' \in ChartKinds
  /\ UNCHANGED <<books, chartSteps>>

AddRow ==
  /\ widget # "none" /\ Len(books) < MaxChartRows
  /\ \E r \in RowsOf(widget) : ~r.gone /\ books' = Append(books, r)
  /\ UNCHANGED <<widget, chartSteps>>

ChangeRow ==
  /\ ChartStep
  /\ \E k \in DOMAIN books :
       \/ widget \in {"bill", "project", "staff"} /\ books' = [books EXCEPT ![k].gone = ~@]
       \/ /\ widget \in {"order", "project"}
          /\ \E g \in StatesOf(widget) \ {books[k].group} : books' = [books EXCEPT ![k].group = g]
  /\ UNCHANGED widget

DayPasses ==
  /\ widget = "bill" /\ ChartStep
  /\ books' = [k \in DOMAIN books |-> [books[k] EXCEPT !.days = @ + 1]]
  /\ UNCHANGED widget

ChartNext == OpenWidget \/ AddRow \/ ChangeRow \/ DayPasses

ChartSpec == ChartInit /\ [][ChartNext]_chartVars

-----------------------------------------------------------------------------
\* getWidgetData and getDrillDown: while the books stand still, a bar its filters let
\* through counts the rows its drill-down lists, which breaks off at its limit, and the
\* others are zero; a cell of the heat map is one of the rows.  (The drill-down of the
\* ageing takes open invoices only, and knows no filter.)
BarIsItsRows(f, g, value) ==
  \A rows \in DrillDowns(g) :
    CASE widget = "bill" -> f.status = "closed" \/ Skipped(g, f) \/ value = Worth(rows)
      [] widget = "resource" -> \E k \in rows : books[k].who = g[2] /\ books[k].worth = value
      [] OTHER -> IF Admits(f, g)
                  THEN Cardinality(rows) = Limited(widget, value) ELSE value = 0

BarsAreTheirRows ==
  widget # "none" =>
    \A f \in FiltersOf(widget) : \A chart \in ChartsOf(f) : \A g \in DOMAIN chart :
      BarIsItsRows(f, g, chart[g])

\* computeExecutiveKpis and getArAgingChart: the KPIs age the receivables as the
\* chart does, whatever the filters and the days.
KpisAgeAlike ==
  widget = "bill" =>
    \A f \in FiltersOf("bill"), b \in Buckets : KpiAging(f)[b] = AgingChart(f)[b]

\* The charts as a whole.
ChartsTell == BarsAreTheirRows /\ KpisAgeAlike

\* The analytics: its reports and its charts.
AnalyticsTells == ReportsHold /\ ChartsTell
=============================================================================
