----------------------------- MODULE CrawlReads -----------------------------
(***************************************************************************)
(* The reading handlers of the crawl, data, dashboard and account routers  *)
(* (src/src/api).  Most of them answer from several statements, and every  *)
(* statement sees what is committed when it runs.  One request, or one     *)
(* client paging through a list, reads while jobs are created, crawl,      *)
(* change status and are deleted.  CrawlJobs has the writers in full; here *)
(* a write is what its commit shows a reader: the row it inserts and the   *)
(* counter it raises with it.                                              *)
(***************************************************************************)
EXTENDS Integers, FiniteSetsExt, SequencesExt

CONSTANTS
    Jobs, Rows,     \* ids of jobs, and of stored pages, URLs and log lines
    Null,           \* not yet there
    Gone,           \* a job deleted
    Limit,          \* rows of a page
    Recent,         \* jobs shown by the dashboard
    MonthStart,     \* first tick of the month
    PerSecond,      \* ticks of a second
    MaxTime,        \* bound: ticks
    MaxStored,      \* bound: rows there, and jobs ever created, which count twice
    MaxOverlap,     \* bound: commits during the one read,
    MaxBetween      \* or during a client's walk through a list

\* A row of crawl_jobs, and whether it has ever been settled; of the tables of
\* pages, URLs and log lines, and which of them hold it.
Statuses == {"queued", "running", "settled"}
JobRows == [at : Nat, status : Statuses, ended : BOOLEAN, urls : Nat, results : Nat]
Stores == {{"urls"}, {"urls", "results"}, {"logs"}}
TableRows == [tables : Stores \cup {{}, {"results"}}, job : Jobs, at : Nat]

ASSUME NullAssumption == /\ Null \notin Jobs \cup Rows \cup JobRows \cup TableRows
                         /\ Gone \notin JobRows \cup {Null}
ASSUME IdAssumption == IsFiniteSet(Jobs) /\ IsFiniteSet(Rows) /\ Jobs \cap Rows = {}
ASSUME LimitAssumption == Limit \in Nat \ {0} /\ Recent \in Nat
ASSUME TimeAssumption == MaxTime \in Nat /\ PerSecond \in Nat \ {0}

VARIABLES
    jobs,   \* crawl_jobs: id -> row, Null or Gone
    rows,   \* crawl_results, discovered_urls, log_lines: id -> row or Null;
            \* a page and its URL, stored together, are one row of both tables
    read,   \* the reading request
    since   \* ghost: what has happened since it began

vars == <<jobs, rows, read, since>>

Idle == [kind |-> "idle", stage |-> "none"]
Nothing == [changes |-> 0, created |-> FALSE, removed |-> FALSE]

LiveJobs == {j \in Jobs : jobs[j] \notin {Null, Gone}}
LiveRows == {i \in Rows : rows[i] # Null}
Of(table, j) == {i \in LiveRows : table \in rows[i].tables /\ j \in {Null, rows[i].job}}

Init ==
    /\ jobs = [j \in Jobs |-> Null]
    /\ rows = [i \in Rows |-> Null]
    /\ read = Idle
    /\ since = Nothing

-----------------------------------------------------------------------------
(* Writers. *)

\* How much has happened, and whether a job has been created or a row has left
\* what is read.
Notice(created, removed) ==
    /\ since' = IF read = Idle THEN since
                ELSE [changes |-> since.changes + 1, created |-> since.created \/ created,
                      removed |-> since.removed \/ removed]
    /\ UNCHANGED read

HasRoom == 2 * Cardinality({j \in Jobs : jobs[j] # Null}) + Cardinality(LiveRows) < MaxStored

\* at is the time it is stamped with, before the commit: a row may be committed
\* after others of a later time, by a request or a run that was slower.
CreateJob(j, at) ==
    /\ jobs[j] = Null /\ HasRoom
    /\ jobs' = [jobs EXCEPT ![j] = [at |-> at, status |-> "queued", ended |-> FALSE,
                                    urls |-> 0, results |-> 0]]
    /\ Notice(TRUE, FALSE)
    /\ UNCHANGED rows

\* Mutant: a page is counted as a URL only.
UrlCounted(row, tables) == IF "urls" \in tables THEN [row EXCEPT !.urls = @ + 1] ELSE row

\* The job's counters with a row stored in tables; log lines are not counted.
Counted(row, tables) ==
    [row EXCEPT !.urls = @ + Cardinality(tables \cap {"urls"}),
                !.results = @ + Cardinality(tables \cap {"results"})]

\* Rows and their counters are one commit; they were stamped before it, by a
\* run that had read the job.  A run may go on after a cancel.
StoreRow(i, tables, j, at) ==
    /\ rows[i] = Null /\ HasRoom
    /\ j \in LiveJobs
    /\ jobs[j].status # "queued" /\ jobs[j].at <= at
    /\ rows' = [rows EXCEPT ![i] = [tables |-> tables, job |-> j, at |-> at]]
    /\ jobs' = [jobs EXCEPT ![j] = Counted(@, tables)]
    /\ Notice(FALSE, FALSE)

\* A settled job runs again when it is redelivered, or when its run overwrites a
\* cancel.  For a list filtered by status, a job that changes leaves it.
SetStatus(j, s) ==
    /\ j \in LiveJobs
    /\ s \notin {"queued", jobs[j].status}
    /\ jobs' = [jobs EXCEPT ![j].status = s, ![j].ended = @ \/ s = "settled"]
    /\ Notice(FALSE, read.kind = "list" /\ read.status = jobs[j].status)
    /\ UNCHANGED rows

\* With its rows.  The handler tests the status it has read: a job settled then
\* may run again by now.
DeleteJob(j) ==
    /\ j \in LiveJobs
    /\ jobs[j].ended
    /\ jobs' = [jobs EXCEPT ![j] = Gone]
    /\ rows' = [i \in Rows |-> IF i \in LiveRows /\ rows[i].job = j THEN Null ELSE rows[i]]
    /\ Notice(FALSE, TRUE)

\* The page and the job's counter stay.
DeleteUrl(i) ==
    /\ i \in Of("urls", Null)
    /\ rows' = [rows EXCEPT ![i].tables = @ \ {"urls"}]
    /\ Notice(FALSE, TRUE)
    /\ UNCHANGED jobs

-----------------------------------------------------------------------------
(* Lists: count, then one page, newest first. *)

\* What a list selects: jobs, or the rows of one table, of one job or of all.
Selected(table, j, status) ==
    IF table = "jobs" THEN {k \in LiveJobs : status \in {Null, jobs[k].status}}
    ELSE Of(table, j)

Matching == Selected(read.table, read.job, read.status)
Time(x) == IF x \in Jobs THEN jobs[x].at ELSE rows[x].at

Begin(new) ==
    /\ read = Idle
    /\ read' = new
    /\ UNCHANGED <<jobs, rows, since>>

\* unseen is a ghost: what was there at the start and has not been shown.
List(table, j, status, stage) ==
    Begin([kind |-> "list", stage |-> stage, table |-> table, job |-> j, status |-> status,
           offset |-> 0, total |-> 0, page |-> <<>>,
           unseen |-> Selected(table, j, status)])

ListCrawls(status) == List("jobs", Null, status, "count")
ListData(j) == List("results", j, Null, "count")
GetLogs(j) == List("logs", j, Null, "check")
ListDiscovered(j) == List("urls", j, Null, "check")

Go(new) == read' = new /\ UNCHANGED <<jobs, rows, since>>

\* Logs and discovered URLs are asked for by job: 404 without it.
CheckJob ==
    /\ read.stage = "check"
    /\ Go([read EXCEPT !.stage = IF read.job \in LiveJobs THEN "count" ELSE "done"])

CountRows ==
    /\ read.kind = "list" /\ read.stage = "count"
    /\ Go([read EXCEPT !.stage = "page", !.total = Cardinality(Matching)])

\* Mutant: in no order.
AnyOrder(S) == SetToSeqs(S)

\* ORDER BY the time, descending; rows of one time may come in any order.
Orders(S) ==
    {s \in SetToSeqs(S) : \A m, n \in DOMAIN s : m < n => Time(s[m]) >= Time(s[n])}

Slice(s, offset) == SubSeq(s, offset + 1, Min({offset + Limit, Len(s)}))

FetchPage ==
    /\ read.kind = "list" /\ read.stage = "page"
    /\ \E s \in Orders(Matching) :
         Go([read EXCEPT !.stage = "answered", !.page = Slice(s, read.offset),
                         !.unseen = @ \ Range(Slice(s, read.offset))])

\* The client goes on as long as the total it was told promises more.
NextPage ==
    /\ read.stage = "answered"
    /\ read.offset + Limit < read.total
    /\ Go([read EXCEPT !.stage = IF read.table \in {"logs", "urls"} THEN "check" ELSE "count",
                       !.offset = @ + Limit, !.total = 0, !.page = <<>>])

-----------------------------------------------------------------------------
(* One job: its row, then the times of its pages, then those of its URLs. *)

GetCrawl(j) ==
    Begin([kind |-> "detail", stage |-> IF j \in LiveJobs THEN "results" ELSE "none",
           job |-> j, row |-> jobs[j], results |-> <<>>, urls |-> <<>>])

\* The row first, then every page.
DownloadCrawl(j) ==
    Begin([kind |-> "download", stage |-> IF j \in LiveJobs THEN "results" ELSE "none",
           job |-> j, row |-> jobs[j], results |-> {}])

Second(i) == rows[i].at \div PerSecond

Seconds(S) == {Second(i) : i \in S}

\* Pages of each second, and URLs up to each second.
Throughput(S) == [t \in Seconds(S) |-> Cardinality({i \in S : Second(i) = t})]

\* Mutant: not summed up.
NotSummed(S) == Throughput(S)

Cumulative(S) == [t \in Seconds(S) |-> Cardinality({i \in S : Second(i) <= t})]

ReadResults ==
    /\ read.stage = "results"
    /\ Go(IF read.kind = "detail"
            THEN [read EXCEPT !.stage = "urls", !.results = Throughput(Of("results", read.job))]
            ELSE [read EXCEPT !.stage = "done", !.results = Of("results", read.job)])

ReadUrls ==
    /\ read.stage = "urls"
    /\ Go([read EXCEPT !.stage = "done", !.urls = Cumulative(Of("urls", read.job))])

-----------------------------------------------------------------------------
(* Stored pages: one statement each. *)

\* An empty selection is no selection: the filters apply.
Exported(ids, j) == IF ids = {} THEN Of("results", j) ELSE Of("results", Null) \cap ids

\* 404 if there is nothing to export; a single page is an export of one.
ExportData(ids, j) ==
    Begin([kind |-> "export", stage |-> "done", items |-> Exported(ids, j),
           found |-> Exported(ids, j) # {}])

GetDataItem(i) == ExportData({i}, Null)

-----------------------------------------------------------------------------
(* The dashboard and the account's usage. *)

\* GetOverview and GetUsage begin with the same three statements; which of the two
\* was asked for shows in the fourth.
GetFigures == Begin([kind |-> "figures", stage |-> "counts", counts |-> [s \in Statuses |-> 0],
                     scraped |-> 0, total |-> 0, month |-> 0, scrapedInMonth |-> 0,
                     recent |-> <<>>])

\* Mutant: a status is forgotten.
CountsOfUnsettled == [s \in Statuses |-> IF s = "settled" THEN 0 ELSE
                                         Cardinality({j \in LiveJobs : jobs[j].status = s})]

StatusCounts == [s \in Statuses |-> Cardinality({j \in LiveJobs : jobs[j].status = s})]

Scraped(S) == SumFunction([j \in S |-> jobs[j].results])
InMonth == {j \in LiveJobs : jobs[j].at >= MonthStart}

CountStatuses ==
    /\ read.stage = "counts"
    /\ Go([read EXCEPT !.stage = "sums", !.counts = StatusCounts])

SumUrls ==
    /\ read.stage = "sums"
    /\ Go([read EXCEPT !.stage = "total", !.scraped = Scraped(LiveJobs)])

CountJobs ==
    /\ read.stage = "total"
    /\ Go([read EXCEPT !.stage = "last", !.total = Cardinality(LiveJobs)])

RecentJobs ==
    /\ read.stage = "last"
    /\ \E s \in Orders(LiveJobs) :
         Go([read EXCEPT !.kind = "overview", !.stage = "done",
                         !.recent = SubSeq(s, 1, Min({Recent, Len(s)}))])

CountMonth ==
    /\ read.stage = "last"
    /\ Go([read EXCEPT !.kind = "usage", !.stage = "month", !.month = Cardinality(InMonth)])

SumMonth ==
    /\ read.stage = "month"
    /\ Go([read EXCEPT !.stage = "done", !.scrapedInMonth = Scraped(InMonth)])

-----------------------------------------------------------------------------
\* Bounds: MaxOverlap or MaxBetween changes before the answer, none after it.
Allowed == IF read.kind = "list" THEN MaxBetween ELSE MaxOverlap

Write ==
    /\ read = Idle \/ (read.stage \notin {"none", "done"} /\ since.changes < Allowed)
    /\ \/ \E j \in Jobs :
            \/ \E at \in 0..MaxTime : CreateJob(j, at)
            \/ \E s \in Statuses : SetStatus(j, s)
            \/ DeleteJob(j)
            \/ \E i \in Rows, tables \in Stores, at \in 0..MaxTime : StoreRow(i, tables, j, at)
       \/ \E i \in Rows : DeleteUrl(i)

Read ==
    \/ \E s \in {Null, "running"} : ListCrawls(s)
    \/ \E j \in Jobs \cup {Null} : ListData(j)
    \/ \E j \in Jobs : GetLogs(j) \/ ListDiscovered(j) \/ GetCrawl(j) \/ DownloadCrawl(j)
    \/ CheckJob \/ CountRows \/ FetchPage \/ NextPage
    \/ ReadResults \/ ReadUrls
    \/ \E ids \in SUBSET Rows, j \in Jobs \cup {Null} : ExportData(ids, j)
    \/ \E i \in Rows : GetDataItem(i)
    \/ GetFigures
    \/ CountStatuses \/ SumUrls \/ CountJobs \/ RecentJobs \/ CountMonth \/ SumMonth

Next == Write \/ Read

Spec == Init /\ [][Next]_vars

-----------------------------------------------------------------------------
(* Properties. *)

\* Every variable has its type, and the counters the reads rely on are those of
\* the rows, deleted URLs included.
Counters(j) ==
    /\ jobs[j].results = Cardinality(Of("results", j))
    /\ jobs[j].urls = Cardinality({i \in LiveRows : rows[i].job = j /\ rows[i].tables # {"logs"}})

TypeOK ==
    /\ \A j \in LiveJobs : /\ jobs[j].at \in 0..MaxTime
                           /\ jobs[j].status \in Statuses
                           /\ Counters(j)
    /\ \A i \in LiveRows : rows[i] \in [tables : Stores \cup {{}, {"results"}},
                                       job : LiveJobs, at : 0..MaxTime]

Answered(kind) == read.kind = kind /\ read.stage = "done"

\* A page is never shorter than the total given with it promises, while rows are
\* added, unless some are removed between the two statements.
PageKeepsPromise ==
    read.kind = "list" /\ read.stage = "answered" /\ ~since.removed =>
        Len(read.page) >= Min({Limit, read.total - read.offset})

\* A client that pages through a list leaves no gap: a row that was there when it
\* began and has not been shown yet is older than all the rows of the page just
\* shown, however many are stored meanwhile and however late they are committed.
\* Not so if rows are removed, nor for a row that shares its time with another
\* (the lists are ordered by the time alone, so two pages may order them
\* differently).  Nothing is said of rows stored after the walk began: one stamped
\* earlier than those shown is not shown; nor that the walk gets to the oldest
\* rows: it ends where the total, counted before the last page, says.
Untied(x) == \A y \in Matching : Time(x) = Time(y) => x = y

WalkLeavesNoGap ==
    read.kind = "list" /\ read.stage = "answered" /\ ~since.removed =>
        \A x \in read.unseen : Untied(x) => \A y \in Range(read.page) : Time(x) < Time(y)

\* What is read page by page is whole.
ListsAreWhole == PageKeepsPromise /\ WalkLeavesNoGap

\* The histories and the download of a job cover the counters shown beside
\* them, once the URLs deleted one by one are added, unless the job is deleted.
Deleted(j) == {i \in LiveRows : rows[i].job = j /\ rows[i].tables \in {{}, {"results"}}}

Latest(history) == IF DOMAIN history = {} THEN 0 ELSE history[Max(DOMAIN history)]

RowsCoverCounters ==
    /\ Answered("detail") /\ read.job \in LiveJobs =>
         /\ SumFunction(read.results) >= read.row.results
         /\ Latest(read.urls) + Cardinality(Deleted(read.job)) >= read.row.urls
    /\ Answered("download") /\ read.job \in LiveJobs =>
         Cardinality(read.results) >= read.row.results

\* The figures of an overview add up although jobs change status between the
\* statements, unless one is created or deleted.
OverviewAddsUp ==
    /\ (Answered("overview") \/ Answered("usage")) /\ ~since.created /\ ~since.removed =>
         SumFunction(read.counts) = read.total
    /\ Answered("overview") /\ ~since.created /\ ~since.removed =>
         Len(read.recent) = Min({Recent, read.total})
=============================================================================
