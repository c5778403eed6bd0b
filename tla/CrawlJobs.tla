----------------------------- MODULE CrawlJobs -----------------------------
(***************************************************************************)
(* The life of a crawl job: the API handlers of                            *)
(* src/src/api/v1/crawler/router.py, the arq queue between them and the    *)
(* worker, and the worker task of src/src/worker/tasks.py, all writing the *)
(* same crawl_jobs row.  A handler that reads a row and later commits is   *)
(* two steps; a run is one step per transaction it commits.                *)
(***************************************************************************)
EXTENDS Naturals, FiniteSets

CONSTANTS
    Jobs,       \* job ids: uuid4, never used twice
    NoJob,      \* stands for "no job" in a request record
    Clients,    \* concurrent API requests
    Modes,      \* the control flows of a run that occur
    MaxPages,   \* bound: pages a job ever records
    MaxJobs,    \* WorkerSettings.max_jobs: runs one worker holds
    MaxTries,   \* arq's max_tries: times a queue entry is started
    MaxStops,   \* bound: worker restarts that hit a run
    MaxFaults   \* bound: timeouts, rejected writes and dying requests

AllModes == {"sitemap", "shallow", "deep", "crawler", "scraper"}

ASSUME NoJobAssumption == NoJob \notin Jobs
ASSUME ModesAssumption == Modes \subseteq AllModes
ASSUME BoundsAssumption ==
    /\ MaxPages \in Nat \ {0}
    /\ MaxJobs \in Nat \ {0}
    /\ MaxTries \in Nat \ {0}
    /\ MaxStops \in Nat
    /\ MaxFaults \in Nat

NoMode == "no_mode"

\* "none": the row is not inserted yet; "deleted": it is gone for good.
Statuses == {"none", "queued", "running", "completed", "failed",
             "cancelled", "deleted"}

VARIABLES
    status,     \* crawl_jobs.status
    mode,       \* crawl_jobs.mode, link_extraction split by its strategy
    disc,       \* crawl_jobs.urls_discovered
    scraped,    \* crawl_jobs.urls_scraped
    found,      \* rows of discovered_urls, by the count at their insertion
    items,      \* number of rows of crawl_result_items
    arq,        \* the queue entry: "none", "queued", "running", "done"
    tries,      \* how often arq has started the entry
    pc,         \* where the run of a job is
    mem,        \* the run's in-memory CrawlJob
    locked,     \* the run's open transaction holds the row lock of its job
    req,        \* the API request each client has open
    stops,      \* restarts so far
    faults,     \* faults so far
    late,       \* ghost: pages committed since the job became cancelled
    lost        \* ghost: jobs a fault left active with no run to come

row == <<status, mode, disc, scraped, found, items, late>>
run == <<arq, tries, pc, mem, locked, lost>>
budget == <<stops, faults>>
vars == <<row, run, req, budget>>

Active(j) == status[j] \in {"queued", "running"}
Exists(j) == status[j] \notin {"none", "deleted"}
Live(j) == pc[j] # "idle"
Streaming(j) == mode[j] # "shallow"
Scrapes(j) == mode[j] \in {"crawler", "scraper"}

\* base is urls_discovered as it was loaded.
NoMem == [status |-> "none", disc |-> 0, scraped |-> 0, base |-> 0]
For(op, j) == [op |-> op, job |-> j, mode |-> NoMode, url |-> 0]
Idle == For("idle", NoJob)

Init ==
    /\ status = [j \in Jobs |-> "none"]
    /\ mode = [j \in Jobs |-> NoMode]
    /\ disc = [j \in Jobs |-> 0]
    /\ scraped = [j \in Jobs |-> 0]
    /\ found = [j \in Jobs |-> {}]
    /\ items = [j \in Jobs |-> 0]
    /\ late = [j \in Jobs |-> 0]
    /\ arq = [j \in Jobs |-> "none"]
    /\ tries = [j \in Jobs |-> 0]
    /\ pc = [j \in Jobs |-> "idle"]
    /\ mem = [j \in Jobs |-> NoMem]
    /\ locked = [j \in Jobs |-> FALSE]
    /\ lost = {}
    /\ req = [c \in Clients |-> Idle]
    /\ stops = 0
    /\ faults = 0

-----------------------------------------------------------------------------
(* The API.  A handler's await of the database separates its read from its *)
(* commit; the session holds no lock in between.                           *)

Open(c, r) == req' = [req EXCEPT ![c] = r]
Respond(c) == Open(c, Idle)

\* INSERT of the job row with QUEUED; the commit precedes db.refresh.
Insert(c, j, m) ==
    /\ status[j] = "none"
    /\ status' = [status EXCEPT ![j] = "queued"]
    /\ mode' = [mode EXCEPT ![j] = m]
    /\ Open(c, For("refresh", j))
    /\ UNCHANGED <<disc, scraped, found, items, late>>

CreateCrawl(c, j, m) ==
    /\ req[c].op = "idle"
    /\ Insert(c, j, m)
    /\ UNCHANGED <<run, budget>>

\* The URLs are read from the source job; deduplication keeps emptiness.
ReadDiscovered(c, src) ==
    /\ req[c].op = "idle"
    /\ "scraper" \in Modes
    /\ Exists(src)
    /\ found[src] # {}
    /\ Open(c, [For("insert", NoJob) EXCEPT !.mode = "scraper"])
    /\ UNCHANGED <<row, run, budget>>

ReadRetrySource(c, src) ==
    /\ req[c].op = "idle"
    /\ status[src] \in {"failed", "cancelled"}
    /\ Open(c, [For("insert", NoJob) EXCEPT !.mode = mode[src]])
    /\ UNCHANGED <<row, run, budget>>

InsertCopy(c, j) ==
    /\ req[c].op = "insert"
    /\ Insert(c, j, req[c].mode)
    /\ UNCHANGED <<run, budget>>

\* db.refresh raises when another request has deleted the row meanwhile.
Refresh(c) ==
    /\ req[c].op = "refresh"
    /\ IF Exists(req[c].job)
         THEN Open(c, For("enqueue", req[c].job))
         ELSE Respond(c)
    /\ UNCHANGED <<row, run, budget>>

Enqueue(c) ==
    /\ req[c].op = "enqueue"
    /\ arq' = [arq EXCEPT ![req[c].job] = "queued"]
    /\ Respond(c)
    /\ UNCHANGED <<row, tries, pc, mem, locked, lost, budget>>

ReadForCancel(c, j) ==
    /\ req[c].op = "idle"
    /\ Active(j)
    /\ Open(c, For("cancel", j))
    /\ UNCHANGED <<row, run, budget>>

\* UPDATE ... WHERE id = j, whatever the row says now; no row, no effect.
CommitCancel(c) ==
    LET j == req[c].job IN
    /\ req[c].op = "cancel"
    /\ ~locked[j]
    /\ IF Exists(j)
         THEN /\ status' = [status EXCEPT ![j] = "cancelled"]
              /\ late' = [late EXCEPT ![j] = IF status[j] = "cancelled" THEN @ ELSE 0]
         ELSE UNCHANGED <<status, late>>
    /\ Respond(c)
    /\ UNCHANGED <<mode, disc, scraped, found, items, run, budget>>

ReadForDelete(c, j) ==
    /\ req[c].op = "idle"
    /\ Exists(j)
    /\ ~Active(j)
    /\ Open(c, For("delete", j))
    /\ UNCHANGED <<row, run, budget>>

\* DELETE ... WHERE id = j; the foreign keys cascade to the job's rows.
CommitDelete(c) ==
    LET j == req[c].job IN
    /\ req[c].op = "delete"
    /\ ~locked[j]
    /\ status' = [status EXCEPT ![j] = "deleted"]
    /\ disc' = [disc EXCEPT ![j] = 0]
    /\ scraped' = [scraped EXCEPT ![j] = 0]
    /\ found' = [found EXCEPT ![j] = {}]
    /\ items' = [items EXCEPT ![j] = 0]
    /\ late' = [late EXCEPT ![j] = 0]
    /\ Respond(c)
    /\ UNCHANGED <<mode, run, budget>>

ReadForUnlink(c, j, u) ==
    /\ req[c].op = "idle"
    /\ u \in found[j]
    /\ Open(c, [For("unlink", j) EXCEPT !.url = u])
    /\ UNCHANGED <<row, run, budget>>

CommitUnlink(c) ==
    /\ req[c].op = "unlink"
    /\ found' = [found EXCEPT ![req[c].job] = @ \ {req[c].url}]
    /\ Respond(c)
    /\ UNCHANGED <<status, mode, disc, scraped, items, late, run, budget>>

-----------------------------------------------------------------------------
(* The worker.  run_crawl_job writes through one session, so every write   *)
(* goes to the row as it is now, from the copy loaded at the start.        *)

Leave(j, entry) ==
    /\ pc' = [pc EXCEPT ![j] = "idle"]
    /\ mem' = [mem EXCEPT ![j] = NoMem]
    /\ locked' = [locked EXCEPT ![j] = FALSE]
    /\ arq' = [arq EXCEPT ![j] = entry]
    /\ UNCHANGED tries

\* Shallow mode adds its pages to the session and commits them as a batch.
Pending(j) == IF Streaming(j) THEN {} ELSE (mem[j].base + 1)..mem[j].disc

\* Mutant: the commit writes the whole row, status included.
FlushWholeRow(j, d, s) ==
    /\ status' = [status EXCEPT ![j] = mem[j].status]
    /\ disc' = [disc EXCEPT ![j] = d]
    /\ scraped' = [scraped EXCEPT ![j] = s]
    /\ found' = [found EXCEPT ![j] = @ \cup (disc[j] + 1)..d]
    /\ items' = [items EXCEPT ![j] = @ + (s - scraped[j])]
    /\ UNCHANGED <<mode, late>>

\* A commit of the session's pages: rows and the absolute counters.
FlushPages(j, d, s) ==
    /\ disc' = [disc EXCEPT ![j] = d]
    /\ scraped' = [scraped EXCEPT ![j] = s]
    /\ found' = [found EXCEPT ![j] = @ \cup (disc[j] + 1)..d]
    /\ items' = [items EXCEPT ![j] = @ + (s - scraped[j])]
    /\ late' = [late EXCEPT ![j] = IF status[j] = "cancelled"
                                     THEN @ + (d - disc[j]) ELSE @]
    /\ UNCHANGED <<status, mode>>

WriteStatus(j, s) ==
    /\ status' = [status EXCEPT ![j] = s]
    /\ UNCHANGED <<mode, disc, scraped, found, items, late>>

Goto(j, label) == pc' = [pc EXCEPT ![j] = label]

\* arq starts an entry while it has a free slot.
Startable(j) ==
    /\ arq[j] = "queued"
    /\ tries[j] < MaxTries
    /\ Cardinality({k \in Jobs : Live(k)}) < MaxJobs

\* The start guard: a missing or cancelled job is not run.
SkipJob(j) ==
    /\ Startable(j)
    /\ status[j] \in {"deleted", "cancelled"}
    /\ arq' = [arq EXCEPT ![j] = "done"]
    /\ tries' = [tries EXCEPT ![j] = @ + 1]
    /\ UNCHANGED <<row, pc, mem, locked, lost, req, budget>>

\* Mutant: the start guard forgets cancelled jobs.
LoadAnyJob(j) ==
    /\ Startable(j)
    /\ status[j] # "deleted"
    /\ arq' = [arq EXCEPT ![j] = "running"]
    /\ tries' = [tries EXCEPT ![j] = @ + 1]
    /\ mem' = [mem EXCEPT ![j] = [status |-> status[j], disc |-> disc[j],
                                  scraped |-> scraped[j], base |-> disc[j]]]
    /\ Goto(j, "loaded")
    /\ UNCHANGED <<row, locked, lost, req, budget>>

\* Mutant: a rerun counts its pages from zero.
LoadFromZero(j) ==
    /\ Startable(j)
    /\ status[j] \notin {"deleted", "cancelled"}
    /\ arq' = [arq EXCEPT ![j] = "running"]
    /\ tries' = [tries EXCEPT ![j] = @ + 1]
    /\ mem' = [mem EXCEPT ![j] = [NoMem EXCEPT !.status = status[j]]]
    /\ Goto(j, "loaded")
    /\ UNCHANGED <<row, locked, lost, req, budget>>

LoadJob(j) ==
    /\ Startable(j)
    /\ status[j] \notin {"deleted", "cancelled"}
    /\ arq' = [arq EXCEPT ![j] = "running"]
    /\ tries' = [tries EXCEPT ![j] = @ + 1]
    /\ mem' = [mem EXCEPT ![j] = [status |-> status[j], disc |-> disc[j],
                                  scraped |-> scraped[j], base |-> disc[j]]]
    /\ Goto(j, "loaded")
    /\ UNCHANGED <<row, locked, lost, req, budget>>

\* The ORM writes a column only when its value changed: a job loaded as
\* RUNNING has its status left alone.
StartRun(j) ==
    /\ pc[j] = "loaded"
    /\ Exists(j)
    /\ WriteStatus(j, IF mem[j].status = "running" THEN status[j] ELSE "running")
    /\ mem' = [mem EXCEPT ![j].status = "running"]
    /\ Goto(j, "started")
    /\ UNCHANGED <<arq, tries, locked, lost, req, budget>>

BuildSettings(j) ==
    /\ pc[j] = "started"
    /\ Goto(j, "engine")
    /\ UNCHANGED <<row, arq, tries, mem, locked, lost, req, budget>>

\* Mutant: the run returns on bad settings without saying so.
IgnoreSettings(j) ==
    /\ pc[j] = "started"
    /\ Exists(j)
    /\ Goto(j, "finlog")
    /\ UNCHANGED <<row, arq, tries, mem, locked, lost, req, budget>>

RejectSettings(j) ==
    /\ pc[j] = "started"
    /\ Exists(j)
    /\ WriteStatus(j, "failed")
    /\ Goto(j, "finlog")
    /\ UNCHANGED <<arq, tries, mem, locked, lost, req, budget>>

OpenEngine(j) ==
    /\ pc[j] = "engine"
    /\ Goto(j, "next")
    /\ UNCHANGED <<row, arq, tries, mem, locked, lost, req, budget>>

\* Mutant: is_cancelled looks at the loaded job and not at the row.
CheckLoadedStatus(j) ==
    /\ pc[j] = "next"
    /\ mem[j].disc < MaxPages
    /\ mem[j].status # "cancelled"
    /\ Goto(j, "write")
    /\ UNCHANGED <<row, arq, tries, mem, locked, lost, req, budget>>

\* is_cancelled before a page.  In shallow mode its SELECT first flushes the
\* pages added so far, and the flush keeps the row locked until the batch
\* commits.  On a cancelled job the log commits whatever is pending.
CheckCancelled(j) ==
    /\ pc[j] = "next"
    /\ mem[j].disc < MaxPages
    /\ Pending(j) # {} => Exists(j)
    /\ IF status[j] = "cancelled"
         THEN /\ FlushPages(j, mem[j].disc, mem[j].scraped)
              /\ Goto(j, "stopped")
              /\ UNCHANGED locked
         ELSE /\ Goto(j, "write")
              /\ locked' = [locked EXCEPT ![j] = Pending(j) # {}]
              /\ UNCHANGED row
    /\ UNCHANGED <<arq, tries, mem, lost, req, budget>>

RecordPage(j) ==
    LET d == mem[j].disc + 1
        s == IF Scrapes(j) THEN mem[j].scraped + 1 ELSE mem[j].scraped
    IN
    /\ pc[j] = "write"
    /\ IF Streaming(j) THEN Exists(j) /\ FlushPages(j, d, s) ELSE UNCHANGED row
    /\ mem' = [mem EXCEPT ![j].disc = d, ![j].scraped = s]
    /\ Goto(j, "next")
    /\ UNCHANGED <<arq, tries, locked, lost, req, budget>>

\* The engine has no more URLs; shallow mode commits its batch here.
EndOfStream(j) ==
    /\ pc[j] = "next"
    /\ IF Pending(j) # {}
         THEN Exists(j) /\ FlushPages(j, mem[j].disc, mem[j].scraped)
         ELSE UNCHANGED row
    /\ locked' = [locked EXCEPT ![j] = FALSE]
    /\ Goto(j, "final")
    /\ UNCHANGED <<arq, tries, mem, lost, req, budget>>

\* Mutant: a run that loaded nothing is a success.
VerdictOfEmpty(j) == IF pc[j] = "stopped" THEN "cancelled" ELSE "completed"

Verdict(j) ==
    CASE pc[j] = "stopped" -> "cancelled"
      [] pc[j] = "final" /\ mem[j].disc = 0 -> "failed"
      [] OTHER -> "completed"

SettleRun(j) ==
    /\ pc[j] \in {"final", "stopped"}
    /\ Exists(j)
    /\ WriteStatus(j, Verdict(j))
    /\ Goto(j, "finlog")
    /\ UNCHANGED <<arq, tries, mem, locked, lost, req, budget>>

\* The places where the engine, or leaving it, may raise into the except
\* branch: nothing is pending there.
MayRaise(j) ==
    \/ pc[j] = "engine"
    \/ pc[j] \in {"final", "stopped"} /\ mode[j] # "sitemap"
    \/ pc[j] = "next" /\ mode[j] \notin {"sitemap", "shallow"}
    \/ pc[j] = "write" /\ Scrapes(j)

\* Mutant: the except branch logs the error without failing the job.
FailQuietly(j) ==
    /\ MayRaise(j)
    /\ Exists(j)
    /\ Goto(j, "finlog")
    /\ UNCHANGED <<row, arq, tries, mem, locked, lost, req, budget>>

FailRun(j) ==
    /\ MayRaise(j)
    /\ Exists(j)
    /\ WriteStatus(j, "failed")
    /\ Goto(j, "finlog")
    /\ UNCHANGED <<arq, tries, mem, locked, lost, req, budget>>

\* Every write to a deleted job raises, and so does the except branch's
\* commit: the task ends and arq does not run it again.
WritesNext(j) ==
    \/ pc[j] \in {"loaded", "started", "final", "stopped"}
    \/ MayRaise(j)
    \/ pc[j] = "write" /\ Streaming(j)
    \/ pc[j] = "next" /\ Pending(j) # {}

RunDies(j) ==
    /\ status[j] = "deleted"
    /\ WritesNext(j)
    /\ Leave(j, "done")
    /\ UNCHANGED <<row, lost, req, budget>>

EndRun(j) ==
    /\ pc[j] = "finlog"
    /\ Leave(j, "done")
    /\ UNCHANGED <<row, lost, req, budget>>

\* arq finishes an entry that has used up its tries without running it.
GiveUp(j) ==
    /\ arq[j] = "queued"
    /\ tries[j] = MaxTries
    /\ arq' = [arq EXCEPT ![j] = "done"]
    /\ lost' = IF Active(j) THEN lost \cup {j} ELSE lost
    /\ UNCHANGED <<row, tries, pc, mem, locked, req, budget>>

-----------------------------------------------------------------------------
(* The environment: restarts, timeouts, rejected writes, dying requests.   *)

\* A worker restart cancels the task or kills it; arq keeps the entry.
Interrupt(j) ==
    /\ Live(j)
    /\ stops < MaxStops
    /\ stops' = stops + 1
    /\ Leave(j, "queued")
    /\ UNCHANGED <<row, lost, req, faults>>

Fault == faults < MaxFaults /\ faults' = faults + 1

AbandonRun(j) ==
    /\ Leave(j, "done")
    /\ lost' = IF Active(j) THEN lost \cup {j} ELSE lost

\* job_timeout: the CancelledError passes the except Exception branch.
TimeoutRun(j) ==
    /\ Live(j)
    /\ Fault
    /\ AbandonRun(j)
    /\ UNCHANGED <<row, req, stops>>

\* The database refuses a flush; the session needs a rollback the except
\* branch does not do, so its own commit raises too.
RejectWrite(j) ==
    /\ WritesNext(j)
    /\ Fault
    /\ AbandonRun(j)
    /\ UNCHANGED <<row, req, stops>>

\* The API process dies, or the queue cannot be reached after the commit.
DropRequest(c) ==
    /\ req[c].op # "idle"
    /\ Fault
    /\ Respond(c)
    /\ lost' = IF req[c].op \in {"refresh", "enqueue"} /\ Active(req[c].job)
                 THEN lost \cup {req[c].job} ELSE lost
    /\ UNCHANGED <<row, arq, tries, pc, mem, locked, stops>>

-----------------------------------------------------------------------------
Handler(c) ==
    \/ \E j \in Jobs : \/ \E m \in Modes : CreateCrawl(c, j, m)
                       \/ ReadDiscovered(c, j)
                       \/ ReadRetrySource(c, j)
                       \/ InsertCopy(c, j)
                       \/ ReadForCancel(c, j)
                       \/ ReadForDelete(c, j)
                       \/ \E u \in found[j] : ReadForUnlink(c, j, u)
    \/ Refresh(c)
    \/ Enqueue(c)
    \/ CommitCancel(c)
    \/ CommitDelete(c)
    \/ CommitUnlink(c)

Worker(j) ==
    \/ SkipJob(j) \/ LoadJob(j) \/ GiveUp(j)
    \/ StartRun(j) \/ BuildSettings(j) \/ RejectSettings(j)
    \/ OpenEngine(j) \/ CheckCancelled(j) \/ RecordPage(j) \/ EndOfStream(j)
    \/ SettleRun(j) \/ FailRun(j) \/ RunDies(j) \/ EndRun(j)

Environment ==
    \/ \E j \in Jobs : Interrupt(j) \/ TimeoutRun(j) \/ RejectWrite(j)
    \/ \E c \in Clients : DropRequest(c)

Next ==
    \/ \E c \in Clients : Handler(c)
    \/ \E j \in Jobs : Worker(j)
    \/ Environment

Spec == Init /\ [][Next]_vars

\* The worker keeps running and an accepted request reaches its enqueue.
Fairness ==
    /\ \A j \in Jobs : WF_vars(Worker(j))
    /\ \A c \in Clients : WF_vars(Refresh(c)) /\ WF_vars(Enqueue(c))

FairSpec == Spec /\ Fairness

-----------------------------------------------------------------------------
(* Properties. *)

Ops == {"idle", "insert", "refresh", "enqueue", "cancel", "delete", "unlink"}
Labels == {"idle", "loaded", "started", "engine", "next", "write", "final",
           "stopped", "finlog"}

RowTypeOK ==
    /\ status \in [Jobs -> Statuses]
    /\ mode \in [Jobs -> Modes \cup {NoMode}]
    /\ disc \in [Jobs -> 0..MaxPages]
    /\ scraped \in [Jobs -> 0..MaxPages]
    /\ found \in [Jobs -> SUBSET (1..MaxPages)]
    /\ items \in [Jobs -> Nat]
    /\ late \in [Jobs -> Nat]

QueueTypeOK ==
    /\ arq \in [Jobs -> {"none", "queued", "running", "done"}]
    /\ tries \in [Jobs -> 0..MaxTries]
    /\ lost \subseteq Jobs

RunTypeOK ==
    /\ pc \in [Jobs -> Labels]
    /\ mem \in [Jobs -> [status : Statuses, disc : 0..MaxPages,
                         scraped : 0..MaxPages, base : 0..MaxPages]]
    /\ locked \in [Jobs -> BOOLEAN]

RequestTypeOK ==
    req \in [Clients -> [op : Ops, job : Jobs \cup {NoJob},
                         mode : Modes \cup {NoMode}, url : 0..MaxPages]]

BudgetTypeOK == stops \in 0..MaxStops /\ faults \in 0..MaxFaults

\* Every variable has its type.
TypeOK == RowTypeOK /\ QueueTypeOK /\ RunTypeOK /\ RequestTypeOK /\ BudgetTypeOK

\* The counters a job reports agree with the rows stored for it, across
\* reruns and concurrent deletions: as many result items as urls_scraped,
\* no more scraped than discovered, no URL row beyond urls_discovered.
Accounting ==
    \A j \in Jobs :
        /\ items[j] = scraped[j]
        /\ scraped[j] <= disc[j]
        /\ found[j] \subseteq 1..disc[j]

\* A job reported as completed has loaded at least one page
\* (the verdict of run_crawl_job), whichever run or request wrote last.
CompletedHasPages ==
    \A j \in Jobs : status[j] = "completed" => disc[j] > 0

\* An active job has a run to come: its request is about to enqueue it, or
\* arq holds its entry.  Only the faults that count in lost break this.
NoSilentStranding ==
    \A j \in Jobs :
        Active(j) =>
            \/ j \in lost
            \/ arq[j] \in {"queued", "running"}
            \/ \E c \in Clients :
                   req[c].op \in {"refresh", "enqueue"} /\ req[c].job = j

\* A cancelled job records at most one more page: is_cancelled is asked
\* before every page, in every mode.
BoundedOvershoot ==
    \A j \in Jobs : status[j] = "cancelled" => late[j] <= 1

\* No run has the job in hand, and the start guard will refuse it.
Stopped(j) == ~Live(j) /\ status[j] \in {"cancelled", "deleted"}

\* Cancelling or deleting a job that no run has in hand is final: cancel_crawl
\* and the start guard of run_crawl_job together keep it from ever running
\* again, whatever arq still holds for it and whatever request is late.
IdleCancelIsFinal == [][\A j \in Jobs : Stopped(j) => Stopped(j)']_vars

\* Every active job eventually settles, unless a fault lost it.
ActiveSettles == \A j \in Jobs : Active(j) ~> (~Active(j) \/ j \in lost)

\* What a client that polls the job sees (JobView).
View == INSTANCE JobView WITH
            pages <- disc,
            starts <- tries,
            live <- [j \in Jobs |-> pc[j] \notin {"idle", "finlog"}],
            asked <- [j \in Jobs |-> \E c \in Clients : req[c].op = "delete" /\ req[c].job = j]

\* The jobs, the queue and the worker implement that view: among other things a
\* job is only deleted by a request that has found it inactive (delete_crawl), though
\* it may have become active again by the time the row goes.
ImplementsView == View!Spec

-----------------------------------------------------------------------------
(* What the documentation says and the code does not keep. *)

\* docs/apis.md: cancel stops a queued or running job.  A run between its
\* load and its first commit, or between its last check and its verdict,
\* writes over the cancellation.
CancelSticks ==
    [][\A j \in Jobs : status[j] = "cancelled"
                         => status'[j] \in {"cancelled", "deleted"}]_vars
=============================================================================
