--------------------------- MODULE CrawlJobsProofs ---------------------------
(***************************************************************************)
(* The inductive invariant of CrawlJobs and the theorems that follow from  *)
(* it for every number of jobs, clients, pages, tries, restarts and faults,*)
(* the refinement of JobView among them.                                   *)
(***************************************************************************)
EXTENDS CrawlJobs, TLAPS

\* A job not inserted yet has no trace anywhere; a deleted one has no rows.
Blank(j) ==
    /\ disc[j] = 0 /\ scraped[j] = 0 /\ items[j] = 0 /\ late[j] = 0
    /\ found[j] = {}

Absent(j) ==
    /\ status[j] = "none" => /\ Blank(j) /\ arq[j] = "none"
                             /\ tries[j] = 0 /\ pc[j] = "idle"
    /\ status[j] # "none" => mode[j] \in Modes
    /\ status[j] = "deleted" => Blank(j)

\* arq runs exactly the live runs; between runs nothing is in memory.
Entry(j) ==
    /\ arq[j] = "running" <=> Live(j)
    /\ ~Live(j) => mem[j] = NoMem /\ ~locked[j]

\* What the row may say at each place of the run.
Place(j) ==
    /\ pc[j] = "loaded" =>
         /\ mem[j].status \in {"queued", "running", "completed", "failed"}
         /\ status[j] \in {mem[j].status, "cancelled", "deleted"}
    /\ pc[j] \in {"started", "engine", "next", "write", "final"} =>
         status[j] \in {"running", "cancelled", "deleted"}
    /\ pc[j] = "stopped" => status[j] \in {"cancelled", "deleted"}
    /\ pc[j] = "finlog" => status[j] \in {"completed", "failed", "cancelled", "deleted"}
    /\ pc[j] \notin {"idle", "loaded"} => mem[j].status = "running"

\* The in-memory counters, and how far they may be ahead of the row.
Memory(j) ==
    /\ mem[j].scraped <= mem[j].disc
    /\ mem[j].base <= mem[j].disc
    /\ pc[j] \in {"loaded", "started", "engine"} => mem[j].base = mem[j].disc
    /\ pc[j] = "write" => mem[j].disc < MaxPages

Synced(j) ==
    Live(j) /\ Exists(j) =>
        /\ mem[j].scraped = scraped[j]
        /\ Streaming(j) \/ pc[j] \notin {"next", "write"} => mem[j].disc = disc[j]
        /\ pc[j] \in {"loaded", "started", "engine"} => mem[j].base = disc[j]
        /\ ~Streaming(j) /\ pc[j] \in {"next", "write"} => mem[j].base = disc[j]

\* Once a second page is pending the row is locked, so no cancel can land.
Batch(j) ==
    /\ locked[j] => /\ status[j] = "running" /\ ~Streaming(j)
                    /\ pc[j] \in {"next", "write"}
    /\ ~Streaming(j) /\ ~locked[j] =>
         /\ pc[j] = "next" => mem[j].disc <= mem[j].base + 1
         /\ pc[j] = "write" => mem[j].disc = mem[j].base

Overshoot(j) ==
    status[j] = "cancelled" =>
        /\ late[j] <= 1
        /\ pc[j] \in {"loaded", "started", "engine", "write"} => late[j] = 0
        /\ ~Streaming(j) /\ pc[j] = "next" => late[j] = 0

\* The parts of Accounting and CompletedHasPages about one job.
Counts(j) ==
    /\ items[j] = scraped[j]
    /\ scraped[j] <= disc[j]
    /\ found[j] \subseteq 1..disc[j]
    /\ status[j] = "completed" => disc[j] > 0

JobInv(j) ==
    /\ Absent(j) /\ Entry(j) /\ Place(j) /\ Memory(j)
    /\ Synced(j) /\ Batch(j) /\ Overshoot(j) /\ Counts(j)

\* An open request names a job that was inserted, and the one about to be
\* enqueued has no queue entry yet and belongs to this request alone.
Requests ==
    \A c \in Clients :
        /\ req[c].op \in {"refresh", "enqueue", "cancel", "delete", "unlink"} =>
             req[c].job \in Jobs /\ status[req[c].job] # "none"
        /\ req[c].op = "insert" => req[c].mode \in Modes
        /\ req[c].op \in {"refresh", "enqueue"} =>
             /\ arq[req[c].job] = "none"
             /\ \A d \in Clients :
                  d # c /\ req[d].op \in {"refresh", "enqueue"} => req[d].job # req[c].job

IInv ==
    /\ TypeOK
    /\ \A j \in Jobs : JobInv(j)
    /\ Requests
    /\ NoSilentStranding

-----------------------------------------------------------------------------
(* Frames: what a step that leaves a job, or the requests, alone preserves. *)

USE NoJobAssumption, ModesAssumption, BoundsAssumption

\* The step changes nothing of job k.
Same(k) ==
    /\ status'[k] = status[k] /\ mode'[k] = mode[k] /\ disc'[k] = disc[k]
    /\ scraped'[k] = scraped[k] /\ found'[k] = found[k] /\ items'[k] = items[k]
    /\ late'[k] = late[k] /\ arq'[k] = arq[k] /\ tries'[k] = tries[k]
    /\ pc'[k] = pc[k] /\ mem'[k] = mem[k] /\ locked'[k] = locked[k]

\* A job whose state a step leaves alone keeps its invariant.
LEMMA JobFrame ==
    ASSUME NEW k \in Jobs, JobInv(k), Same(k)
    PROVE  JobInv(k)'
<1>1. Absent(k)' /\ Entry(k)' /\ Place(k)' /\ Memory(k)'
  BY DEF JobInv, Same, Absent, Blank, Entry, Live, Place, Memory
<1>2. Synced(k)'
  BY DEF JobInv, Same, Synced, Live, Exists, Streaming
<1>3. Batch(k)' /\ Overshoot(k)' /\ Counts(k)'
  BY DEF JobInv, Same, Batch, Overshoot, Counts, Streaming
<1> QED
  BY <1>1, <1>2, <1>3 DEF JobInv

\* A step of the worker, the queue or the environment on job j keeps the
\* whole invariant if it keeps j's own and does not strand it.
LEMMA JobStep ==
    ASSUME IInv, NEW j \in Jobs, UNCHANGED req,
           \A k \in Jobs \ {j} : Same(k),
           TypeOK', JobInv(j)',
           status[j] # "none" => status'[j] # "none",
           arq[j] = "none" => arq'[j] = "none",
           lost \subseteq lost',
           Active(j)' => \/ j \in lost'
                         \/ arq'[j] \in {"queued", "running"}
                         \/ Active(j) /\ arq'[j] = arq[j]
    PROVE  IInv'
<1>1. \A k \in Jobs : JobInv(k)'
  BY JobFrame DEF IInv
<1>2. Requests'
  BY DEF IInv, Requests, Same
<1>3. NoSilentStranding'
  BY DEF IInv, NoSilentStranding, Active, Same
<1> QED
  BY <1>1, <1>2, <1>3 DEF IInv

\* A commit of pages up to the count d keeps the row well-formed.
LEMMA FlushType ==
    ASSUME RowTypeOK, NEW j \in Jobs, NEW d \in disc[j]..MaxPages,
           NEW s \in scraped[j]..MaxPages, FlushPages(j, d, s)
    PROVE  RowTypeOK'
<1>1. disc[j] \in 0..MaxPages /\ scraped[j] \in 0..MaxPages
  BY DEF RowTypeOK
<1>2. d \in 0..MaxPages /\ s \in 0..MaxPages /\ d - disc[j] \in Nat /\ s - scraped[j] \in Nat
  BY <1>1
<1>3. disc' \in [Jobs -> 0..MaxPages] /\ scraped' \in [Jobs -> 0..MaxPages]
  BY <1>2 DEF RowTypeOK, FlushPages
<1>4. found' \in [Jobs -> SUBSET (1..MaxPages)]
  <2>1. (disc[j] + 1)..d \subseteq 1..MaxPages
    BY <1>1, <1>2
  <2> QED
    BY <2>1 DEF RowTypeOK, FlushPages
<1>5. items' \in [Jobs -> Nat]
  BY <1>2 DEF RowTypeOK, FlushPages
<1>6. late' \in [Jobs -> Nat]
  <2>1. late[j] \in Nat
    BY DEF RowTypeOK
  <2>2. late[j] + (d - disc[j]) \in Nat
    BY <1>2, <2>1
  <2> QED
    BY <2>1, <2>2 DEF RowTypeOK, FlushPages
<1> QED
  BY <1>3, <1>4, <1>5, <1>6 DEF RowTypeOK, FlushPages

\* What such a commit does to the job's own entries.
LEMMA FlushEffect ==
    ASSUME RowTypeOK, NEW j \in Jobs, NEW d \in disc[j]..MaxPages,
           NEW s \in scraped[j]..MaxPages, s <= d, FlushPages(j, d, s), Counts(j)
    PROVE  /\ Counts(j)'
           /\ disc'[j] = d /\ scraped'[j] = s
           /\ status'[j] = status[j] /\ mode'[j] = mode[j]
           /\ late'[j] = IF status[j] = "cancelled" THEN late[j] + (d - disc[j])
                                                    ELSE late[j]
<1>1. /\ disc'[j] = d /\ scraped'[j] = s
      /\ items'[j] = items[j] + (s - scraped[j])
      /\ found'[j] = found[j] \cup (disc[j] + 1)..d
      /\ status'[j] = status[j] /\ mode'[j] = mode[j]
      /\ late'[j] = IF status[j] = "cancelled" THEN late[j] + (d - disc[j]) ELSE late[j]
  BY DEF RowTypeOK, FlushPages
<1>2. /\ disc[j] \in Nat /\ scraped[j] \in Nat /\ d \in Nat /\ s \in Nat
      /\ disc[j] <= d
  BY DEF RowTypeOK
<1>3. items'[j] = s
  BY <1>1, <1>2 DEF Counts
<1>4. found'[j] \subseteq 1..d
  BY <1>1, <1>2 DEF Counts
<1> QED
  BY <1>1, <1>2, <1>3, <1>4 DEF Counts

LEMMA LoadJobStep ==
    ASSUME IInv, NEW j \in Jobs, LoadJob(j)
    PROVE  IInv'
<1> USE DEF LoadJob, Startable, Goto, row
<1>1. TypeOK /\ JobInv(j)
  BY DEF IInv
<1>2. TypeOK'
  <2>1. RowTypeOK'
    BY <1>1 DEF TypeOK, RowTypeOK
  <2>2. QueueTypeOK' /\ BudgetTypeOK'
    BY <1>1 DEF TypeOK, QueueTypeOK, BudgetTypeOK, budget
  <2>3. RunTypeOK'
    BY <1>1 DEF TypeOK, RowTypeOK, RunTypeOK, Labels, Statuses
  <2>4. RequestTypeOK'
    BY <1>1 DEF TypeOK, RequestTypeOK
  <2> QED
    BY <2>1, <2>2, <2>3, <2>4 DEF TypeOK
<1>3. \A k \in Jobs \ {j} : Same(k)
  BY <1>1 DEF Same, TypeOK, RowTypeOK, QueueTypeOK, RunTypeOK
<1>4. JobInv(j)'
  <2>1. /\ pc[j] = "idle" /\ ~locked[j] /\ status[j] \in Statuses
        /\ status[j] \notin {"none", "cancelled", "deleted"}
    BY <1>1 DEF TypeOK, RowTypeOK, QueueTypeOK, RunTypeOK, JobInv, Absent, Entry, Live
  <2>2. /\ pc'[j] = "loaded" /\ arq'[j] = "running" /\ status'[j] = status[j]
        /\ ~locked'[j] /\ disc'[j] = disc[j] /\ scraped'[j] = scraped[j]
        /\ mem'[j] = [status |-> status[j], disc |-> disc[j],
                      scraped |-> scraped[j], base |-> disc[j]]
    BY <1>1, <2>1 DEF TypeOK, QueueTypeOK, RunTypeOK
  <2>3. disc[j] \in Nat /\ scraped[j] \in Nat /\ scraped[j] <= disc[j]
    BY <1>1 DEF TypeOK, RowTypeOK, JobInv, Counts
  <2>4. Absent(j)' /\ Entry(j)' /\ Place(j)'
    BY <1>1, <2>1, <2>2 DEF JobInv, Absent, Entry, Place, Live, Statuses
  <2>5. Memory(j)' /\ Synced(j)' /\ Batch(j)'
    BY <2>1, <2>2, <2>3 DEF Memory, Synced, Batch
  <2>6. Overshoot(j)' /\ Counts(j)'
    BY <1>1, <2>1, <2>2 DEF Overshoot, Counts, JobInv
  <2> QED
    BY <2>4, <2>5, <2>6 DEF JobInv
<1> QED
  <2>1. /\ UNCHANGED req
        /\ status[j] # "none" => status'[j] # "none"
        /\ arq[j] = "none" => arq'[j] = "none"
        /\ lost \subseteq lost'
        /\ Active(j)' => \/ j \in lost'
                         \/ arq'[j] \in {"queued", "running"}
                         \/ Active(j) /\ arq'[j] = arq[j]
    BY <1>1 DEF TypeOK, QueueTypeOK, Active
  <2> QED
    BY <2>1, <1>2, <1>3, <1>4, JobStep DEF IInv

LEMMA CheckCancelledStep ==
    ASSUME IInv, NEW j \in Jobs, CheckCancelled(j)
    PROVE  IInv'
<1> DEFINE m == mem[j]
<1>1. TypeOK /\ JobInv(j) /\ pc[j] = "next" /\ m.disc < MaxPages
  BY DEF IInv, CheckCancelled
<1>a. /\ disc[j] \in Nat /\ scraped[j] \in Nat /\ late[j] \in Nat
      /\ m.disc \in 0..MaxPages /\ m.scraped \in 0..MaxPages /\ m.base \in Nat
      /\ status[j] \in {"running", "cancelled", "deleted"}
  BY <1>1 DEF TypeOK, RowTypeOK, RunTypeOK, JobInv, Place
<1>b. /\ arq'[j] = arq[j] /\ tries'[j] = tries[j] /\ mem'[j] = mem[j]
      /\ arq[j] = "running"
      /\ UNCHANGED <<arq, tries, mem, lost, req, budget>>
  BY <1>1 DEF CheckCancelled, JobInv, Entry, Live
<1>c. CASE status[j] = "cancelled"
  <2> DEFINE d == m.disc
             s == m.scraped
  <2>1. FlushPages(j, d, s) /\ pc' = [pc EXCEPT ![j] = "stopped"] /\ UNCHANGED locked
    BY <1>c DEF CheckCancelled, Goto
  <2>2. s = scraped[j] /\ disc[j] <= d /\ s <= d /\ ~locked[j]
    BY <1>1, <1>a, <1>c DEF JobInv, Synced, Memory, Batch, Live, Exists, Streaming
  <2>3. late[j] + (d - disc[j]) \in {0, 1}
    <3>1. CASE Streaming(j)
      BY <3>1, <1>1, <1>a, <1>c DEF JobInv, Synced, Overshoot, Live, Exists
    <3>2. CASE ~Streaming(j)
      BY <3>2, <2>2, <1>1, <1>a, <1>c DEF JobInv, Synced, Overshoot, Batch, Live, Exists
    <3> QED
      BY <3>1, <3>2
  <2>4. RowTypeOK' /\ Counts(j)' /\ disc'[j] = d /\ scraped'[j] = s
        /\ status'[j] = status[j] /\ mode'[j] = mode[j] /\ late'[j] \in {0, 1}
    BY <2>1, <2>2, <2>3, <1>1, <1>a, <1>c, FlushType, FlushEffect DEF TypeOK, JobInv
  <2>5. pc'[j] = "stopped" /\ ~locked'[j]
    BY <2>1, <2>2, <1>1 DEF TypeOK, RunTypeOK
  <2>6. TypeOK'
    <3>1. RunTypeOK'
      BY <1>1, <1>b, <2>1 DEF TypeOK, RunTypeOK, Labels
    <3>2. QueueTypeOK' /\ RequestTypeOK' /\ BudgetTypeOK'
      BY <1>1, <1>b DEF TypeOK, QueueTypeOK, RequestTypeOK, BudgetTypeOK, budget
    <3> QED
      BY <2>4, <3>1, <3>2 DEF TypeOK
  <2>7. \A k \in Jobs \ {j} : Same(k)
    BY <1>1, <1>b, <2>1 DEF Same, TypeOK, RowTypeOK, RunTypeOK, FlushPages
  <2>8. JobInv(j)'
    <3>1. Absent(j)' /\ Entry(j)' /\ Place(j)' /\ Memory(j)'
      BY <1>1, <1>b, <1>c, <2>4, <2>5 DEF JobInv, Absent, Entry, Place, Memory, Live
    <3>2. Synced(j)' /\ Batch(j)' /\ Overshoot(j)'
      BY <1>b, <1>c, <2>4, <2>5 DEF Synced, Batch, Overshoot, Live
    <3> QED
      BY <2>4, <3>1, <3>2 DEF JobInv
  <2> QED
    BY <1>b, <1>c, <2>4, <2>6, <2>7, <2>8, JobStep DEF Active
<1>d. CASE status[j] # "cancelled"
  <2>1. /\ pc' = [pc EXCEPT ![j] = "write"] /\ UNCHANGED row
        /\ locked' = [locked EXCEPT ![j] = Pending(j) # {}]
        /\ Pending(j) # {} => Exists(j)
    BY <1>d DEF CheckCancelled, Goto
  <2>2. pc'[j] = "write" /\ locked'[j] = (Pending(j) # {})
    BY <2>1, <1>1 DEF TypeOK, RunTypeOK
  <2>3. TypeOK'
    BY <1>1, <1>b, <2>1 DEF TypeOK, RowTypeOK, QueueTypeOK, RunTypeOK, RequestTypeOK,
                            BudgetTypeOK, Labels, row, budget
  <2>4. \A k \in Jobs \ {j} : Same(k)
    BY <1>1, <1>b, <2>1 DEF Same, TypeOK, RunTypeOK, row
  <2>5. JobInv(j)'
    <3>1. Absent(j)' /\ Entry(j)' /\ Place(j)' /\ Memory(j)'
      BY <1>1, <1>a, <1>b, <2>1, <2>2 DEF JobInv, Absent, Blank, Entry, Place, Memory, Live, row
    <3>2. Synced(j)' /\ Overshoot(j)' /\ Counts(j)'
      BY <1>1, <1>b, <1>d, <2>1, <2>2
         DEF JobInv, Synced, Overshoot, Counts, Live, Exists, Streaming, row
    <3>3. Batch(j)'
      <4>1. locked'[j] => status[j] = "running" /\ ~Streaming(j)
        BY <1>a, <1>d, <2>1, <2>2 DEF Pending, Exists
      <4>2. ~Streaming(j) /\ ~locked'[j] => m.disc = m.base
        <5>1. SUFFICES ASSUME ~Streaming(j), ~locked'[j] PROVE m.disc = m.base
          OBVIOUS
        <5>2. (m.base + 1)..m.disc = {}
          BY <2>2, <5>1 DEF Pending
        <5>3. m.base <= m.disc
          BY <1>1 DEF JobInv, Memory
        <5> QED
          BY <5>2, <5>3, <1>a
      <4> QED
        BY <4>1, <4>2, <1>b, <2>1, <2>2 DEF Batch, Streaming, row
    <3> QED
      BY <3>1, <3>2, <3>3 DEF JobInv
  <2> QED
    BY <1>b, <2>1, <2>3, <2>4, <2>5, JobStep DEF Active, row
<1> QED
  BY <1>c, <1>d

LEMMA RecordPageStep ==
    ASSUME IInv, NEW j \in Jobs, RecordPage(j)
    PROVE  IInv'
<1> DEFINE d == mem[j].disc + 1
           s == IF Scrapes(j) THEN mem[j].scraped + 1 ELSE mem[j].scraped
<1>1. TypeOK /\ JobInv(j) /\ pc[j] = "write"
  BY DEF IInv, RecordPage
<1>a. /\ disc[j] \in Nat /\ scraped[j] \in Nat /\ late[j] \in Nat /\ mem[j].base \in 0..MaxPages
      /\ mem[j].disc \in Nat /\ mem[j].scraped \in Nat
      /\ d \in 1..MaxPages /\ s \in 0..MaxPages /\ s <= d
      /\ mem[j].status = "running" /\ mem[j].base <= d
      /\ status[j] \in {"running", "cancelled", "deleted"}
  BY <1>1 DEF TypeOK, RowTypeOK, RunTypeOK, JobInv, Memory, Place
<1>b. /\ arq[j] = "running" /\ pc' = [pc EXCEPT ![j] = "next"]
      /\ mem' = [mem EXCEPT ![j].disc = d, ![j].scraped = s]
      /\ UNCHANGED <<arq, tries, locked, lost, req, budget>>
  BY <1>1 DEF RecordPage, Goto, JobInv, Entry, Live
<1>c. /\ pc'[j] = "next"
      /\ mem'[j] = [status |-> "running", disc |-> d, scraped |-> s, base |-> mem[j].base]
      /\ mem' = [mem EXCEPT ![j] = mem'[j]]
  <2> HIDE DEF d, s
  <2>1. mem[j] \in [status : Statuses, disc : 0..MaxPages, scraped : 0..MaxPages,
                    base : 0..MaxPages]
    BY <1>1 DEF TypeOK, RunTypeOK
  <2>2. mem'[j] = [mem[j] EXCEPT !.disc = d, !.scraped = s]
    BY <1>1, <1>b DEF TypeOK, RunTypeOK
  <2> QED
    BY <1>1, <1>a, <1>b, <2>1, <2>2 DEF TypeOK, RunTypeOK
<1>d. RunTypeOK'
  BY <1>1, <1>a, <1>b, <1>c DEF TypeOK, RunTypeOK, Labels, Statuses
<1>e. QueueTypeOK' /\ RequestTypeOK' /\ BudgetTypeOK'
  BY <1>1, <1>b DEF TypeOK, QueueTypeOK, RequestTypeOK, BudgetTypeOK, budget
<1>f. CASE Streaming(j)
  <2>1. Exists(j) /\ FlushPages(j, d, s)
    BY <1>f DEF RecordPage
  <2>2. /\ d = disc[j] + 1 /\ s \in scraped[j]..MaxPages
    BY <1>1, <1>a, <1>f, <2>1 DEF JobInv, Synced, Live
  <2>3. /\ RowTypeOK' /\ Counts(j)' /\ disc'[j] = d /\ scraped'[j] = s
        /\ status'[j] = status[j] /\ mode'[j] = mode[j]
        /\ late'[j] = IF status[j] = "cancelled" THEN late[j] + (d - disc[j]) ELSE late[j]
    BY <2>1, <2>2, <1>1, <1>a, FlushType, FlushEffect DEF TypeOK, JobInv
  <2>4. \A k \in Jobs \ {j} : Same(k)
    BY <1>1, <1>b, <2>1 DEF Same, TypeOK, RowTypeOK, RunTypeOK, FlushPages
  <2>5. JobInv(j)'
    <3>1. Absent(j)' /\ Entry(j)' /\ Place(j)' /\ Memory(j)'
      BY <1>1, <1>a, <1>b, <1>c, <2>1, <2>3 DEF JobInv, Absent, Entry, Place, Memory, Live, Exists
    <3>2. Synced(j)' /\ Batch(j)'
      BY <1>1, <1>b, <1>c, <1>f, <2>3 DEF JobInv, Synced, Batch, Live, Streaming
    <3>3. Overshoot(j)'
      BY <1>1, <1>a, <1>c, <1>f, <2>2, <2>3 DEF JobInv, Overshoot, Streaming
    <3> QED
      BY <2>3, <3>1, <3>2, <3>3 DEF JobInv
  <2>6. TypeOK'
    BY <1>d, <1>e, <2>3 DEF TypeOK
  <2> QED
    BY <1>b, <2>3, <2>4, <2>5, <2>6, JobStep DEF Active
<1>g. CASE ~Streaming(j)
  <2>1. UNCHANGED row /\ s = mem[j].scraped
    BY <1>g DEF RecordPage, Streaming, Scrapes
  <2>2. TypeOK'
    BY <1>1, <1>d, <1>e, <2>1 DEF TypeOK, RowTypeOK, row
  <2>3. \A k \in Jobs \ {j} : Same(k)
    BY <1>1, <1>b, <2>1 DEF Same, TypeOK, RunTypeOK, row
  <2>4. JobInv(j)'
    <3>1. Absent(j)' /\ Entry(j)' /\ Place(j)' /\ Memory(j)'
      BY <1>1, <1>a, <1>b, <1>c, <2>1 DEF JobInv, Absent, Blank, Entry, Place, Memory, Live, row
    <3>2. Synced(j)' /\ Counts(j)'
      BY <1>1, <1>c, <1>g, <2>1 DEF JobInv, Synced, Counts, Live, Exists, Streaming, row
    <3>3. Batch(j)' /\ Overshoot(j)'
      BY <1>1, <1>a, <1>b, <1>c, <1>g, <2>1 DEF JobInv, Batch, Overshoot, Streaming, row
    <3> QED
      BY <3>1, <3>2, <3>3 DEF JobInv
  <2> QED
    BY <1>b, <2>1, <2>2, <2>3, <2>4, JobStep DEF Active, row
<1> QED
  BY <1>f, <1>g

LEMMA EndOfStreamStep ==
    ASSUME IInv, NEW j \in Jobs, EndOfStream(j)
    PROVE  IInv'
<1> DEFINE d == mem[j].disc
           s == mem[j].scraped
<1>1. TypeOK /\ JobInv(j) /\ pc[j] = "next"
  BY DEF IInv, EndOfStream
<1>a. /\ disc[j] \in Nat /\ scraped[j] \in Nat /\ late[j] \in Nat /\ mem[j].base \in Nat
      /\ d \in 0..MaxPages /\ s \in 0..MaxPages
      /\ status[j] \in {"running", "cancelled", "deleted"}
  BY <1>1 DEF TypeOK, RowTypeOK, RunTypeOK, JobInv, Place
<1>b. /\ arq[j] = "running" /\ pc' = [pc EXCEPT ![j] = "final"]
      /\ locked' = [locked EXCEPT ![j] = FALSE]
      /\ UNCHANGED <<arq, tries, mem, lost, req, budget>>
  BY <1>1 DEF EndOfStream, Goto, JobInv, Entry, Live
<1>c. pc'[j] = "final" /\ locked'[j] = FALSE
  BY <1>1, <1>b DEF TypeOK, RunTypeOK
<1>d. RunTypeOK' /\ QueueTypeOK' /\ RequestTypeOK' /\ BudgetTypeOK'
  BY <1>1, <1>b DEF TypeOK, RunTypeOK, QueueTypeOK, RequestTypeOK, BudgetTypeOK, budget, Labels
<1>e. CASE Pending(j) # {}
  <2>1. Exists(j) /\ ~Streaming(j) /\ FlushPages(j, d, s)
    BY <1>e DEF EndOfStream, Pending
  <2>2. s = scraped[j] /\ disc[j] <= d /\ s <= d /\ mem[j].base = disc[j]
    BY <1>1, <1>a, <2>1 DEF JobInv, Synced, Memory, Live
  <2>3. status[j] = "cancelled" => late[j] + (d - disc[j]) <= 1
    BY <1>1, <1>a, <2>1, <2>2 DEF JobInv, Batch, Overshoot
  <2>4. /\ RowTypeOK' /\ Counts(j)' /\ disc'[j] = d /\ scraped'[j] = s
        /\ status'[j] = status[j] /\ mode'[j] = mode[j]
        /\ late'[j] = IF status[j] = "cancelled" THEN late[j] + (d - disc[j]) ELSE late[j]
    BY <2>1, <2>2, <1>1, <1>a, FlushType, FlushEffect DEF TypeOK, JobInv
  <2>5. \A k \in Jobs \ {j} : Same(k)
    BY <1>1, <1>b, <2>1 DEF Same, TypeOK, RowTypeOK, RunTypeOK, FlushPages
  <2>6. JobInv(j)'
    <3>1. Absent(j)' /\ Entry(j)' /\ Place(j)' /\ Memory(j)'
      BY <1>1, <1>b, <1>c, <1>a, <2>1, <2>4 DEF JobInv, Absent, Entry, Place, Memory, Live, Exists
    <3>2. Synced(j)' /\ Batch(j)' /\ Overshoot(j)'
      BY <1>b, <1>c, <2>3, <2>4 DEF Synced, Batch, Overshoot, Live
    <3> QED
      BY <2>4, <3>1, <3>2 DEF JobInv
  <2> QED
    BY <1>b, <1>d, <2>4, <2>5, <2>6, JobStep DEF Active, TypeOK
<1>f. CASE Pending(j) = {}
  <2>1. UNCHANGED row
    BY <1>f DEF EndOfStream
  <2>2. Exists(j) => d = disc[j]
    BY <1>1, <1>a, <1>f DEF JobInv, Synced, Memory, Pending, Live
  <2>3. TypeOK'
    BY <1>1, <1>d, <2>1 DEF TypeOK, RowTypeOK, row
  <2>4. \A k \in Jobs \ {j} : Same(k)
    BY <1>1, <1>b, <2>1 DEF Same, TypeOK, RunTypeOK, row
  <2>5. JobInv(j)'
    <3>1. Absent(j)' /\ Entry(j)' /\ Place(j)' /\ Memory(j)'
      BY <1>1, <1>a, <1>b, <1>c, <2>1 DEF JobInv, Absent, Blank, Entry, Place, Memory, Live, row
    <3>2. Synced(j)' /\ Counts(j)'
      BY <1>1, <1>b, <1>c, <2>1, <2>2 DEF JobInv, Synced, Counts, Live, Exists, Streaming, row
    <3>3. Batch(j)' /\ Overshoot(j)'
      BY <1>1, <1>c, <2>1 DEF JobInv, Batch, Overshoot, row
    <3> QED
      BY <3>1, <3>2, <3>3 DEF JobInv
  <2> QED
    BY <1>b, <2>1, <2>3, <2>4, <2>5, JobStep DEF Active, row
<1> QED
  BY <1>e, <1>f

LEMMA SkipJobStep ==
    ASSUME IInv, NEW j \in Jobs, SkipJob(j)
    PROVE  IInv'
<1> USE DEF SkipJob, Startable, row
<1>1. TypeOK /\ JobInv(j)
  BY DEF IInv
<1>2. TypeOK'
  <2>1. RowTypeOK'
    BY <1>1 DEF TypeOK, RowTypeOK, RunTypeOK, Statuses, Live, JobInv, Memory, Synced, Exists
  <2>2. QueueTypeOK' /\ BudgetTypeOK'
    BY <1>1 DEF TypeOK, QueueTypeOK, BudgetTypeOK, budget
  <2>3. RunTypeOK'
    BY <1>1 DEF TypeOK, RowTypeOK, RunTypeOK, Labels, Statuses, JobInv, Memory
  <2>4. RequestTypeOK'
    BY <1>1 DEF TypeOK, RequestTypeOK
  <2> QED
    BY <2>1, <2>2, <2>3, <2>4 DEF TypeOK
<1>3. \A k \in Jobs \ {j} : Same(k)
  BY <1>1 DEF Same, TypeOK, RowTypeOK, QueueTypeOK, RunTypeOK
<1>4. JobInv(j)'
  <2>1. Absent(j)' /\ Entry(j)' /\ Place(j)' /\ Memory(j)'
    BY <1>1 DEF TypeOK, RowTypeOK, QueueTypeOK, RunTypeOK, Statuses, JobInv, Absent, Blank, Entry, Live, Place, Memory, Exists
  <2>2. Synced(j)' /\ Batch(j)'
    BY <1>1 DEF TypeOK, RowTypeOK, QueueTypeOK, RunTypeOK, JobInv, Synced, Batch, Live, Place, Entry, Memory, Streaming, Exists
  <2>3. Overshoot(j)' /\ Counts(j)'
    BY <1>1 DEF TypeOK, RowTypeOK, QueueTypeOK, RunTypeOK, JobInv, Overshoot, Batch, Counts, Synced, Live, Place, Streaming, Exists
  <2> QED
    BY <2>1, <2>2, <2>3 DEF JobInv
<1> QED
  <2>1. /\ UNCHANGED req
        /\ status[j] # "none" => status'[j] # "none"
        /\ arq[j] = "none" => arq'[j] = "none"
        /\ lost \subseteq lost'
        /\ Active(j)' => \/ j \in lost'
                         \/ arq'[j] \in {"queued", "running"}
                         \/ Active(j) /\ arq'[j] = arq[j]
    BY <1>1 DEF TypeOK, RowTypeOK, QueueTypeOK, RunTypeOK, JobInv, Active, Entry, Live, Place
  <2> QED
    BY <1>2, <1>3, <1>4, <2>1, JobStep DEF IInv

LEMMA StartRunStep ==
    ASSUME IInv, NEW j \in Jobs, StartRun(j)
    PROVE  IInv'
<1> USE DEF StartRun, WriteStatus, Goto, Exists
<1>1. TypeOK /\ JobInv(j)
  BY DEF IInv
<1>2. TypeOK'
  <2>1. RowTypeOK'
    BY <1>1 DEF TypeOK, RowTypeOK, RunTypeOK, Statuses, Live, JobInv, Memory, Synced, Exists
  <2>2. QueueTypeOK' /\ BudgetTypeOK'
    BY <1>1 DEF TypeOK, QueueTypeOK, BudgetTypeOK, budget
  <2>3. RunTypeOK'
    BY <1>1 DEF TypeOK, RowTypeOK, RunTypeOK, Labels, Statuses, JobInv, Memory
  <2>4. RequestTypeOK'
    BY <1>1 DEF TypeOK, RequestTypeOK
  <2> QED
    BY <2>1, <2>2, <2>3, <2>4 DEF TypeOK
<1>3. \A k \in Jobs \ {j} : Same(k)
  BY <1>1 DEF Same, TypeOK, RowTypeOK, QueueTypeOK, RunTypeOK
<1>4. JobInv(j)'
  <2>1. Absent(j)' /\ Entry(j)' /\ Place(j)' /\ Memory(j)'
    BY <1>1 DEF TypeOK, RowTypeOK, QueueTypeOK, RunTypeOK, Statuses, JobInv, Absent, Blank, Entry, Live, Place, Memory, Exists
  <2>2. Synced(j)' /\ Batch(j)'
    BY <1>1 DEF TypeOK, RowTypeOK, QueueTypeOK, RunTypeOK, JobInv, Synced, Batch, Live, Place, Entry, Memory, Streaming, Exists
  <2>3. Overshoot(j)' /\ Counts(j)'
    BY <1>1 DEF TypeOK, RowTypeOK, QueueTypeOK, RunTypeOK, JobInv, Overshoot, Batch, Counts, Synced, Live, Place, Streaming, Exists
  <2> QED
    BY <2>1, <2>2, <2>3 DEF JobInv
<1> QED
  <2>1. /\ UNCHANGED req
        /\ status[j] # "none" => status'[j] # "none"
        /\ arq[j] = "none" => arq'[j] = "none"
        /\ lost \subseteq lost'
        /\ Active(j)' => \/ j \in lost'
                         \/ arq'[j] \in {"queued", "running"}
                         \/ Active(j) /\ arq'[j] = arq[j]
    BY <1>1 DEF TypeOK, RowTypeOK, QueueTypeOK, RunTypeOK, JobInv, Active, Entry, Live, Place
  <2> QED
    BY <1>2, <1>3, <1>4, <2>1, JobStep DEF IInv

LEMMA BuildSettingsStep ==
    ASSUME IInv, NEW j \in Jobs, BuildSettings(j)
    PROVE  IInv'
<1> USE DEF BuildSettings, Goto, row
<1>1. TypeOK /\ JobInv(j)
  BY DEF IInv
<1>2. TypeOK'
  <2>1. RowTypeOK'
    BY <1>1 DEF TypeOK, RowTypeOK, RunTypeOK, Statuses, Live, JobInv, Memory, Synced, Exists
  <2>2. QueueTypeOK' /\ BudgetTypeOK'
    BY <1>1 DEF TypeOK, QueueTypeOK, BudgetTypeOK, budget
  <2>3. RunTypeOK'
    BY <1>1 DEF TypeOK, RowTypeOK, RunTypeOK, Labels, Statuses, JobInv, Memory
  <2>4. RequestTypeOK'
    BY <1>1 DEF TypeOK, RequestTypeOK
  <2> QED
    BY <2>1, <2>2, <2>3, <2>4 DEF TypeOK
<1>3. \A k \in Jobs \ {j} : Same(k)
  BY <1>1 DEF Same, TypeOK, RowTypeOK, QueueTypeOK, RunTypeOK
<1>4. JobInv(j)'
  <2>1. Absent(j)' /\ Entry(j)' /\ Place(j)' /\ Memory(j)'
    BY <1>1 DEF TypeOK, RowTypeOK, QueueTypeOK, RunTypeOK, Statuses, JobInv, Absent, Blank, Entry, Live, Place, Memory, Exists
  <2>2. Synced(j)' /\ Batch(j)'
    BY <1>1 DEF TypeOK, RowTypeOK, QueueTypeOK, RunTypeOK, JobInv, Synced, Batch, Live, Place, Entry, Memory, Streaming, Exists
  <2>3. Overshoot(j)' /\ Counts(j)'
    BY <1>1 DEF TypeOK, RowTypeOK, QueueTypeOK, RunTypeOK, JobInv, Overshoot, Batch, Counts, Synced, Live, Place, Streaming, Exists
  <2> QED
    BY <2>1, <2>2, <2>3 DEF JobInv
<1> QED
  <2>1. /\ UNCHANGED req
        /\ status[j] # "none" => status'[j] # "none"
        /\ arq[j] = "none" => arq'[j] = "none"
        /\ lost \subseteq lost'
        /\ Active(j)' => \/ j \in lost'
                         \/ arq'[j] \in {"queued", "running"}
                         \/ Active(j) /\ arq'[j] = arq[j]
    BY <1>1 DEF TypeOK, RowTypeOK, QueueTypeOK, RunTypeOK, JobInv, Active, Entry, Live, Place
  <2> QED
    BY <1>2, <1>3, <1>4, <2>1, JobStep DEF IInv

LEMMA RejectSettingsStep ==
    ASSUME IInv, NEW j \in Jobs, RejectSettings(j)
    PROVE  IInv'
<1> USE DEF RejectSettings, WriteStatus, Goto, Exists
<1>1. TypeOK /\ JobInv(j)
  BY DEF IInv
<1>2. TypeOK'
  <2>1. RowTypeOK'
    BY <1>1 DEF TypeOK, RowTypeOK, RunTypeOK, Statuses, Live, JobInv, Memory, Synced, Exists
  <2>2. QueueTypeOK' /\ BudgetTypeOK'
    BY <1>1 DEF TypeOK, QueueTypeOK, BudgetTypeOK, budget
  <2>3. RunTypeOK'
    BY <1>1 DEF TypeOK, RowTypeOK, RunTypeOK, Labels, Statuses, JobInv, Memory
  <2>4. RequestTypeOK'
    BY <1>1 DEF TypeOK, RequestTypeOK
  <2> QED
    BY <2>1, <2>2, <2>3, <2>4 DEF TypeOK
<1>3. \A k \in Jobs \ {j} : Same(k)
  BY <1>1 DEF Same, TypeOK, RowTypeOK, QueueTypeOK, RunTypeOK
<1>4. JobInv(j)'
  <2>1. Absent(j)' /\ Entry(j)' /\ Place(j)' /\ Memory(j)'
    BY <1>1 DEF TypeOK, RowTypeOK, QueueTypeOK, RunTypeOK, Statuses, JobInv, Absent, Blank, Entry, Live, Place, Memory, Exists
  <2>2. Synced(j)' /\ Batch(j)'
    BY <1>1 DEF TypeOK, RowTypeOK, QueueTypeOK, RunTypeOK, JobInv, Synced, Batch, Live, Place, Entry, Memory, Streaming, Exists
  <2>3. Overshoot(j)' /\ Counts(j)'
    BY <1>1 DEF TypeOK, RowTypeOK, QueueTypeOK, RunTypeOK, JobInv, Overshoot, Batch, Counts, Synced, Live, Place, Streaming, Exists
  <2> QED
    BY <2>1, <2>2, <2>3 DEF JobInv
<1> QED
  <2>1. /\ UNCHANGED req
        /\ status[j] # "none" => status'[j] # "none"
        /\ arq[j] = "none" => arq'[j] = "none"
        /\ lost \subseteq lost'
        /\ Active(j)' => \/ j \in lost'
                         \/ arq'[j] \in {"queued", "running"}
                         \/ Active(j) /\ arq'[j] = arq[j]
    BY <1>1 DEF TypeOK, RowTypeOK, QueueTypeOK, RunTypeOK, JobInv, Active, Entry, Live, Place
  <2> QED
    BY <1>2, <1>3, <1>4, <2>1, JobStep DEF IInv

LEMMA OpenEngineStep ==
    ASSUME IInv, NEW j \in Jobs, OpenEngine(j)
    PROVE  IInv'
<1> USE DEF OpenEngine, Goto, row
<1>1. TypeOK /\ JobInv(j)
  BY DEF IInv
<1>2. TypeOK'
  <2>1. RowTypeOK'
    BY <1>1 DEF TypeOK, RowTypeOK, RunTypeOK, Statuses, Live, JobInv, Memory, Synced, Exists
  <2>2. QueueTypeOK' /\ BudgetTypeOK'
    BY <1>1 DEF TypeOK, QueueTypeOK, BudgetTypeOK, budget
  <2>3. RunTypeOK'
    BY <1>1 DEF TypeOK, RowTypeOK, RunTypeOK, Labels, Statuses, JobInv, Memory
  <2>4. RequestTypeOK'
    BY <1>1 DEF TypeOK, RequestTypeOK
  <2> QED
    BY <2>1, <2>2, <2>3, <2>4 DEF TypeOK
<1>3. \A k \in Jobs \ {j} : Same(k)
  BY <1>1 DEF Same, TypeOK, RowTypeOK, QueueTypeOK, RunTypeOK
<1>4. JobInv(j)'
  <2>1. Absent(j)' /\ Entry(j)' /\ Place(j)' /\ Memory(j)'
    BY <1>1 DEF TypeOK, RowTypeOK, QueueTypeOK, RunTypeOK, Statuses, JobInv, Absent, Blank, Entry, Live, Place, Memory, Exists
  <2>2. Synced(j)' /\ Batch(j)'
    BY <1>1 DEF TypeOK, RowTypeOK, QueueTypeOK, RunTypeOK, JobInv, Synced, Batch, Live, Place, Entry, Memory, Streaming, Exists
  <2>3. Overshoot(j)' /\ Counts(j)'
    BY <1>1 DEF TypeOK, RowTypeOK, QueueTypeOK, RunTypeOK, JobInv, Overshoot, Batch, Counts, Synced, Live, Place, Streaming, Exists
  <2> QED
    BY <2>1, <2>2, <2>3 DEF JobInv
<1> QED
  <2>1. /\ UNCHANGED req
        /\ status[j] # "none" => status'[j] # "none"
        /\ arq[j] = "none" => arq'[j] = "none"
        /\ lost \subseteq lost'
        /\ Active(j)' => \/ j \in lost'
                         \/ arq'[j] \in {"queued", "running"}
                         \/ Active(j) /\ arq'[j] = arq[j]
    BY <1>1 DEF TypeOK, RowTypeOK, QueueTypeOK, RunTypeOK, JobInv, Active, Entry, Live, Place
  <2> QED
    BY <1>2, <1>3, <1>4, <2>1, JobStep DEF IInv

LEMMA SettleRunStep ==
    ASSUME IInv, NEW j \in Jobs, SettleRun(j)
    PROVE  IInv'
<1> USE DEF SettleRun, WriteStatus, Goto, Verdict
<1>1. TypeOK /\ JobInv(j)
  BY DEF IInv
<1>2. TypeOK'
  <2>1. RowTypeOK'
    BY <1>1 DEF TypeOK, RowTypeOK, RunTypeOK, Statuses, Live, JobInv, Memory, Synced, Exists
  <2>2. QueueTypeOK' /\ BudgetTypeOK'
    BY <1>1 DEF TypeOK, QueueTypeOK, BudgetTypeOK, budget
  <2>3. RunTypeOK'
    BY <1>1 DEF TypeOK, RowTypeOK, RunTypeOK, Labels, Statuses, JobInv, Memory
  <2>4. RequestTypeOK'
    BY <1>1 DEF TypeOK, RequestTypeOK
  <2> QED
    BY <2>1, <2>2, <2>3, <2>4 DEF TypeOK
<1>3. \A k \in Jobs \ {j} : Same(k)
  BY <1>1 DEF Same, TypeOK, RowTypeOK, QueueTypeOK, RunTypeOK
<1>4. JobInv(j)'
  <2>1. Absent(j)' /\ Entry(j)' /\ Place(j)' /\ Memory(j)'
    BY <1>1 DEF TypeOK, RowTypeOK, QueueTypeOK, RunTypeOK, Statuses, JobInv, Absent, Blank, Entry, Live, Place, Memory, Exists
  <2>2. Synced(j)' /\ Batch(j)'
    BY <1>1 DEF TypeOK, RowTypeOK, QueueTypeOK, RunTypeOK, JobInv, Synced, Batch, Live, Place, Entry, Memory, Streaming, Exists
  <2>3. Overshoot(j)' /\ Counts(j)'
    BY <1>1 DEF TypeOK, RowTypeOK, QueueTypeOK, RunTypeOK, JobInv, Overshoot, Batch, Counts, Synced, Live, Place, Streaming, Exists
  <2> QED
    BY <2>1, <2>2, <2>3 DEF JobInv
<1> QED
  <2>1. /\ UNCHANGED req
        /\ status[j] # "none" => status'[j] # "none"
        /\ arq[j] = "none" => arq'[j] = "none"
        /\ lost \subseteq lost'
        /\ Active(j)' => \/ j \in lost'
                         \/ arq'[j] \in {"queued", "running"}
                         \/ Active(j) /\ arq'[j] = arq[j]
    BY <1>1 DEF TypeOK, RowTypeOK, QueueTypeOK, RunTypeOK, JobInv, Active, Entry, Live, Place
  <2> QED
    BY <1>2, <1>3, <1>4, <2>1, JobStep DEF IInv

LEMMA FailRunStep ==
    ASSUME IInv, NEW j \in Jobs, FailRun(j)
    PROVE  IInv'
<1> USE DEF FailRun, WriteStatus, Goto, MayRaise, Scrapes
<1>1. TypeOK /\ JobInv(j)
  BY DEF IInv
<1>2. TypeOK'
  <2>1. RowTypeOK'
    BY <1>1 DEF TypeOK, RowTypeOK, RunTypeOK, Statuses, Live, JobInv, Memory, Synced, Exists
  <2>2. QueueTypeOK' /\ BudgetTypeOK'
    BY <1>1 DEF TypeOK, QueueTypeOK, BudgetTypeOK, budget
  <2>3. RunTypeOK'
    BY <1>1 DEF TypeOK, RowTypeOK, RunTypeOK, Labels, Statuses, JobInv, Memory
  <2>4. RequestTypeOK'
    BY <1>1 DEF TypeOK, RequestTypeOK
  <2> QED
    BY <2>1, <2>2, <2>3, <2>4 DEF TypeOK
<1>3. \A k \in Jobs \ {j} : Same(k)
  BY <1>1 DEF Same, TypeOK, RowTypeOK, QueueTypeOK, RunTypeOK
<1>4. JobInv(j)'
  <2>1. Absent(j)' /\ Entry(j)' /\ Place(j)' /\ Memory(j)'
    BY <1>1 DEF TypeOK, RowTypeOK, QueueTypeOK, RunTypeOK, Statuses, JobInv, Absent, Blank, Entry, Live, Place, Memory, Exists
  <2>2. Synced(j)' /\ Batch(j)'
    BY <1>1 DEF TypeOK, RowTypeOK, QueueTypeOK, RunTypeOK, JobInv, Synced, Batch, Live, Place, Entry, Memory, Streaming, Exists
  <2>3. Overshoot(j)' /\ Counts(j)'
    BY <1>1 DEF TypeOK, RowTypeOK, QueueTypeOK, RunTypeOK, JobInv, Overshoot, Batch, Counts, Synced, Live, Place, Streaming, Exists
  <2> QED
    BY <2>1, <2>2, <2>3 DEF JobInv
<1> QED
  <2>1. /\ UNCHANGED req
        /\ status[j] # "none" => status'[j] # "none"
        /\ arq[j] = "none" => arq'[j] = "none"
        /\ lost \subseteq lost'
        /\ Active(j)' => \/ j \in lost'
                         \/ arq'[j] \in {"queued", "running"}
                         \/ Active(j) /\ arq'[j] = arq[j]
    BY <1>1 DEF TypeOK, RowTypeOK, QueueTypeOK, RunTypeOK, JobInv, Active, Entry, Live, Place
  <2> QED
    BY <1>2, <1>3, <1>4, <2>1, JobStep DEF IInv

LEMMA RunDiesStep ==
    ASSUME IInv, NEW j \in Jobs, RunDies(j)
    PROVE  IInv'
<1> USE DEF RunDies, Leave, row, NoMem, WritesNext, MayRaise, Scrapes, Pending
<1>1. TypeOK /\ JobInv(j)
  BY DEF IInv
<1>2. TypeOK'
  <2>1. RowTypeOK'
    BY <1>1 DEF TypeOK, RowTypeOK, RunTypeOK, Statuses, Live, JobInv, Memory, Synced, Exists
  <2>2. QueueTypeOK' /\ BudgetTypeOK'
    BY <1>1 DEF TypeOK, QueueTypeOK, BudgetTypeOK, budget
  <2>3. RunTypeOK'
    BY <1>1 DEF TypeOK, RowTypeOK, RunTypeOK, Labels, Statuses, JobInv, Memory
  <2>4. RequestTypeOK'
    BY <1>1 DEF TypeOK, RequestTypeOK
  <2> QED
    BY <2>1, <2>2, <2>3, <2>4 DEF TypeOK
<1>3. \A k \in Jobs \ {j} : Same(k)
  BY <1>1 DEF Same, TypeOK, RowTypeOK, QueueTypeOK, RunTypeOK
<1>4. JobInv(j)'
  <2>1. Absent(j)' /\ Entry(j)' /\ Place(j)' /\ Memory(j)'
    BY <1>1 DEF TypeOK, RowTypeOK, QueueTypeOK, RunTypeOK, Statuses, JobInv, Absent, Blank, Entry, Live, Place, Memory, Exists
  <2>2. Synced(j)' /\ Batch(j)'
    BY <1>1 DEF TypeOK, RowTypeOK, QueueTypeOK, RunTypeOK, JobInv, Synced, Batch, Live, Place, Entry, Memory, Streaming, Exists
  <2>3. Overshoot(j)' /\ Counts(j)'
    BY <1>1 DEF TypeOK, RowTypeOK, QueueTypeOK, RunTypeOK, JobInv, Overshoot, Batch, Counts, Synced, Live, Place, Streaming, Exists
  <2> QED
    BY <2>1, <2>2, <2>3 DEF JobInv
<1> QED
  <2>1. /\ UNCHANGED req
        /\ status[j] # "none" => status'[j] # "none"
        /\ arq[j] = "none" => arq'[j] = "none"
        /\ lost \subseteq lost'
        /\ Active(j)' => \/ j \in lost'
                         \/ arq'[j] \in {"queued", "running"}
                         \/ Active(j) /\ arq'[j] = arq[j]
    BY <1>1 DEF TypeOK, RowTypeOK, QueueTypeOK, RunTypeOK, JobInv, Active, Entry, Live, Place
  <2> QED
    BY <1>2, <1>3, <1>4, <2>1, JobStep DEF IInv

LEMMA EndRunStep ==
    ASSUME IInv, NEW j \in Jobs, EndRun(j)
    PROVE  IInv'
<1> USE DEF EndRun, Leave, row, NoMem
<1>1. TypeOK /\ JobInv(j)
  BY DEF IInv
<1>2. TypeOK'
  <2>1. RowTypeOK'
    BY <1>1 DEF TypeOK, RowTypeOK, RunTypeOK, Statuses, Live, JobInv, Memory, Synced, Exists
  <2>2. QueueTypeOK' /\ BudgetTypeOK'
    BY <1>1 DEF TypeOK, QueueTypeOK, BudgetTypeOK, budget
  <2>3. RunTypeOK'
    BY <1>1 DEF TypeOK, RowTypeOK, RunTypeOK, Labels, Statuses, JobInv, Memory
  <2>4. RequestTypeOK'
    BY <1>1 DEF TypeOK, RequestTypeOK
  <2> QED
    BY <2>1, <2>2, <2>3, <2>4 DEF TypeOK
<1>3. \A k \in Jobs \ {j} : Same(k)
  BY <1>1 DEF Same, TypeOK, RowTypeOK, QueueTypeOK, RunTypeOK
<1>4. JobInv(j)'
  <2>1. Absent(j)' /\ Entry(j)' /\ Place(j)' /\ Memory(j)'
    BY <1>1 DEF TypeOK, RowTypeOK, QueueTypeOK, RunTypeOK, Statuses, JobInv, Absent, Blank, Entry, Live, Place, Memory, Exists
  <2>2. Synced(j)' /\ Batch(j)'
    BY <1>1 DEF TypeOK, RowTypeOK, QueueTypeOK, RunTypeOK, JobInv, Synced, Batch, Live, Place, Entry, Memory, Streaming, Exists
  <2>3. Overshoot(j)' /\ Counts(j)'
    BY <1>1 DEF TypeOK, RowTypeOK, QueueTypeOK, RunTypeOK, JobInv, Overshoot, Batch, Counts, Synced, Live, Place, Streaming, Exists
  <2> QED
    BY <2>1, <2>2, <2>3 DEF JobInv
<1> QED
  <2>1. /\ UNCHANGED req
        /\ status[j] # "none" => status'[j] # "none"
        /\ arq[j] = "none" => arq'[j] = "none"
        /\ lost \subseteq lost'
        /\ Active(j)' => \/ j \in lost'
                         \/ arq'[j] \in {"queued", "running"}
                         \/ Active(j) /\ arq'[j] = arq[j]
    BY <1>1 DEF TypeOK, RowTypeOK, QueueTypeOK, RunTypeOK, JobInv, Active, Entry, Live, Place
  <2> QED
    BY <1>2, <1>3, <1>4, <2>1, JobStep DEF IInv

LEMMA GiveUpStep ==
    ASSUME IInv, NEW j \in Jobs, GiveUp(j)
    PROVE  IInv'
<1> USE DEF GiveUp, row
<1>1. TypeOK /\ JobInv(j)
  BY DEF IInv
<1>2. TypeOK'
  <2>1. RowTypeOK'
    BY <1>1 DEF TypeOK, RowTypeOK, RunTypeOK, Statuses, Live, JobInv, Memory, Synced, Exists
  <2>2. QueueTypeOK' /\ BudgetTypeOK'
    BY <1>1 DEF TypeOK, QueueTypeOK, BudgetTypeOK, budget
  <2>3. RunTypeOK'
    BY <1>1 DEF TypeOK, RowTypeOK, RunTypeOK, Labels, Statuses, JobInv, Memory
  <2>4. RequestTypeOK'
    BY <1>1 DEF TypeOK, RequestTypeOK
  <2> QED
    BY <2>1, <2>2, <2>3, <2>4 DEF TypeOK
<1>3. \A k \in Jobs \ {j} : Same(k)
  BY <1>1 DEF Same, TypeOK, RowTypeOK, QueueTypeOK, RunTypeOK
<1>4. JobInv(j)'
  <2>1. Absent(j)' /\ Entry(j)' /\ Place(j)' /\ Memory(j)'
    BY <1>1 DEF TypeOK, RowTypeOK, QueueTypeOK, RunTypeOK, Statuses, JobInv, Absent, Blank, Entry, Live, Place, Memory, Exists
  <2>2. Synced(j)' /\ Batch(j)'
    BY <1>1 DEF TypeOK, RowTypeOK, QueueTypeOK, RunTypeOK, JobInv, Synced, Batch, Live, Place, Entry, Memory, Streaming, Exists
  <2>3. Overshoot(j)' /\ Counts(j)'
    BY <1>1 DEF TypeOK, RowTypeOK, QueueTypeOK, RunTypeOK, JobInv, Overshoot, Batch, Counts, Synced, Live, Place, Streaming, Exists
  <2> QED
    BY <2>1, <2>2, <2>3 DEF JobInv
<1> QED
  <2>1. /\ UNCHANGED req
        /\ status[j] # "none" => status'[j] # "none"
        /\ arq[j] = "none" => arq'[j] = "none"
        /\ lost \subseteq lost'
        /\ Active(j)' => \/ j \in lost'
                         \/ arq'[j] \in {"queued", "running"}
                         \/ Active(j) /\ arq'[j] = arq[j]
    BY <1>1 DEF TypeOK, RowTypeOK, QueueTypeOK, RunTypeOK, JobInv, Active, Entry, Live, Place
  <2> QED
    BY <1>2, <1>3, <1>4, <2>1, JobStep DEF IInv

LEMMA InterruptStep ==
    ASSUME IInv, NEW j \in Jobs, Interrupt(j)
    PROVE  IInv'
<1> USE DEF Interrupt, Leave, row, NoMem
<1>1. TypeOK /\ JobInv(j)
  BY DEF IInv
<1>2. TypeOK'
  <2>1. RowTypeOK'
    BY <1>1 DEF TypeOK, RowTypeOK, RunTypeOK, Statuses, Live, JobInv, Memory, Synced, Exists
  <2>2. QueueTypeOK' /\ BudgetTypeOK'
    BY <1>1 DEF TypeOK, QueueTypeOK, BudgetTypeOK, budget
  <2>3. RunTypeOK'
    BY <1>1 DEF TypeOK, RowTypeOK, RunTypeOK, Labels, Statuses, JobInv, Memory
  <2>4. RequestTypeOK'
    BY <1>1 DEF TypeOK, RequestTypeOK
  <2> QED
    BY <2>1, <2>2, <2>3, <2>4 DEF TypeOK
<1>3. \A k \in Jobs \ {j} : Same(k)
  BY <1>1 DEF Same, TypeOK, RowTypeOK, QueueTypeOK, RunTypeOK
<1>4. JobInv(j)'
  <2>1. Absent(j)' /\ Entry(j)' /\ Place(j)' /\ Memory(j)'
    BY <1>1 DEF TypeOK, RowTypeOK, QueueTypeOK, RunTypeOK, Statuses, JobInv, Absent, Blank, Entry, Live, Place, Memory, Exists
  <2>2. Synced(j)' /\ Batch(j)'
    BY <1>1 DEF TypeOK, RowTypeOK, QueueTypeOK, RunTypeOK, JobInv, Synced, Batch, Live, Place, Entry, Memory, Streaming, Exists
  <2>3. Overshoot(j)' /\ Counts(j)'
    BY <1>1 DEF TypeOK, RowTypeOK, QueueTypeOK, RunTypeOK, JobInv, Overshoot, Batch, Counts, Synced, Live, Place, Streaming, Exists
  <2> QED
    BY <2>1, <2>2, <2>3 DEF JobInv
<1> QED
  <2>1. /\ UNCHANGED req
        /\ status[j] # "none" => status'[j] # "none"
        /\ arq[j] = "none" => arq'[j] = "none"
        /\ lost \subseteq lost'
        /\ Active(j)' => \/ j \in lost'
                         \/ arq'[j] \in {"queued", "running"}
                         \/ Active(j) /\ arq'[j] = arq[j]
    BY <1>1 DEF TypeOK, RowTypeOK, QueueTypeOK, RunTypeOK, JobInv, Active, Entry, Live, Place
  <2> QED
    BY <1>2, <1>3, <1>4, <2>1, JobStep DEF IInv

LEMMA TimeoutRunStep ==
    ASSUME IInv, NEW j \in Jobs, TimeoutRun(j)
    PROVE  IInv'
<1> USE DEF TimeoutRun, Leave, AbandonRun, Fault, row, NoMem
<1>1. TypeOK /\ JobInv(j)
  BY DEF IInv
<1>2. TypeOK'
  <2>1. RowTypeOK'
    BY <1>1 DEF TypeOK, RowTypeOK, RunTypeOK, Statuses, Live, JobInv, Memory, Synced, Exists
  <2>2. QueueTypeOK' /\ BudgetTypeOK'
    BY <1>1 DEF TypeOK, QueueTypeOK, BudgetTypeOK, budget
  <2>3. RunTypeOK'
    BY <1>1 DEF TypeOK, RowTypeOK, RunTypeOK, Labels, Statuses, JobInv, Memory
  <2>4. RequestTypeOK'
    BY <1>1 DEF TypeOK, RequestTypeOK
  <2> QED
    BY <2>1, <2>2, <2>3, <2>4 DEF TypeOK
<1>3. \A k \in Jobs \ {j} : Same(k)
  BY <1>1 DEF Same, TypeOK, RowTypeOK, QueueTypeOK, RunTypeOK
<1>4. JobInv(j)'
  <2>1. Absent(j)' /\ Entry(j)' /\ Place(j)' /\ Memory(j)'
    BY <1>1 DEF TypeOK, RowTypeOK, QueueTypeOK, RunTypeOK, Statuses, JobInv, Absent, Blank, Entry, Live, Place, Memory, Exists
  <2>2. Synced(j)' /\ Batch(j)'
    BY <1>1 DEF TypeOK, RowTypeOK, QueueTypeOK, RunTypeOK, JobInv, Synced, Batch, Live, Place, Entry, Memory, Streaming, Exists
  <2>3. Overshoot(j)' /\ Counts(j)'
    BY <1>1 DEF TypeOK, RowTypeOK, QueueTypeOK, RunTypeOK, JobInv, Overshoot, Batch, Counts, Synced, Live, Place, Streaming, Exists
  <2> QED
    BY <2>1, <2>2, <2>3 DEF JobInv
<1> QED
  <2>1. /\ UNCHANGED req
        /\ status[j] # "none" => status'[j] # "none"
        /\ arq[j] = "none" => arq'[j] = "none"
        /\ lost \subseteq lost'
        /\ Active(j)' => \/ j \in lost'
                         \/ arq'[j] \in {"queued", "running"}
                         \/ Active(j) /\ arq'[j] = arq[j]
    BY <1>1 DEF TypeOK, RowTypeOK, QueueTypeOK, RunTypeOK, JobInv, Active, Entry, Live, Place
  <2> QED
    BY <1>2, <1>3, <1>4, <2>1, JobStep DEF IInv

LEMMA RejectWriteStep ==
    ASSUME IInv, NEW j \in Jobs, RejectWrite(j)
    PROVE  IInv'
<1> USE DEF RejectWrite, Leave, AbandonRun, Fault, row, NoMem, WritesNext, MayRaise, Scrapes, Pending
<1>1. TypeOK /\ JobInv(j)
  BY DEF IInv
<1>2. TypeOK'
  <2>1. RowTypeOK'
    BY <1>1 DEF TypeOK, RowTypeOK, RunTypeOK, Statuses, Live, JobInv, Memory, Synced, Exists
  <2>2. QueueTypeOK' /\ BudgetTypeOK'
    BY <1>1 DEF TypeOK, QueueTypeOK, BudgetTypeOK, budget
  <2>3. RunTypeOK'
    BY <1>1 DEF TypeOK, RowTypeOK, RunTypeOK, Labels, Statuses, JobInv, Memory
  <2>4. RequestTypeOK'
    BY <1>1 DEF TypeOK, RequestTypeOK
  <2> QED
    BY <2>1, <2>2, <2>3, <2>4 DEF TypeOK
<1>3. \A k \in Jobs \ {j} : Same(k)
  BY <1>1 DEF Same, TypeOK, RowTypeOK, QueueTypeOK, RunTypeOK
<1>4. JobInv(j)'
  <2>1. Absent(j)' /\ Entry(j)' /\ Place(j)' /\ Memory(j)'
    BY <1>1 DEF TypeOK, RowTypeOK, QueueTypeOK, RunTypeOK, Statuses, JobInv, Absent, Blank, Entry, Live, Place, Memory, Exists
  <2>2. Synced(j)' /\ Batch(j)'
    BY <1>1 DEF TypeOK, RowTypeOK, QueueTypeOK, RunTypeOK, JobInv, Synced, Batch, Live, Place, Entry, Memory, Streaming, Exists
  <2>3. Overshoot(j)' /\ Counts(j)'
    BY <1>1 DEF TypeOK, RowTypeOK, QueueTypeOK, RunTypeOK, JobInv, Overshoot, Batch, Counts, Synced, Live, Place, Streaming, Exists
  <2> QED
    BY <2>1, <2>2, <2>3 DEF JobInv
<1> QED
  <2>1. /\ UNCHANGED req
        /\ status[j] # "none" => status'[j] # "none"
        /\ arq[j] = "none" => arq'[j] = "none"
        /\ lost \subseteq lost'
        /\ Active(j)' => \/ j \in lost'
                         \/ arq'[j] \in {"queued", "running"}
                         \/ Active(j) /\ arq'[j] = arq[j]
    BY <1>1 DEF TypeOK, RowTypeOK, QueueTypeOK, RunTypeOK, JobInv, Active, Entry, Live, Place
  <2> QED
    BY <1>2, <1>3, <1>4, <2>1, JobStep DEF IInv

-----------------------------------------------------------------------------
(* The request handlers. *)

RequestRecord == [op : Ops, job : Jobs \cup {NoJob}, mode : Modes \cup {NoMode},
                  url : 0..MaxPages]

\* A handler's read: it opens, changes or closes its request and nothing else.
LEMMA ReadStep ==
    ASSUME IInv, NEW c \in Clients, NEW r \in RequestRecord, Open(c, r),
           UNCHANGED <<row, run, budget>>,
           req[c].op \notin {"refresh", "enqueue"},
           r.op \notin {"refresh", "enqueue"},
           r.op = "insert" => r.mode \in Modes,
           r.op \in {"cancel", "delete", "unlink"} =>
             r.job \in Jobs /\ status[r.job] # "none"
    PROVE  IInv'
<1> USE DEF Open
<1>1. TypeOK'
  BY DEF IInv, TypeOK, RowTypeOK, QueueTypeOK, RunTypeOK, RequestTypeOK, BudgetTypeOK,
         RequestRecord, row, run, budget
<1>2. \A k \in Jobs : JobInv(k)'
  BY JobFrame DEF IInv, Same, row, run
<1>3. \A d \in Clients : req'[d] = IF d = c THEN r ELSE req[d]
  BY DEF IInv, TypeOK, RequestTypeOK
<1>4. Requests'
  BY <1>3 DEF IInv, Requests, row, run
<1>5. NoSilentStranding'
  BY <1>3 DEF IInv, NoSilentStranding, Active, row, run
<1> QED
  BY <1>1, <1>2, <1>4, <1>5 DEF IInv

LEMMA ReadsStep ==
    ASSUME IInv, NEW c \in Clients, NEW j \in Jobs,
           \/ ReadDiscovered(c, j)
           \/ ReadRetrySource(c, j)
           \/ ReadForCancel(c, j)
           \/ ReadForDelete(c, j)
           \/ \E u \in found[j] : ReadForUnlink(c, j, u)
    PROVE  IInv'
<1>1. /\ status[j] # "none" => mode[j] \in Modes
      /\ found[j] # {} => status[j] # "none"
      /\ found[j] \subseteq 0..MaxPages
  BY DEF IInv, TypeOK, RowTypeOK, JobInv, Absent, Blank
<1>2. CASE ReadDiscovered(c, j)
  <2> DEFINE r == [For("insert", NoJob) EXCEPT !.mode = "scraper"]
  <2>1. r \in RequestRecord /\ r.op = "insert" /\ r.mode \in Modes
    BY <1>2 DEF ReadDiscovered, RequestRecord, For, Ops
  <2> QED
    BY <1>2, <2>1, ReadStep DEF ReadDiscovered
<1>3. CASE ReadRetrySource(c, j)
  <2> DEFINE r == [For("insert", NoJob) EXCEPT !.mode = mode[j]]
  <2>1. r \in RequestRecord /\ r.op = "insert" /\ r.mode \in Modes
    BY <1>1, <1>3 DEF ReadRetrySource, RequestRecord, For, Ops
  <2> QED
    BY <1>3, <2>1, ReadStep DEF ReadRetrySource
<1>4. CASE ReadForCancel(c, j)
  <2> DEFINE r == For("cancel", j)
  <2>1. r \in RequestRecord /\ r.op = "cancel" /\ r.job = j
    BY DEF RequestRecord, For, Ops
  <2> QED
    BY <1>4, <2>1, ReadStep DEF ReadForCancel, Active
<1>5. CASE ReadForDelete(c, j)
  <2> DEFINE r == For("delete", j)
  <2>1. r \in RequestRecord /\ r.op = "delete" /\ r.job = j
    BY DEF RequestRecord, For, Ops
  <2> QED
    BY <1>5, <2>1, ReadStep DEF ReadForDelete, Exists
<1>6. ASSUME NEW u \in found[j], ReadForUnlink(c, j, u)
      PROVE  IInv'
  <2> DEFINE r == [For("unlink", j) EXCEPT !.url = u]
  <2>1. r \in RequestRecord /\ r.op = "unlink" /\ r.job = j
    BY <1>1 DEF RequestRecord, For, Ops
  <2> QED
    BY <1>1, <1>6, <2>1, ReadStep DEF ReadForUnlink
<1> QED
  BY <1>2, <1>3, <1>4, <1>5, <1>6

LEMMA InsertStep ==
    ASSUME IInv, NEW c \in Clients, NEW j \in Jobs, NEW m \in Modes,
           Insert(c, j, m), UNCHANGED <<run, budget>>,
           req[c].op \notin {"refresh", "enqueue"}
    PROVE  IInv'
<1> USE DEF Insert, Open
<1>1. TypeOK /\ JobInv(j) /\ Requests
  BY DEF IInv
<1>2. req'[c].op = "refresh" /\ req'[c].job = j /\ req'[c] \in RequestRecord
  BY <1>1 DEF TypeOK, RequestTypeOK, For, RequestRecord, Ops
<1>3. TypeOK'
  <2>1. RowTypeOK'
    BY <1>1 DEF TypeOK, RowTypeOK, Statuses
  <2>2. QueueTypeOK' /\ RunTypeOK' /\ BudgetTypeOK'
    BY <1>1 DEF TypeOK, QueueTypeOK, RunTypeOK, BudgetTypeOK, run, budget
  <2>3. RequestTypeOK'
    BY <1>1, <1>2 DEF TypeOK, RequestTypeOK, RequestRecord
  <2> QED
    BY <2>1, <2>2, <2>3 DEF TypeOK
<1>4. \A k \in Jobs \ {j} : Same(k)
  BY <1>1 DEF Same, TypeOK, RowTypeOK, run
<1>5. JobInv(j)'
  <2>1. /\ status[j] = "none" /\ status'[j] = "queued" /\ mode'[j] = m /\ pc[j] = "idle"
        /\ arq[j] = "none"
    BY <1>1 DEF TypeOK, RowTypeOK, JobInv, Absent
  <2>2. Absent(j)' /\ Entry(j)' /\ Place(j)' /\ Memory(j)'
    BY <1>1, <2>1 DEF JobInv, Absent, Entry, Place, Memory, Live, run
  <2>3. Synced(j)' /\ Batch(j)' /\ Overshoot(j)' /\ Counts(j)'
    BY <1>1, <2>1 DEF JobInv, Absent, Blank, Entry, Synced, Batch, Overshoot, Counts, Live, run
  <2> QED
    BY <2>2, <2>3 DEF JobInv
<1>6. Requests'
  <2>1. \A d \in Clients \ {c} : req'[d] = req[d]
    BY <1>1 DEF TypeOK, RequestTypeOK
  <2>2. status[j] = "none" /\ arq'[j] = "none" /\ arq' = arq
    BY <1>1 DEF JobInv, Absent, run
  <2>3. \A k \in Jobs \ {j} : status'[k] = status[k]
    BY <1>4 DEF Same
  <2>4. status'[j] = "queued"
    BY <1>1 DEF TypeOK, RowTypeOK
  <2> QED
    BY <1>1, <1>2, <2>1, <2>2, <2>3, <2>4 DEF Requests
<1>7. NoSilentStranding'
  <2>1. \A d \in Clients \ {c} : req'[d] = req[d]
    BY <1>1 DEF TypeOK, RequestTypeOK
  <2>2. \A k \in Jobs \ {j} : Active(k)' => Active(k)
    BY <1>4 DEF Same, Active
  <2> QED
    BY <1>2, <2>1, <2>2 DEF IInv, NoSilentStranding, run
<1> QED
  BY <1>3, <1>4, <1>5, <1>6, <1>7, JobFrame DEF IInv

LEMMA RefreshStep ==
    ASSUME IInv, NEW c \in Clients, Refresh(c)
    PROVE  IInv'
<1> DEFINE r == IF Exists(req[c].job) THEN For("enqueue", req[c].job) ELSE Idle
<1>1. TypeOK /\ Requests /\ req[c].op = "refresh" /\ UNCHANGED <<row, run, budget>>
  BY DEF IInv, Refresh
<1>2. req[c] \in RequestRecord
  BY <1>1 DEF TypeOK, RequestTypeOK, RequestRecord
<1>3. /\ r \in RequestRecord
      /\ \/ r.op = "enqueue" /\ r.job = req[c].job
         \/ r.op = "idle" /\ ~Exists(req[c].job)
  BY <1>1, <1>2 DEF RequestRecord, Requests, Ops, Idle, For
<1>4. req' = [req EXCEPT ![c] = r]
  BY DEF Refresh, Respond, Open
<1> HIDE DEF r
<1>5. \A d \in Clients : req'[d] = IF d = c THEN r ELSE req[d]
  BY <1>1, <1>4 DEF TypeOK, RequestTypeOK
<1>6. TypeOK'
  BY <1>1, <1>3, <1>4 DEF TypeOK, RowTypeOK, QueueTypeOK, RunTypeOK, RequestTypeOK,
                          BudgetTypeOK, RequestRecord, row, run, budget
<1>7. \A k \in Jobs : JobInv(k)'
  BY <1>1, JobFrame DEF IInv, Same, row, run
<1>8. Requests'
  BY <1>1, <1>3, <1>5 DEF Requests, row, run
<1>9. NoSilentStranding'
  <2>1. SUFFICES ASSUME NEW k \in Jobs, Active(k), k \notin lost,
                        arq[k] \notin {"queued", "running"}
                 PROVE  \E d \in Clients :
                            req'[d].op \in {"refresh", "enqueue"} /\ req'[d].job = k
    BY <1>1 DEF NoSilentStranding, Active, row, run
  <2>2. PICK d \in Clients : req[d].op \in {"refresh", "enqueue"} /\ req[d].job = k
    BY <2>1 DEF IInv, NoSilentStranding
  <2> QED
    BY <1>3, <1>5, <2>1, <2>2 DEF Active, Exists
<1> QED
  BY <1>6, <1>7, <1>8, <1>9 DEF IInv

LEMMA EnqueueStep ==
    ASSUME IInv, NEW c \in Clients, Enqueue(c)
    PROVE  IInv'
<1>0. PICK j \in Jobs : j = req[c].job
  BY DEF IInv, Requests, Enqueue
<1>1. /\ TypeOK /\ Requests /\ req[c].op = "enqueue" /\ j \in Jobs
      /\ arq[j] = "none" /\ status[j] # "none" /\ JobInv(j)
  BY <1>0 DEF IInv, Enqueue, Requests
<1>2. /\ arq' = [arq EXCEPT ![j] = "queued"] /\ req' = [req EXCEPT ![c] = Idle]
      /\ UNCHANGED <<row, tries, pc, mem, locked, lost, budget>>
  BY <1>0 DEF Enqueue, Respond, Open
<1>3. TypeOK'
  <2>1. Idle \in [op : Ops, job : Jobs \cup {NoJob}, mode : Modes \cup {NoMode},
                  url : 0..MaxPages]
    BY DEF Idle, For, Ops
  <2> QED
    BY <1>1, <1>2, <2>1 DEF TypeOK, RowTypeOK, QueueTypeOK, RunTypeOK, RequestTypeOK,
                            BudgetTypeOK, row, budget
<1>4. arq'[j] = "queued" /\ \A k \in Jobs \ {j} : arq'[k] = arq[k]
  BY <1>1, <1>2 DEF TypeOK, QueueTypeOK
<1>5. \A k \in Jobs \ {j} : Same(k)
  BY <1>2, <1>4 DEF Same, row
<1>6. JobInv(j)'
  <2>1. Absent(j)' /\ Entry(j)' /\ Place(j)' /\ Memory(j)'
    BY <1>1, <1>2, <1>4 DEF JobInv, Absent, Blank, Entry, Place, Memory, Live, row
  <2>2. Synced(j)' /\ Batch(j)' /\ Overshoot(j)' /\ Counts(j)'
    BY <1>1, <1>2 DEF JobInv, Synced, Batch, Overshoot, Counts, Live, Exists, Streaming, row
  <2> QED
    BY <2>1, <2>2 DEF JobInv
<1>7. \A d \in Clients : req'[d] = IF d = c THEN Idle ELSE req[d]
  BY <1>1, <1>2 DEF TypeOK, RequestTypeOK
<1>8. Requests'
  <2>1. \A d \in Clients : d # c /\ req[d].op \in {"refresh", "enqueue"} => req[d].job # j
    BY <1>0, <1>1 DEF Requests
  <2> QED
    BY <1>1, <1>2, <1>4, <1>7, <2>1 DEF Requests, row, Idle, For
<1>9. NoSilentStranding'
  <2>1. \A k \in Jobs \ {j} : \A d \in Clients : req[d].job = k => d # c
    BY <1>0
  <2> QED
    BY <1>1, <1>2, <1>4, <1>7, <2>1 DEF IInv, NoSilentStranding, Active, row
<1> QED
  BY <1>3, <1>5, <1>6, <1>8, <1>9, JobFrame DEF IInv

\* A handler's commit on job j closes its request and touches no run.
LEMMA CommitStep ==
    ASSUME IInv, NEW c \in Clients, NEW j \in Jobs, Respond(c),
           req[c].op \in {"cancel", "delete", "unlink"},
           UNCHANGED <<run, budget>>, RowTypeOK',
           \A k \in Jobs \ {j} : Same(k), JobInv(j)',
           status'[j] # "none", Active(j)' => Active(j)
    PROVE  IInv'
<1>1. TypeOK /\ Requests /\ req' = [req EXCEPT ![c] = Idle]
  BY DEF IInv, Respond, Open
<1>2. TypeOK'
  <2>1. Idle \in [op : Ops, job : Jobs \cup {NoJob}, mode : Modes \cup {NoMode},
                  url : 0..MaxPages]
    BY DEF Idle, For, Ops
  <2> QED
    BY <1>1, <2>1 DEF TypeOK, QueueTypeOK, RunTypeOK, RequestTypeOK, BudgetTypeOK, run, budget
<1>3. \A d \in Clients : req'[d] = IF d = c THEN Idle ELSE req[d]
  BY <1>1 DEF TypeOK, RequestTypeOK
<1>4. Requests'
  BY <1>1, <1>3 DEF Requests, Same, Idle, For, run
<1>5. NoSilentStranding'
  <2>1. \A k \in Jobs : Active(k)' => Active(k)
    BY DEF Active, Same
  <2> QED
    BY <1>3, <2>1 DEF IInv, NoSilentStranding, run
<1> QED
  BY <1>2, <1>4, <1>5, JobFrame DEF IInv

LEMMA CommitCancelStep ==
    ASSUME IInv, NEW c \in Clients, CommitCancel(c)
    PROVE  IInv'
<1>0. PICK j \in Jobs : j = req[c].job
  BY DEF IInv, Requests, CommitCancel
<1>1. /\ TypeOK /\ req[c].op = "cancel" /\ j \in Jobs /\ status[j] # "none" /\ JobInv(j)
      /\ ~locked[j] /\ Respond(c) /\ UNCHANGED <<mode, disc, scraped, found, items, run, budget>>
      /\ IF Exists(j)
           THEN /\ status' = [status EXCEPT ![j] = "cancelled"]
                /\ late' = [late EXCEPT ![j] = IF status[j] = "cancelled" THEN @ ELSE 0]
           ELSE UNCHANGED <<status, late>>
  BY <1>0 DEF IInv, Requests, CommitCancel
<1>2. /\ status'[j] \in {"cancelled", "deleted"}
      /\ status'[j] = "deleted" => status[j] = "deleted" /\ late'[j] = late[j]
      /\ status'[j] = "cancelled" =>
           /\ status[j] \notin {"none", "deleted"}
           /\ late'[j] = IF status[j] = "cancelled" THEN late[j] ELSE 0
  BY <1>1 DEF TypeOK, RowTypeOK, Exists
<1>3. RowTypeOK' /\ \A k \in Jobs \ {j} : Same(k)
  BY <1>1 DEF TypeOK, RowTypeOK, Statuses, Same, run
<1>4. JobInv(j)'
  <2>1. Absent(j)' /\ Entry(j)' /\ Place(j)' /\ Memory(j)'
    BY <1>1, <1>2 DEF JobInv, Absent, Blank, Entry, Place, Memory, Live, run
  <2>2. Synced(j)' /\ Batch(j)'
    BY <1>1, <1>2 DEF JobInv, Synced, Batch, Live, Exists, Streaming, run
  <2>3. Overshoot(j)' /\ Counts(j)'
    BY <1>1, <1>2 DEF JobInv, Overshoot, Counts, Streaming, run
  <2> QED
    BY <2>1, <2>2, <2>3 DEF JobInv
<1> QED
  BY <1>1, <1>2, <1>3, <1>4, CommitStep DEF Active

LEMMA CommitDeleteStep ==
    ASSUME IInv, NEW c \in Clients, CommitDelete(c)
    PROVE  IInv'
<1>0. PICK j \in Jobs : j = req[c].job
  BY DEF IInv, Requests, CommitDelete
<1>1. /\ TypeOK /\ req[c].op = "delete" /\ j \in Jobs /\ JobInv(j)
      /\ ~locked[j] /\ Respond(c) /\ UNCHANGED <<mode, run, budget>>
      /\ status' = [status EXCEPT ![j] = "deleted"]
      /\ disc' = [disc EXCEPT ![j] = 0]
      /\ scraped' = [scraped EXCEPT ![j] = 0]
      /\ found' = [found EXCEPT ![j] = {}]
      /\ items' = [items EXCEPT ![j] = 0]
      /\ late' = [late EXCEPT ![j] = 0]
      /\ status[j] # "none"
  BY <1>0 DEF IInv, Requests, CommitDelete
<1>2. /\ status'[j] = "deleted" /\ disc'[j] = 0 /\ scraped'[j] = 0 /\ found'[j] = {}
      /\ items'[j] = 0 /\ late'[j] = 0
  BY <1>1 DEF TypeOK, RowTypeOK
<1>3. RowTypeOK' /\ \A k \in Jobs \ {j} : Same(k)
  BY <1>1 DEF TypeOK, RowTypeOK, Statuses, Same, run
<1>4. JobInv(j)'
  <2>1. Absent(j)' /\ Entry(j)' /\ Place(j)' /\ Memory(j)'
    BY <1>1, <1>2 DEF JobInv, Absent, Blank, Entry, Place, Memory, Live, run
  <2>2. Synced(j)' /\ Batch(j)' /\ Overshoot(j)' /\ Counts(j)'
    BY <1>1, <1>2 DEF JobInv, Synced, Batch, Overshoot, Counts, Live, Exists, Streaming, run
  <2> QED
    BY <2>1, <2>2 DEF JobInv
<1> QED
  BY <1>1, <1>2, <1>3, <1>4, CommitStep DEF Active

LEMMA CommitUnlinkStep ==
    ASSUME IInv, NEW c \in Clients, CommitUnlink(c)
    PROVE  IInv'
<1>0. PICK j \in Jobs : j = req[c].job
  BY DEF IInv, Requests, CommitUnlink
<1>1. /\ TypeOK /\ req[c].op = "unlink" /\ j \in Jobs /\ JobInv(j) /\ status[j] # "none"
      /\ Respond(c) /\ UNCHANGED <<status, mode, disc, scraped, items, late, run, budget>>
      /\ found' = [found EXCEPT ![j] = @ \ {req[c].url}]
  BY <1>0 DEF IInv, Requests, CommitUnlink
<1>2. found'[j] \subseteq found[j]
  BY <1>1 DEF TypeOK, RowTypeOK
<1>3. RowTypeOK' /\ \A k \in Jobs \ {j} : Same(k)
  BY <1>1 DEF TypeOK, RowTypeOK, Same, run
<1>4. JobInv(j)'
  <2>1. Absent(j)' /\ Entry(j)' /\ Place(j)' /\ Memory(j)'
    BY <1>1, <1>2 DEF JobInv, Absent, Blank, Entry, Place, Memory, Live, run
  <2>2. Synced(j)' /\ Batch(j)' /\ Overshoot(j)' /\ Counts(j)'
    BY <1>1, <1>2 DEF JobInv, Synced, Batch, Overshoot, Counts, Live, Exists, Streaming, run
  <2> QED
    BY <2>1, <2>2 DEF JobInv
<1> QED
  BY <1>1, <1>3, <1>4, CommitStep DEF Active

LEMMA DropRequestStep ==
    ASSUME IInv, NEW c \in Clients, DropRequest(c)
    PROVE  IInv'
<1>1. /\ TypeOK /\ Requests /\ req' = [req EXCEPT ![c] = Idle]
      /\ UNCHANGED <<row, arq, tries, pc, mem, locked, stops>>
      /\ faults < MaxFaults /\ faults' = faults + 1
      /\ lost \subseteq lost' /\ lost' \subseteq lost \cup {req[c].job}
      /\ req[c].op \in {"refresh", "enqueue"} /\ Active(req[c].job) => req[c].job \in lost'
      /\ lost' # lost => req[c].op \in {"refresh", "enqueue"}
  BY DEF IInv, DropRequest, Respond, Open, Fault
<1>2. TypeOK'
  <2>1. Idle \in [op : Ops, job : Jobs \cup {NoJob}, mode : Modes \cup {NoMode},
                  url : 0..MaxPages]
    BY DEF Idle, For, Ops
  <2>2. lost' \subseteq Jobs
    BY <1>1 DEF TypeOK, QueueTypeOK, Requests
  <2> QED
    BY <1>1, <2>1, <2>2 DEF TypeOK, RowTypeOK, QueueTypeOK, RunTypeOK, RequestTypeOK,
                            BudgetTypeOK, row
<1>3. \A k \in Jobs : JobInv(k)'
  BY <1>1, JobFrame DEF IInv, Same, row
<1>4. \A d \in Clients : req'[d] = IF d = c THEN Idle ELSE req[d]
  BY <1>1 DEF TypeOK, RequestTypeOK
<1>5. Requests'
  BY <1>1, <1>4 DEF Requests, Idle, For, row
<1>6. NoSilentStranding'
  <2>1. SUFFICES ASSUME NEW k \in Jobs, Active(k), k \notin lost',
                        arq[k] \notin {"queued", "running"}
                 PROVE  \E d \in Clients :
                            req'[d].op \in {"refresh", "enqueue"} /\ req'[d].job = k
    BY <1>1 DEF NoSilentStranding, Active, row
  <2>2. PICK d \in Clients : req[d].op \in {"refresh", "enqueue"} /\ req[d].job = k
    BY <1>1, <2>1 DEF IInv, NoSilentStranding
  <2> QED
    BY <1>1, <1>4, <2>1, <2>2
<1> QED
  BY <1>2, <1>3, <1>5, <1>6 DEF IInv

-----------------------------------------------------------------------------
(* The theorems. *)

LEMMA InitInv == Init => IInv
<1> SUFFICES ASSUME Init PROVE IInv
  OBVIOUS
<1>1. TypeOK
  <2>1. Idle \in [op : Ops, job : Jobs \cup {NoJob}, mode : Modes \cup {NoMode},
                  url : 0..MaxPages]
    BY DEF Idle, For, Ops
  <2> QED
    BY <2>1 DEF Init, TypeOK, RowTypeOK, QueueTypeOK, RunTypeOK, RequestTypeOK,
                BudgetTypeOK, Statuses, Labels, NoMem
<1>2. \A j \in Jobs : JobInv(j)
  BY DEF Init, JobInv, Absent, Blank, Entry, Place, Memory, Synced, Batch, Overshoot,
         Counts, Live, NoMem
<1>3. Requests /\ NoSilentStranding
  BY DEF Init, Requests, NoSilentStranding, Active, Idle, For
<1> QED
  BY <1>1, <1>2, <1>3 DEF IInv

LEMMA NextInv == IInv /\ [Next]_vars => IInv'
<1> SUFFICES ASSUME IInv, [Next]_vars PROVE IInv'
  OBVIOUS
<1>1. ASSUME NEW c \in Clients, Handler(c) PROVE IInv'
  <2>1. ASSUME NEW j \in Jobs, NEW m \in Modes, CreateCrawl(c, j, m) PROVE IInv'
    BY <2>1, InsertStep DEF CreateCrawl
  <2>2. ASSUME NEW j \in Jobs, InsertCopy(c, j) PROVE IInv'
    <3>1. req[c].mode \in Modes
      BY <2>2 DEF InsertCopy, IInv, Requests
    <3> QED
      BY <2>2, <3>1, InsertStep DEF InsertCopy
  <2> QED
    BY <1>1, <2>1, <2>2, ReadsStep, RefreshStep, EnqueueStep, CommitCancelStep,
       CommitDeleteStep, CommitUnlinkStep DEF Handler
<1>2. ASSUME NEW j \in Jobs, Worker(j) PROVE IInv'
  BY <1>2, SkipJobStep, LoadJobStep, GiveUpStep, StartRunStep, BuildSettingsStep,
     RejectSettingsStep, OpenEngineStep, CheckCancelledStep, RecordPageStep,
     EndOfStreamStep, SettleRunStep, FailRunStep, RunDiesStep, EndRunStep DEF Worker
<1>3. CASE Environment
  BY <1>3, InterruptStep, TimeoutRunStep, RejectWriteStep, DropRequestStep DEF Environment
<1>4. CASE UNCHANGED vars
  <2>1. \A k \in Jobs : JobInv(k)'
    BY <1>4, JobFrame DEF IInv, Same, vars, row, run
  <2>2. TypeOK'
    BY <1>4 DEF IInv, TypeOK, RowTypeOK, QueueTypeOK, RunTypeOK, RequestTypeOK,
                BudgetTypeOK, vars, row, run, budget
  <2>3. Requests' /\ NoSilentStranding'
    BY <1>4 DEF IInv, Requests, NoSilentStranding, Active, vars, row, run
  <2> QED
    BY <2>1, <2>2, <2>3 DEF IInv
<1> QED
  BY <1>1, <1>2, <1>3, <1>4 DEF Next

\* The inductive invariant holds in every reachable state.
THEOREM Invariance == Spec => []IInv
BY InitInv, NextInv, PTL DEF Spec

\* Every variable keeps its type.
THEOREM TypeCorrect == Spec => []TypeOK
<1>1. IInv => TypeOK
  BY DEF IInv
<1> QED
  BY <1>1, Invariance, PTL

\* The counters of a job agree with its rows, whatever runs, restarts,
\* cancels, deletes and faults interleave (tasks.py, crawler/router.py).
THEOREM CountersAgree == Spec => []Accounting
<1>1. IInv => Accounting
  BY DEF IInv, JobInv, Counts, Accounting
<1> QED
  BY <1>1, Invariance, PTL

\* A completed job has loaded at least one page (the verdict in tasks.py).
THEOREM CompletedIsHonest == Spec => []CompletedHasPages
<1>1. IInv => CompletedHasPages
  BY DEF IInv, JobInv, Counts, CompletedHasPages
<1> QED
  BY <1>1, Invariance, PTL

\* A cancelled job records at most one more page, in every mode.
THEOREM OvershootBounded == Spec => []BoundedOvershoot
<1>1. IInv => BoundedOvershoot
  BY DEF IInv, JobInv, Overshoot, BoundedOvershoot
<1> QED
  BY <1>1, Invariance, PTL

\* Only a fault can leave an active job without a run to come.
THEOREM NothingStranded == Spec => []NoSilentStranding
<1>1. IInv => NoSilentStranding
  BY DEF IInv
<1> QED
  BY <1>1, Invariance, PTL

-----------------------------------------------------------------------------
(* Cancelling an idle job. *)

\* A request leaves a stopped job stopped: it never touches the run, and only
\* a row that was never inserted is queued.
LEMMA HandlerKeepsStopped ==
    ASSUME TypeOK, NEW j \in Jobs, Stopped(j), NEW c \in Clients, Handler(c)
    PROVE  Stopped(j)'
<1>1. pc' = pc
  BY DEF Handler, CreateCrawl, ReadDiscovered, ReadRetrySource, InsertCopy, ReadForCancel,
         ReadForDelete, ReadForUnlink, Refresh, Enqueue, CommitCancel, CommitDelete,
         CommitUnlink, run
<1>2. status'[j] = status[j] \/ status'[j] \in {"cancelled", "deleted"}
  <2>1. CASE UNCHANGED status
    BY <2>1
  <2>2. CASE \E k \in Jobs : status[k] = "none" /\ status' = [status EXCEPT ![k] = "queued"]
    BY <2>2 DEF Stopped, TypeOK, RowTypeOK
  <2>3. CASE \E k : status' = [status EXCEPT ![k] = "cancelled"]
    BY <2>3 DEF TypeOK, RowTypeOK
  <2>4. CASE \E k : status' = [status EXCEPT ![k] = "deleted"]
    BY <2>4 DEF TypeOK, RowTypeOK
  <2> QED
    BY <2>1, <2>2, <2>3, <2>4
       DEF Handler, CreateCrawl, Insert, ReadDiscovered, ReadRetrySource, InsertCopy,
           ReadForCancel, ReadForDelete, ReadForUnlink, Refresh, Enqueue, CommitCancel,
           CommitDelete, CommitUnlink, row
<1> QED
  BY <1>1, <1>2 DEF Stopped, Live

\* The worker does not start a stopped job, and has no run of it to go on with.
LEMMA WorkerKeepsStopped ==
    ASSUME TypeOK, NEW j \in Jobs, Stopped(j), NEW k \in Jobs, Worker(k)
    PROVE  Stopped(j)'
<1>1. CASE k = j
  <2>1. pc[j] = "idle"
    BY DEF Stopped, Live
  <2>2. SkipJob(j) \/ GiveUp(j)
    BY <1>1, <2>1 DEF Stopped, Worker, LoadJob, StartRun, BuildSettings, RejectSettings,
         OpenEngine, CheckCancelled, RecordPage, EndOfStream, SettleRun, FailRun, MayRaise,
         RunDies, WritesNext, EndRun
  <2> QED
    BY <2>2 DEF SkipJob, GiveUp, Stopped, Live, row
<1>2. CASE k # j
  <2>1. status'[j] = status[j]
    BY <1>2 DEF Worker, SkipJob, LoadJob, GiveUp, StartRun, BuildSettings, RejectSettings,
         OpenEngine, CheckCancelled, RecordPage, EndOfStream, SettleRun, FailRun, RunDies,
         EndRun, FlushPages, WriteStatus, row, TypeOK, RowTypeOK
  <2>2. pc'[j] = pc[j]
    BY <1>2 DEF Worker, SkipJob, LoadJob, GiveUp, StartRun, BuildSettings, RejectSettings,
         OpenEngine, CheckCancelled, RecordPage, EndOfStream, SettleRun, FailRun, RunDies,
         EndRun, Goto, Leave, TypeOK, RunTypeOK
  <2> QED
    BY <2>1, <2>2 DEF Stopped, Live
<1> QED
  BY <1>1, <1>2

\* No fault, restart or dying request brings a stopped job back.
LEMMA EnvironmentKeepsStopped ==
    ASSUME TypeOK, NEW j \in Jobs, Stopped(j), Environment
    PROVE  Stopped(j)'
<1>1. status' = status
  BY DEF Environment, Interrupt, TimeoutRun, RejectWrite, DropRequest, row
<1>2. pc' = pc \/ \E k \in Jobs : pc' = [pc EXCEPT ![k] = "idle"]
  BY DEF Environment, Interrupt, TimeoutRun, RejectWrite, DropRequest, AbandonRun, Leave
<1> QED
  BY <1>1, <1>2 DEF Stopped, Live, TypeOK, RunTypeOK

\* A cancelled or deleted job that no run has in hand never runs again,
\* whatever arq still holds for it (the start guard of run_crawl_job).
THEOREM CancelIsFinal == Spec => IdleCancelIsFinal
<1>1. ASSUME TypeOK, [Next]_vars, NEW j \in Jobs, Stopped(j) PROVE Stopped(j)'
  <2>1. CASE UNCHANGED vars
    BY <1>1, <2>1 DEF Stopped, Live, vars, row, run
  <2> QED
    BY <1>1, <2>1, HandlerKeepsStopped, WorkerKeepsStopped, EnvironmentKeepsStopped DEF Next
<1>2. TypeOK /\ [Next]_vars => [\A j \in Jobs : Stopped(j) => Stopped(j)']_vars
  BY <1>1
<1> QED
  BY <1>2, TypeCorrect, PTL DEF Spec, IdleCancelIsFinal
-----------------------------------------------------------------------------
(* CrawlJobs implements JobView: what the workers, the queue and the        *)
(* handlers do to a job is what a polling client may see, one step or none  *)
(* at a time.                                                               *)

live == [j \in Jobs |-> pc[j] \notin {"idle", "finlog"}]

\* Jobs that some request is about to delete.
asked == [j \in Jobs |-> \E c \in Clients : req[c].op = "delete" /\ req[c].job = j]

\* The variables of JobView, as CrawlJobs maps them.
viewVars == <<status, disc, live, tries, late, asked>>
ViewStep == View!Next \/ UNCHANGED viewVars

\* Moving a run to another label moves its mapped liveness alone.
LEMMA LiveMove ==
    ASSUME NEW j \in Jobs, NEW l, TypeOK, pc' = [pc EXCEPT ![j] = l]
    PROVE  live' = [live EXCEPT ![j] = l \notin {"idle", "finlog"}]
BY DEF live, TypeOK, RunTypeOK

LEMMA LiveStays ==
    ASSUME NEW j \in Jobs, NEW l, TypeOK, pc' = [pc EXCEPT ![j] = l],
           pc[j] \in {"idle", "finlog"} <=> l \in {"idle", "finlog"}
    PROVE  UNCHANGED live
BY DEF live, TypeOK, RunTypeOK

\* Only requests to delete are asked for.
LEMMA AskedStays ==
    ASSUME TypeOK, NEW c \in Clients, NEW r, req' = [req EXCEPT ![c] = r],
           req[c].op # "delete", r.op # "delete"
    PROVE  UNCHANGED asked
<1>1. \A d \in Clients : req'[d] = IF d = c THEN r ELSE req[d]
  BY DEF TypeOK, RequestTypeOK
<1> QED
  BY <1>1 DEF asked

LEMMA NothingAsked ==
    ASSUME UNCHANGED req
    PROVE  UNCHANGED asked
BY DEF asked

-----------------------------------------------------------------------------
LEMMA RequestView ==
    ASSUME IInv, NEW c \in Clients, Handler(c)
    PROVE  ViewStep
<1>0. TypeOK
  BY DEF IInv
<1>1. ASSUME NEW j \in Jobs, NEW m \in Modes, Insert(c, j, m), UNCHANGED <<run, budget>>,
             req[c].op # "delete"
      PROVE  ViewStep
  <2>0. UNCHANGED asked
    <3>1. For("refresh", j).op # "delete"
      BY DEF For
    <3> QED
      BY <1>0, <1>1, <3>1, AskedStays DEF Insert, Open
  <2>1. View!Submit(j)
    BY <1>1, <2>0 DEF Insert, View!Submit, View!Show, run, live, asked
  <2> QED
    BY <2>1 DEF ViewStep, View!Next
<1>2. ASSUME NEW j \in Jobs, NEW m \in Modes, CreateCrawl(c, j, m) PROVE ViewStep
  BY <1>1, <1>2 DEF CreateCrawl
<1>3. ASSUME NEW j \in Jobs, InsertCopy(c, j) PROVE ViewStep
  <2>1. req[c].mode \in Modes
    BY <1>3 DEF InsertCopy, IInv, Requests
  <2> QED
    BY <1>1, <1>3, <2>1 DEF InsertCopy
<1>4. ASSUME NEW j \in Jobs,
             \/ ReadDiscovered(c, j)
             \/ ReadRetrySource(c, j)
             \/ ReadForCancel(c, j)
             \/ \E u \in found[j] : ReadForUnlink(c, j, u)
      PROVE  ViewStep
  <2>1. PICK r : /\ req' = [req EXCEPT ![c] = r] /\ req[c].op = "idle" /\ r.op # "delete"
                 /\ UNCHANGED <<row, run, budget>>
    BY <1>4 DEF ReadDiscovered, ReadRetrySource, ReadForCancel, ReadForUnlink, Open, For
  <2>2. UNCHANGED asked
    BY <1>0, <2>1, AskedStays
  <2> QED
    BY <2>1, <2>2 DEF ViewStep, viewVars, live, row, run
<1>5. CASE Refresh(c) \/ Enqueue(c) \/ CommitUnlink(c)
  <2>1. PICK r : req' = [req EXCEPT ![c] = r] /\ req[c].op # "delete" /\ r.op # "delete"
    BY <1>5 DEF Refresh, Enqueue, CommitUnlink, Respond, Open, Idle, For
  <2>2. UNCHANGED asked
    BY <1>0, <2>1, AskedStays
  <2> QED
    BY <1>5, <2>2 DEF Refresh, Enqueue, CommitUnlink, ViewStep, viewVars, live, row, run
<1>8. ASSUME NEW j \in Jobs, ReadForDelete(c, j) PROVE ViewStep
  <2>1. \A d \in Clients : req'[d] = IF d = c THEN For("delete", j) ELSE req[d]
    BY <1>0, <1>8 DEF ReadForDelete, Open, TypeOK, RequestTypeOK
  <2>2. req[c].op = "idle" /\ For("delete", j).op = "delete" /\ For("delete", j).job = j
    BY <1>8 DEF ReadForDelete, For
  <2>3. asked' = [asked EXCEPT ![j] = TRUE]
    BY <2>1, <2>2 DEF asked
  <2>4. status[j] \in {"completed", "failed", "cancelled"}
    BY <1>0, <1>8 DEF ReadForDelete, Exists, Active, TypeOK, RowTypeOK, Statuses
  <2>5. View!Ask(j)
    BY <1>8, <2>3, <2>4 DEF ReadForDelete, View!Ask, row, run, live, asked
  <2> QED
    BY <2>5 DEF ViewStep, View!Next
<1>6. CASE CommitCancel(c)
  <2>0. PICK j \in Jobs : j = req[c].job
    BY <1>6 DEF CommitCancel, IInv, Requests
  <2>1. UNCHANGED <<disc, live, tries>>
    BY <1>6 DEF CommitCancel, run, live
  <2>4. UNCHANGED asked
    <3>1. Idle.op # "delete"
      BY DEF Idle, For
    <3> QED
      BY <1>0, <1>6, <3>1, AskedStays DEF CommitCancel, Respond, Open
  <2>2. CASE Exists(j)
    <3>1. View!Cancel(j)
      BY <1>6, <2>0, <2>1, <2>2, <2>4
         DEF CommitCancel, Exists, View!Cancel, View!Visible, View!Show, live, asked
    <3> QED
      BY <3>1 DEF ViewStep, View!Next
  <2>3. CASE ~Exists(j)
    BY <1>6, <2>0, <2>1, <2>3, <2>4 DEF CommitCancel, ViewStep, viewVars
  <2> QED
    BY <2>2, <2>3
<1>7. CASE CommitDelete(c)
  <2>0. PICK j \in Jobs : j = req[c].job /\ status[j] # "none"
    BY <1>7 DEF CommitDelete, IInv, Requests
  <2>2. \A d \in Clients : req'[d] = IF d = c THEN Idle ELSE req[d]
    BY <1>0, <1>7 DEF CommitDelete, Respond, Open, TypeOK, RequestTypeOK
  <2>3. asked[j]
    BY <1>7, <2>0 DEF CommitDelete, asked
  <2>4. \A k \in Jobs : k # j => asked'[k] = asked[k]
    <3>1. Idle.op # "delete" /\ req[c].job = j
      BY <2>0 DEF Idle, For
    <3> QED
      BY <2>2, <3>1 DEF asked
  <2>5. asked'[j] \in BOOLEAN /\ asked' = [asked EXCEPT ![j] = asked'[j]]
    <3>1. asked'[j] \in BOOLEAN
      BY DEF asked
    <3>2. asked' = [k \in Jobs |-> asked'[k]]
      BY DEF asked
    <3>3. asked = [k \in Jobs |-> asked[k]]
      BY DEF asked
    <3>4. asked' = [asked EXCEPT ![j] = asked'[j]]
      BY <2>4, <3>2, <3>3
    <3> QED
      BY <3>1, <3>4
  <2>1. View!Remove(j)
    BY <1>7, <2>0, <2>3, <2>5 DEF CommitDelete, run, live, View!Remove, View!Show, asked
  <2> QED
    BY <2>1 DEF ViewStep, View!Next
<1> QED
  BY <1>2, <1>3, <1>4, <1>5, <1>6, <1>7, <1>8 DEF Handler

-----------------------------------------------------------------------------
\* A commit of one page into a running or just cancelled job, or of a whole
\* batch into a running one, publishes.
LEMMA PublishView ==
    ASSUME IInv, NEW j \in Jobs, NEW d \in 1..MaxPages, NEW s,
           disc[j] < d, FlushPages(j, d, s), UNCHANGED tries,
           pc[j] \notin {"idle", "finlog"},
           \/ status[j] = "running"
           \/ status[j] = "cancelled" /\ d = disc[j] + 1 /\ late[j] = 0,
           UNCHANGED <<live, asked>>
    PROVE  ViewStep
<1> DEFINE n == d - disc[j]
<1>1. /\ disc \in [Jobs -> 0..MaxPages] /\ late \in [Jobs -> Nat] /\ disc[j] \in Nat
  BY DEF IInv, TypeOK, RowTypeOK
<1>2. n \in 1..(MaxPages - disc[j]) /\ d = disc[j] + n
  BY <1>1
<1>3. disc' = [disc EXCEPT ![j] = disc[j] + n]
  BY <1>2 DEF FlushPages
<1>4. \/ status[j] = "running" /\ UNCHANGED late
      \/ /\ status[j] = "cancelled" /\ n = 1 /\ late[j] = 0
         /\ late' = [late EXCEPT ![j] = 1]
  <2>1. CASE status[j] = "running"
    <3>1. late' = [late EXCEPT ![j] = late[j]]
      BY <2>1 DEF FlushPages
    <3> QED
      BY <1>1, <2>1, <3>1
  <2>2. CASE status[j] = "cancelled" /\ d = disc[j] + 1 /\ late[j] = 0
    <3>1. d - disc[j] = 1
      BY <1>1, <2>2
    <3>2. late' = [late EXCEPT ![j] = 0 + 1]
      BY <2>2, <3>1 DEF FlushPages
    <3> QED
      BY <2>2, <3>1, <3>2
  <2> QED
    BY <2>1, <2>2
<1>5. live[j]
  BY DEF live
<1> HIDE DEF n
<1>6. View!Publish(j)
  BY <1>2, <1>3, <1>4, <1>5 DEF View!Publish, FlushPages, live, asked
<1> QED
  BY <1>6 DEF ViewStep, View!Next

\* A verdict written into a live run's row settles it.
LEMMA SettleView ==
    ASSUME IInv, NEW j \in Jobs, NEW s \in {"completed", "failed", "cancelled"},
           WriteStatus(j, s), Goto(j, "finlog"), UNCHANGED <<tries, asked>>, Exists(j),
           pc[j] \notin {"idle", "loaded", "finlog"},
           s = "completed" => disc[j] > 0,
           s = "cancelled" => status[j] = "cancelled"
    PROVE  ViewStep
<1>1. status[j] \in {"running", "cancelled"} /\ live[j]
  BY DEF IInv, JobInv, Place, Exists, TypeOK, RunTypeOK, Labels, live
<1>2. live' = [live EXCEPT ![j] = FALSE]
  BY LiveMove DEF Goto, IInv
<1>3. View!Settle(j)
  BY <1>1, <1>2 DEF WriteStatus, View!Settle, View!Show, live, asked
<1> QED
  BY <1>3 DEF ViewStep, View!Next

\* A run that ends without a verdict stops.
LEMMA StopView ==
    ASSUME IInv, NEW j \in Jobs, NEW entry, Leave(j, entry), Live(j), UNCHANGED <<row, req>>
    PROVE  ViewStep
<1>0. UNCHANGED asked
  BY NothingAsked
<1>1. CASE pc[j] = "finlog"
  <2>1. UNCHANGED live
    BY <1>1, LiveStays DEF Leave, IInv
  <2> QED
    BY <1>0, <2>1 DEF Leave, ViewStep, viewVars, row
<1>2. CASE pc[j] # "finlog"
  <2>1. live' = [live EXCEPT ![j] = FALSE]
    BY LiveMove DEF Leave, IInv
  <2>2. live[j]
    BY <1>2 DEF live, Live
  <2>3. View!Stop(j)
    BY <1>0, <2>1, <2>2 DEF Leave, View!Stop, row, live, asked
  <2> QED
    BY <2>3 DEF ViewStep, View!Next
<1> QED
  BY <1>1, <1>2

LEMMA WorkerView ==
    ASSUME IInv, NEW j \in Jobs, Worker(j)
    PROVE  ViewStep
<1>0. TypeOK /\ JobInv(j)
  BY DEF IInv
<1> UNCHANGED asked
  <2>1. UNCHANGED req
    BY DEF Worker, SkipJob, LoadJob, GiveUp, StartRun, BuildSettings, RejectSettings,
           OpenEngine, CheckCancelled, RecordPage, EndOfStream, SettleRun, FailRun,
           RunDies, EndRun
  <2> QED
    BY <2>1, NothingAsked
<1>1. CASE SkipJob(j)
  <2>1. pc[j] = "idle" /\ status[j] # "none" /\ UNCHANGED pc
    BY <1>0, <1>1 DEF SkipJob, Startable, JobInv, Absent, Entry, Live
  <2>2. live' = [live EXCEPT ![j] = FALSE] /\ ~live[j]
    BY <2>1 DEF live
  <2>3. View!Attempt(j)
    BY <1>1, <2>1, <2>2 DEF SkipJob, Startable, View!Attempt, row, live, asked
  <2> QED
    BY <2>3 DEF ViewStep, View!Next
<1>2. CASE LoadJob(j)
  <2>1. pc[j] = "idle" /\ status[j] # "none"
    BY <1>0, <1>2 DEF LoadJob, Startable, JobInv, Absent, Entry, Live
  <2>2. live' = [live EXCEPT ![j] = TRUE] /\ ~live[j]
    BY <1>0, <1>2, <2>1 DEF LoadJob, Goto, live, TypeOK, RunTypeOK
  <2>3. View!Attempt(j)
    BY <1>2, <2>1, <2>2 DEF LoadJob, Startable, View!Attempt, row, live, asked
  <2> QED
    BY <2>3 DEF ViewStep, View!Next
<1>3. CASE GiveUp(j)
  BY <1>3 DEF GiveUp, ViewStep, viewVars, live, row
<1>4. CASE StartRun(j)
  <2>1. UNCHANGED live /\ live[j]
    BY <1>0, <1>4, LiveStays DEF StartRun, Goto, live, TypeOK, RunTypeOK
  <2>2. CASE mem[j].status = "running"
    BY <1>0, <1>4, <2>1, <2>2
       DEF StartRun, WriteStatus, ViewStep, viewVars, TypeOK, RowTypeOK
  <2>3. CASE mem[j].status # "running"
    <3>1. View!Begin(j)
      BY <1>4, <2>1, <2>3
         DEF StartRun, WriteStatus, Exists, View!Begin, View!Visible, View!Show, live, asked
    <3> QED
      BY <3>1 DEF ViewStep, View!Next
  <2> QED
    BY <2>2, <2>3
<1>5. CASE BuildSettings(j) \/ OpenEngine(j)
  <2>1. UNCHANGED live
    BY <1>0, <1>5, LiveStays DEF BuildSettings, OpenEngine, Goto
  <2> QED
    BY <1>5, <2>1 DEF BuildSettings, OpenEngine, ViewStep, viewVars, row
<1>6. CASE RejectSettings(j)
  BY <1>6, SettleView DEF RejectSettings
<1>7. CASE CheckCancelled(j)
  <2>1. UNCHANGED live
    BY <1>0, <1>7, LiveStays DEF CheckCancelled, Goto
  <2>2. CASE status[j] = "cancelled"
    <3>1. FlushPages(j, mem[j].disc, mem[j].scraped) /\ UNCHANGED tries /\ pc[j] = "next"
      BY <1>7, <2>2 DEF CheckCancelled
    <3>2. /\ disc[j] \in Nat /\ mem[j].disc \in 0..MaxPages /\ late[j] \in Nat
          /\ mem[j].base \in Nat
      BY <1>0 DEF TypeOK, RowTypeOK, RunTypeOK
    <3>3. \/ mem[j].disc = disc[j]
          \/ mem[j].disc = disc[j] + 1 /\ late[j] = 0
      BY <1>0, <2>2, <3>1, <3>2
         DEF JobInv, Synced, Memory, Batch, Overshoot, Live, Exists, Streaming
    <3>4. CASE mem[j].disc = disc[j]
      BY <1>0, <2>1, <3>1, <3>2, <3>4
         DEF FlushPages, ViewStep, viewVars, TypeOK, RowTypeOK
    <3>5. CASE mem[j].disc = disc[j] + 1 /\ late[j] = 0
      BY <2>1, <2>2, <3>1, <3>2, <3>5, PublishView
    <3> QED
      BY <3>3, <3>4, <3>5
  <2>3. CASE status[j] # "cancelled"
    BY <1>7, <2>1, <2>3 DEF CheckCancelled, ViewStep, viewVars, row
  <2> QED
    BY <2>2, <2>3
<1>8. CASE RecordPage(j)
  <2> DEFINE d == mem[j].disc + 1
             s == IF Scrapes(j) THEN mem[j].scraped + 1 ELSE mem[j].scraped
  <2>1. UNCHANGED live /\ UNCHANGED tries /\ pc[j] = "write"
    BY <1>0, <1>8, LiveStays DEF RecordPage, Goto
  <2>2. CASE Streaming(j)
    <3>1. FlushPages(j, d, s) /\ Exists(j)
      BY <1>8, <2>2 DEF RecordPage
    <3>2. disc[j] \in Nat /\ d = disc[j] + 1 /\ d \in 1..MaxPages
      BY <1>0, <2>1, <2>2, <3>1
         DEF TypeOK, RowTypeOK, RunTypeOK, JobInv, Synced, Memory, Live
    <3>3. \/ status[j] = "running"
          \/ status[j] = "cancelled" /\ late[j] = 0
      BY <1>0, <2>1, <3>1 DEF JobInv, Place, Overshoot, Exists
    <3> HIDE DEF d, s
    <3> QED
      BY <2>1, <3>1, <3>2, <3>3, PublishView
  <2>3. CASE ~Streaming(j)
    BY <1>8, <2>1, <2>3 DEF RecordPage, ViewStep, viewVars, row
  <2> QED
    BY <2>2, <2>3
<1>9. CASE EndOfStream(j)
  <2>1. UNCHANGED live /\ UNCHANGED tries /\ pc[j] = "next"
    BY <1>0, <1>9, LiveStays DEF EndOfStream, Goto
  <2>2. CASE Pending(j) # {}
    <3>1. /\ FlushPages(j, mem[j].disc, mem[j].scraped) /\ Exists(j) /\ ~Streaming(j)
          /\ (mem[j].base + 1)..mem[j].disc # {}
      BY <1>9, <2>2 DEF EndOfStream, Pending
    <3>2. /\ disc[j] \in Nat /\ mem[j].disc \in 0..MaxPages /\ mem[j].base = disc[j]
      BY <1>0, <2>1, <3>1 DEF TypeOK, RowTypeOK, RunTypeOK, JobInv, Synced, Live
    <3>3. mem[j].disc \in 1..MaxPages /\ disc[j] < mem[j].disc
      BY <3>1, <3>2
    <3>4. \/ status[j] = "running"
          \/ status[j] = "cancelled" /\ mem[j].disc = disc[j] + 1 /\ late[j] = 0
      BY <1>0, <2>1, <3>1, <3>2, <3>3 DEF JobInv, Place, Batch, Overshoot, Exists
    <3> QED
      BY <2>1, <3>1, <3>3, <3>4, PublishView
  <2>3. CASE Pending(j) = {}
    BY <1>9, <2>1, <2>3 DEF EndOfStream, ViewStep, viewVars, row
  <2> QED
    BY <2>2, <2>3
<1>10. CASE SettleRun(j)
  <2>1. disc[j] \in Nat /\ (Exists(j) => mem[j].disc = disc[j])
    BY <1>0, <1>10 DEF SettleRun, JobInv, Synced, Live, TypeOK, RowTypeOK
  <2>2. Verdict(j) = "cancelled" => status[j] = "cancelled"
    BY <1>0, <1>10 DEF SettleRun, Verdict, JobInv, Place, Exists
  <2>3. Verdict(j) = "completed" => mem[j].disc # 0
    BY <1>10 DEF SettleRun, Verdict
  <2>4. Verdict(j) \in {"completed", "failed", "cancelled"}
    BY DEF Verdict
  <2> QED
    BY <1>10, <2>1, <2>2, <2>3, <2>4, SettleView DEF SettleRun
<1>11. CASE FailRun(j)
  BY <1>11, SettleView DEF FailRun, MayRaise
<1>12. CASE RunDies(j)
  BY <1>12, StopView DEF RunDies, WritesNext, MayRaise, Live
<1>13. CASE EndRun(j)
  BY <1>13, StopView DEF EndRun, Live
<1> QED
  BY <1>1, <1>2, <1>3, <1>4, <1>5, <1>6, <1>7, <1>8, <1>9, <1>10, <1>11, <1>12, <1>13
     DEF Worker

LEMMA EnvironmentView ==
    ASSUME IInv, Environment
    PROVE  ViewStep
<1>1. ASSUME NEW j \in Jobs, Interrupt(j) \/ TimeoutRun(j) \/ RejectWrite(j)
      PROVE  ViewStep
  BY <1>1, StopView
     DEF Interrupt, TimeoutRun, RejectWrite, AbandonRun, WritesNext, MayRaise, Live
<1>2. ASSUME NEW c \in Clients, DropRequest(c)
      PROVE  ViewStep
  <2>1. UNCHANGED <<row, pc, tries>>
    BY <1>2 DEF DropRequest
  <2>2. CASE req[c].op # "delete"
    <3>1. Idle.op # "delete"
      BY DEF Idle, For
    <3>2. UNCHANGED asked
      BY <1>2, <2>2, <3>1, AskedStays DEF DropRequest, Respond, Open, IInv
    <3> QED
      BY <2>1, <3>2 DEF ViewStep, viewVars, live, row
  <2>3. CASE req[c].op = "delete"
    <3>0. PICK j \in Jobs : j = req[c].job
      BY <2>3 DEF IInv, Requests
    <3>1. \A d \in Clients : req'[d] = IF d = c THEN Idle ELSE req[d]
      BY <1>2 DEF DropRequest, Respond, Open, IInv, TypeOK, RequestTypeOK
    <3>2. \A k \in Jobs : k # j => asked'[k] = asked[k]
      <4>1. Idle.op # "delete"
        BY DEF Idle, For
      <4> QED
        BY <3>0, <3>1, <4>1 DEF asked
    <3>3. asked'[j] \in {FALSE, asked[j]}
      <4>1. asked[j] = TRUE /\ asked'[j] \in BOOLEAN
        BY <2>3, <3>0 DEF asked
      <4> QED
        BY <4>1
    <3>4. CASE asked'[j] = FALSE
      <4>1. asked' = [asked EXCEPT ![j] = FALSE]
        BY <3>2, <3>4 DEF asked
      <4>2. View!Withdraw(j)
        BY <2>1, <4>1 DEF View!Withdraw, live, row, asked
      <4> QED
        BY <4>2 DEF ViewStep, View!Next
    <3>5. CASE asked'[j] = asked[j]
      <4>1. UNCHANGED asked
        BY <3>2, <3>5 DEF asked
      <4> QED
        BY <2>1, <4>1 DEF ViewStep, viewVars, live, row
    <3> QED
      BY <3>3, <3>4, <3>5
  <2> QED
    BY <2>2, <2>3
<1> QED
  BY <1>1, <1>2 DEF Environment

\* The specification of jobs, queue and worker implements the client's view:
\* pages come only from a live run, one verdict per run, nothing after it.
THEOREM Refinement == Spec => ImplementsView
<1>1. Init => View!Init
  <2> SUFFICES ASSUME Init PROVE View!Init
    OBVIOUS
  <2>1. \A c \in Clients : req[c].op # "delete"
    BY DEF Init, Idle, For
  <2>2. asked = [j \in Jobs |-> FALSE]
    BY <2>1 DEF asked
  <2> QED
    BY <2>2 DEF Init, View!Init, asked
<1>2. IInv /\ [Next]_vars => [View!Next]_(View!vars)
  <2> SUFFICES ASSUME IInv, [Next]_vars PROVE ViewStep
    BY DEF ViewStep, viewVars, View!vars, live, asked
  <2>1. CASE UNCHANGED vars
    BY <2>1 DEF vars, row, run, ViewStep, viewVars, live, asked
  <2> QED
    BY <2>1, RequestView, WorkerView, EnvironmentView DEF Next
<1> QED
  BY <1>1, <1>2, Invariance, PTL DEF Spec, ImplementsView, View!Spec
=============================================================================
