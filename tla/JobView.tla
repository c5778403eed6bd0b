------------------------------ MODULE JobView ------------------------------
(***************************************************************************)
(* What a client that polls GET /crawls/{id} may see of a job: its status  *)
(* and its page count.  A run publishes pages and at most one verdict, a   *)
(* request cancels or removes the job, and nothing else writes; only a job *)
(* that was not active when its removal was asked for is removed.          *)
(* CrawlJobs implements this specification.                                *)
(***************************************************************************)
EXTENDS Naturals

CONSTANTS Jobs, MaxPages, MaxTries

VARIABLES
    status,     \* the status of each job
    pages,      \* pages a job reports
    live,       \* a run may still publish into the job
    starts,     \* how often a run was attempted
    late,       \* pages published since the job became cancelled
    asked       \* somebody has asked to remove the job, and is waiting

vars == <<status, pages, live, starts, late, asked>>

Visible(j) == status[j] \notin {"none", "deleted"}
Show(j, s) == status' = [status EXCEPT ![j] = s]

Init ==
    /\ status = [j \in Jobs |-> "none"]
    /\ pages = [j \in Jobs |-> 0]
    /\ live = [j \in Jobs |-> FALSE]
    /\ starts = [j \in Jobs |-> 0]
    /\ late = [j \in Jobs |-> 0]
    /\ asked = [j \in Jobs |-> FALSE]

Submit(j) ==
    /\ status[j] = "none"
    /\ Show(j, "queued")
    /\ UNCHANGED <<pages, live, starts, late, asked>>

\* A cancel request that read the job active lands on whatever it has become.
Cancel(j) ==
    /\ Visible(j)
    /\ Show(j, "cancelled")
    /\ late' = [late EXCEPT ![j] = IF status[j] = "cancelled" THEN @ ELSE 0]
    /\ UNCHANGED <<pages, live, starts, asked>>

\* 409 for a job that is active.
Ask(j) ==
    /\ status[j] \in {"completed", "failed", "cancelled"}
    /\ asked' = [asked EXCEPT ![j] = TRUE]
    /\ UNCHANGED <<status, pages, live, starts, late>>

\* Whoever asked may give up.
Withdraw(j) ==
    /\ asked' = [asked EXCEPT ![j] = FALSE]
    /\ UNCHANGED <<status, pages, live, starts, late>>

\* docs/apis.md says that a job to delete "must not be active".  It was not when
\* that was asked; a run that was still to come may have made it active since, and
\* it is removed all the same.  Others may have asked as well.
Remove(j) ==
    /\ asked[j]
    /\ Show(j, "deleted")
    /\ pages' = [pages EXCEPT ![j] = 0]
    /\ late' = [late EXCEPT ![j] = 0]
    /\ \E more \in BOOLEAN : asked' = [asked EXCEPT ![j] = more]
    /\ UNCHANGED <<live, starts>>

\* One attempt at a run, skipped when the job is cancelled or gone.
Attempt(j) ==
    /\ ~live[j]
    /\ status[j] # "none"
    /\ starts[j] < MaxTries
    /\ starts' = [starts EXCEPT ![j] = @ + 1]
    /\ live' = [live EXCEPT ![j] = status[j] \notin {"cancelled", "deleted"}]
    /\ UNCHANGED <<status, pages, late, asked>>

Begin(j) ==
    /\ live[j]
    /\ Visible(j)
    /\ Show(j, "running")
    /\ UNCHANGED <<pages, live, starts, late, asked>>

\* Pages only grow, in a running job or by one in a job just cancelled.
Publish(j) ==
    /\ live[j]
    /\ \E n \in 1..(MaxPages - pages[j]) :
         /\ pages' = [pages EXCEPT ![j] = @ + n]
         /\ \/ status[j] = "running" /\ UNCHANGED late
            \/ /\ status[j] = "cancelled" /\ n = 1 /\ late[j] = 0
               /\ late' = [late EXCEPT ![j] = 1]
    /\ UNCHANGED <<status, live, starts, asked>>

\* The verdict ends the run's right to publish.
Settle(j) ==
    /\ live[j]
    /\ status[j] \in {"running", "cancelled"}
    /\ \/ Show(j, "completed") /\ pages[j] > 0
       \/ Show(j, "failed")
       \/ Show(j, "cancelled") /\ status[j] = "cancelled"
    /\ live' = [live EXCEPT ![j] = FALSE]
    /\ UNCHANGED <<pages, starts, late, asked>>

\* An interrupted or dying run leaves the job as it is.
Stop(j) ==
    /\ live[j]
    /\ live' = [live EXCEPT ![j] = FALSE]
    /\ UNCHANGED <<status, pages, starts, late, asked>>

Next ==
    \E j \in Jobs :
        \/ Submit(j) \/ Cancel(j) \/ Ask(j) \/ Withdraw(j) \/ Remove(j)
        \/ Attempt(j) \/ Begin(j) \/ Publish(j) \/ Settle(j) \/ Stop(j)

Spec == Init /\ [][Next]_vars
=============================================================================
