---------------------------- MODULE ExternalJobs ----------------------------
(****************************************************************************)
(* The jobs of a backend that belong to no run: every poll records them in  *)
(* weekly bins, which live in a cache and in files.                         *)
(* (runs/storage.py, the end of poll_backend and the job routes of main.py) *)
(****************************************************************************)
EXTENDS Naturals, FiniteSets

CONSTANTS
    Jobs,       \* what may come up in the scheduler's queue
    Managed,    \* those of them that submit_task has submitted
    Weeks,      \* the weeks that pass, in order
    WeekOf,     \* job -> the week of its submit time, 0 when it has none
    MaxCrashes  \* bound: crashes of the server

VARIABLES
    queue,      \* job -> "new", "PENDING", "RUNNING" or "gone"
    owned,      \* the jobs an item of a run names
    filtered,   \* the poll asks for the jobs of one user only, who has none
    week,       \* the current week
    cache,      \* _weekly_cache of the backend: week -> bin, or Uncached
    store,      \* week -> bin on disk, or NoFile
    dirty,      \* the weeks among _dirty_runs
    view,       \* backend_state.jobs: job -> state, "gone" when not listed
    poll,       \* poll_backend: [pc, jobs]
    cancels,    \* job -> its cancellation: "no", "same", or "old" when the
                \* view it was found in has been replaced
    crashes

vars == <<queue, owned, filtered, week, cache, store, dirty, view, poll, cancels, crashes>>

Listed   == {"PENDING", "RUNNING"}
Terminal == {"completed", "failed"}
Uncached == [j \in Jobs |-> "uncached"]
NoFile   == [j \in Jobs |-> "no file"]
Nothing  == [j \in Jobs |-> "none"]
Unlisted == [j \in Jobs |-> "gone"]
IdlePoll == [pc |-> "idle", jobs |-> Unlisted]

\* slurm_state_to_run_status for the states a job of the view may have.
RunStatusOf == [PENDING |-> "queued", RUNNING |-> "running", CANCELLED |-> "failed"]

Init ==
    /\ queue = [j \in Jobs |-> "new"] /\ owned = {} /\ filtered = FALSE
    /\ week = CHOOSE w \in Weeks : \A v \in Weeks : w <= v
    /\ cache = [w \in Weeks |-> Uncached] /\ store = [w \in Weeks |-> NoFile]
    /\ dirty = {} /\ view = Unlisted /\ poll = IdlePoll
    /\ cancels = [j \in Jobs |-> "no"] /\ crashes = 0

-----------------------------------------------------------------------------
(* The scheduler, the calendar, the user's filter, the manager's own jobs.  *)

Storages == <<cache, store, dirty>>

JobComes(j) ==
    /\ queue[j] = "new" /\ WeekOf[j] \in {0, week}
    /\ queue' = [queue EXCEPT ![j] = "PENDING"]
    /\ UNCHANGED <<owned, filtered, week, Storages, view, poll, cancels, crashes>>

JobRuns(j) ==
    /\ queue[j] = "PENDING" /\ queue' = [queue EXCEPT ![j] = "RUNNING"]
    /\ UNCHANGED <<owned, filtered, week, Storages, view, poll, cancels, crashes>>

JobGoes(j) ==
    /\ queue[j] \in Listed /\ queue' = [queue EXCEPT ![j] = "gone"]
    /\ UNCHANGED <<owned, filtered, week, Storages, view, poll, cancels, crashes>>

\* submit_task writes the id when the scheduler has answered.
SubmitAnswered(j) ==
    /\ j \in Managed \ owned /\ queue[j] # "new"
    /\ owned' = owned \cup {j}
    /\ UNCHANGED <<queue, filtered, week, Storages, view, poll, cancels, crashes>>

NextWeek ==
    /\ week + 1 \in Weeks /\ week' = week + 1
    /\ UNCHANGED <<queue, owned, filtered, Storages, view, poll, cancels, crashes>>

toggle_filter ==
    /\ filtered' = ~filtered
    /\ UNCHANGED <<queue, owned, week, Storages, view, poll, cancels, crashes>>

-----------------------------------------------------------------------------
(* Bins.                                                                    *)

\* get_or_create_weekly_run: cache, then disk, then an empty bin.
Bin(w) == IF cache[w] # Uncached THEN cache[w]
          ELSE IF store[w] # NoFile THEN store[w] ELSE Nothing

\* The bin add_external_job puts a job into.
BinOf(j) == IF WeekOf[j] = 0 THEN week ELSE WeekOf[j]

\* add_external_job for every job of js with its status.
Added(js, status) ==
    [w \in Weeks |->
        IF \E j \in js : BinOf(j) = w
        THEN [j \in Jobs |-> IF j \in js /\ BinOf(j) = w THEN status[j] ELSE Bin(w)[j]]
        ELSE cache[w]]

\* The statuses the reconciliation takes for unfinished.
NON_TERMINAL == {"pending", "submitted", "running"}

\* Only the bins of the cache are reconciled.
Reconciled_cached(c, js) ==
    [w \in Weeks |->
        IF c[w] = Uncached THEN Uncached
        ELSE [j \in Jobs |-> IF c[w][j] \in NON_TERMINAL /\ j \notin js THEN "completed" ELSE c[w][j]]]

\* reconcile_external_jobs on the bins c of the cache and those only on disk,
\* which enter the cache when an item of theirs changes; js are the jobs read.
Reconciled(c, js) ==
    [w \in Weeks |->
        LET bin == IF c[w] # Uncached THEN c[w] ELSE store[w]
        IN  IF bin = NoFile THEN Uncached
            ELSE LET new == [j \in Jobs |-> IF bin[j] \in NON_TERMINAL /\ j \notin js
                                            THEN "completed" ELSE bin[j]]
                 IN  IF new = bin THEN c[w] ELSE new]

\* save_if_dirty.
Flushed(c, d) == [w \in Weeks |-> IF w \in d /\ c[w] # Uncached THEN c[w] ELSE store[w]]

-----------------------------------------------------------------------------
(* The poll: get_jobs; the view after two more awaits; the recording after  *)
(* the accounting query; the save at the end of the cycle.                  *)

PollReads ==
    /\ poll.pc = "idle"
    /\ poll' = [pc |-> "asked",
                jobs |-> [j \in Jobs |-> IF queue[j] \in Listed /\ ~filtered THEN queue[j] ELSE "gone"]]
    /\ UNCHANGED <<queue, owned, filtered, week, Storages, view, cancels, crashes>>

PollPublishes ==
    /\ poll.pc = "asked"
    /\ view' = poll.jobs /\ poll' = [poll EXCEPT !.pc = "published"]
    /\ cancels' = [j \in Jobs |-> IF cancels[j] = "same" THEN "old" ELSE cancels[j]]
    /\ UNCHANGED <<queue, owned, filtered, week, Storages, crashes>>

\* The job objects are those of the view, which a cancellation may have
\* changed meanwhile.
PollRecords ==
    /\ poll.pc = "published"
    /\ LET js     == {j \in Jobs : poll.jobs[j] # "gone"}
           others == js \ owned
           added  == Added(others, [j \in others |-> RunStatusOf[view[j]]])
           cache2 == Reconciled(added, js)
       IN  /\ cache' = cache2
           /\ dirty' = dirty \cup {BinOf(j) : j \in others} \cup {w \in Weeks : cache2[w] # added[w]}
    /\ poll' = [poll EXCEPT !.pc = "recorded"]
    /\ UNCHANGED <<queue, owned, filtered, week, store, view, cancels, crashes>>

\* The save at the end of the cycle; other backends may keep the cycle long.
PollSaves ==
    /\ poll.pc = "recorded"
    /\ store' = Flushed(cache, dirty) /\ dirty' = {} /\ poll' = IdlePoll
    /\ UNCHANGED <<queue, owned, filtered, week, cache, view, cancels, crashes>>

\* A queue or accounting command that raises ends the poll of the backend.
PollFails ==
    /\ poll.pc \in {"asked", "published"}
    /\ poll' = [poll EXCEPT !.pc = "recorded"]
    /\ UNCHANGED <<queue, owned, filtered, week, Storages, view, cancels, crashes>>

-----------------------------------------------------------------------------
(* The requests.                                                            *)

\* cancel_external_job up to the scheduler's answer, when it may also end; the
\* scheduler may list the job a while longer.
CancelAsked(j) ==
    /\ view[j] # "gone" /\ cancels[j] = "no"
    /\ cancels' = [cancels EXCEPT ![j] = "same"]
    /\ UNCHANGED <<queue, owned, filtered, week, Storages, view, poll, crashes>>

CancelRaises(j) ==
    /\ cancels[j] # "no" /\ cancels' = [cancels EXCEPT ![j] = "no"]
    /\ UNCHANGED <<queue, owned, filtered, week, Storages, view, poll, crashes>>

\* The rest: it marks the job object it found, which may no longer be listed.
cancel_external_job(j) ==
    /\ cancels[j] # "no" /\ cancels' = [cancels EXCEPT ![j] = "no"]
    /\ view' = IF cancels[j] = "same" THEN [view EXCEPT ![j] = "CANCELLED"] ELSE view
    /\ LET c == Added({j}, [x \in {j} |-> "failed"])
       IN  /\ cache' = c /\ store' = Flushed(c, dirty \cup {BinOf(j)}) /\ dirty' = {}
    /\ UNCHANGED <<queue, owned, filtered, week, poll, crashes>>

Cleared(bin) == [j \in Jobs |-> IF bin[j] \in Terminal THEN "none" ELSE bin[j]]

\* clear_completed_external_jobs without bringing the cache up to date.
clear_stale_keeps_cache ==
    /\ store' = [w \in Weeks |-> IF store[w] = NoFile THEN NoFile ELSE Cleared(store[w])]
    /\ store' # store
    /\ UNCHANGED <<cache, dirty, queue, owned, filtered, week, view, poll, cancels, crashes>>

\* clear_completed_external_jobs works on the files, and a bin that changes
\* replaces the one in the cache (when the backend has a cache at all).
clear_stale_external_jobs ==
    /\ store' = [w \in Weeks |-> IF store[w] = NoFile THEN NoFile ELSE Cleared(store[w])]
    /\ store' # store
    /\ cache' = [w \in Weeks |->
            IF store'[w] # store[w] /\ \E v \in Weeks : cache[v] # Uncached THEN store'[w] ELSE cache[w]]
    /\ UNCHANGED <<dirty, queue, owned, filtered, week, view, poll, cancels, crashes>>

Without(bin, j) == [bin EXCEPT ![j] = "none"]

\* remove_external_job: from the first bin of the cache that has the job, or
\* else from the first file.
delete_external_job(j) ==
    LET inCache == {w \in Weeks : cache[w] # Uncached /\ cache[w][j] # "none"}
        inFile  == {w \in Weeks : store[w] # NoFile /\ store[w][j] # "none"}
    IN  /\ \/ /\ \E w \in inCache : cache' = [cache EXCEPT ![w] = Without(@, j)] /\ dirty' = dirty \cup {w}
              /\ UNCHANGED store
           \/ /\ inCache = {}
              /\ \E w \in inFile : store' = [store EXCEPT ![w] = Without(@, j)]
              /\ UNCHANGED <<cache, dirty>>
        /\ UNCHANGED <<queue, owned, filtered, week, view, poll, cancels, crashes>>

\* A crash and the next start: the bins are read from disk when needed.
Crash ==
    /\ crashes < MaxCrashes /\ crashes' = crashes + 1
    /\ cache' = [w \in Weeks |-> Uncached] /\ dirty' = {}
    /\ view' = Unlisted /\ poll' = IdlePoll /\ cancels' = [j \in Jobs |-> "no"]
    /\ UNCHANGED <<queue, owned, filtered, week, store>>

World == NextWeek \/ toggle_filter \/ \E j \in Jobs : JobComes(j) \/ JobRuns(j) \/ JobGoes(j) \/ SubmitAnswered(j)
Poll  == PollReads \/ PollPublishes \/ PollRecords \/ PollSaves
Requests ==
    \/ clear_stale_external_jobs
    \/ \E j \in Jobs : \/ CancelAsked(j) \/ CancelRaises(j) \/ cancel_external_job(j)
                       \/ delete_external_job(j)

Next == World \/ Poll \/ PollFails \/ Requests \/ Crash

\* poll_jobs polls again and again, and the commands of a poll do not fail for
\* ever.
Fairness == WF_vars(PollReads) /\ SF_vars(PollPublishes) /\ SF_vars(PollRecords) /\ WF_vars(PollSaves)
Spec == Init /\ [][Next]_vars /\ Fairness

-----------------------------------------------------------------------------
(* Properties.                                                              *)

TypeOK ==
    LET bins == [Jobs -> {"none", "queued", "running"} \cup Terminal]
    IN  /\ queue \in [Jobs -> Listed \cup {"new", "gone"}]
        /\ view \in [Jobs -> Listed \cup {"gone", "CANCELLED"}]
        /\ cache \in [Weeks -> bins \cup {Uncached}] /\ store \in [Weeks -> bins \cup {NoFile}]
        /\ dirty \subseteq Weeks /\ cancels \in [Jobs -> {"no", "same", "old"}]

\* The record the pages show of a job in the bin of a week.
Record(w, j) == Bin(w)[j]

\* A bin of the cache that is not marked dirty is the one on disk: clearing,
\* deleting and cancelling between two steps of a poll keep the copies equal.
CacheIsSaved == \A w \in Weeks : cache[w] = Uncached \/ w \in dirty \/ cache[w] = store[w]

\* A job recorded as running that has left the queue is recorded as ended some
\* day, also by a server that has been restarted and in a later week.
RunningSettles ==
    \A j \in Jobs, w \in Weeks :
        (queue[j] = "gone" /\ Record(w, j) = "running") ~> (Record(w, j) # "running")

\* (violated) "Mark non-terminal external jobs as completed if no longer in
\* scheduler queue.": a job last seen waiting is not forgotten as queued.
QueuedSettles ==
    \A j \in Jobs, w \in Weeks :
        (queue[j] = "gone" /\ Record(w, j) = "queued") ~> (Record(w, j) # "queued")

\* (violated) "external jobs (not in any active run)": a job of a run is never
\* recorded as external.
OwnJobsStayOut == \A j \in Managed, w \in Weeks : Record(w, j) = "none"
=============================================================================
