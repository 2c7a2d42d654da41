------------------------------ MODULE Storage ------------------------------
(****************************************************************************)
(* How runs reach the disk and come back: the dirty set, the run files, the *)
(* usage ledger, the hourly cleanup, crashes and restarts.                  *)
(* (runs/storage.py, runs/usage.py, with their callers in runs/manager.py,  *)
(* main.py and runtime.py)                                                  *)
(*                                                                          *)
(* A run has one item.  A rerun gives it a new created_at (its stamp), and  *)
(* the directory of a run is named after created_at and id: a run may have  *)
(* several files.  The code between two awaits is one step; a crash may     *)
(* fall into the middle of it.                                              *)
(****************************************************************************)
EXTENDS Naturals, FiniteSets

CONSTANTS
    Runs,       \* the ids of the managed runs
    MaxStamp    \* bound: how often a run is created or rerun

VARIABLES
    up,         \* the server process is alive
    mem,        \* RunManager.runs: run -> [at, st] or Absent
    dirty,      \* _dirty_runs
    files,      \* run -> stamp -> what run.json holds, or "absent"
    stamps,     \* run -> the stamps given out so far
    aged,       \* run -> stamps up to this one are past retention
    jobs,       \* run -> stamp -> jobs the scheduler holds
    ledger,     \* run -> readable lines of usage.jsonl with its key (2: or more)
    glued,      \* usage.jsonl ends in the middle of a line
    known,      \* UsageLog._keys, or Unread
    lost,       \* runs a state of which never reached the disk (history)
    trouble,    \* what has happened to appends: "failed", "cut" (history)
    deleted     \* runs the user has deleted (history)

disk == <<files, ledger, glued>>
vars == <<up, mem, dirty, disk, stamps, aged, jobs, known, lost, trouble, deleted>>

Stamps == 1 .. MaxStamp
Absent == [at |-> 0, st |-> "absent"]
Unread == {"unread"}   \* not read from the file yet
\* "cancelled" is an item that ended without having been started.
Ended  == {"done", "cancelled"}
States == Ended \cup {"pending", "running"}

Init ==
    /\ up = TRUE
    /\ mem = [r \in Runs |-> Absent] /\ dirty = {}
    /\ files = [r \in Runs |-> [s \in Stamps |-> "absent"]]
    /\ stamps = [r \in Runs |-> 0] /\ aged = stamps
    /\ jobs = [r \in Runs |-> [s \in Stamps |-> 0]]
    /\ ledger = [r \in Runs |-> 0] /\ glued = FALSE /\ known = Unread
    /\ lost = {} /\ trouble = {} /\ deleted = {}

-----------------------------------------------------------------------------
(* What the requests and the scheduling do to a run.  Every change ends in  *)
(* _persist_run, which only marks the run dirty.                            *)

Change(r, at, st) ==
    /\ mem' = [mem EXCEPT ![r] = [at |-> at, st |-> st]]
    /\ dirty' = dirty \cup {r}
    /\ UNCHANGED <<up, disk, aged, known, lost, trouble, deleted>>

NextStamp(r) == stamps[r] < MaxStamp /\ stamps' = [stamps EXCEPT ![r] = @ + 1]

Create(r) ==
    /\ up /\ stamps[r] = 0 /\ NextStamp(r)
    /\ Change(r, 1, "pending") /\ UNCHANGED jobs

\* submit_task without _persist_run.
Submit_unmarked(r) ==
    /\ up /\ mem[r].st = "pending"
    /\ LET at == mem[r].at
       IN  /\ jobs[r][at] < 2
           /\ jobs' = [jobs EXCEPT ![r][at] = @ + 1]
           /\ mem' = [mem EXCEPT ![r].st = "running"]
    /\ UNCHANGED <<up, dirty, disk, stamps, aged, known, lost, trouble, deleted>>

\* submit_task: the job exists before anything is written.
Submit(r) ==
    /\ up /\ mem[r].st = "pending"
    /\ LET at == mem[r].at
       IN  /\ jobs[r][at] < 2
           /\ jobs' = [jobs EXCEPT ![r][at] = @ + 1]
           /\ Change(r, at, "running")
    /\ UNCHANGED stamps

\* The job has ended, by itself or by cancel_run, and the item with it.
JobSeen(r) ==
    /\ up /\ mem[r].st = "running"
    /\ LET at == mem[r].at
       IN  /\ jobs' = [jobs EXCEPT ![r][at] = IF @ > 0 THEN @ - 1 ELSE 0]
           /\ Change(r, at, "done")
    /\ UNCHANGED stamps

CancelPending(r) ==
    /\ up /\ mem[r].st = "pending"
    /\ Change(r, mem[r].at, "cancelled") /\ UNCHANGED <<jobs, stamps>>

\* rerun_in_place without _persist_run.
rerun_in_place_unmarked(r) ==
    /\ up /\ mem[r].st \in Ended /\ NextStamp(r)
    /\ mem' = [mem EXCEPT ![r] = [at |-> stamps[r] + 1, st |-> "pending"]]
    /\ UNCHANGED <<up, dirty, disk, aged, jobs, known, lost, trouble, deleted>>

rerun_in_place(r) ==
    /\ up /\ mem[r].st \in Ended /\ NextStamp(r)
    /\ Change(r, stamps[r] + 1, "pending") /\ UNCHANGED jobs

\* Only the directory of the current created_at goes.
delete_run(r) ==
    /\ up /\ mem[r].st \in Ended
    /\ files' = [files EXCEPT ![r][mem[r].at] = "absent"]
    /\ mem' = [mem EXCEPT ![r] = Absent]
    /\ deleted' = deleted \cup {r}
    /\ UNCHANGED <<up, dirty, ledger, glued, stamps, aged, jobs, known, lost, trouble>>

JobEnds(r) ==
    /\ \E s \in Stamps : jobs[r][s] > 0 /\ jobs' = [jobs EXCEPT ![r][s] = @ - 1]
    /\ ~up
    /\ UNCHANGED <<up, mem, dirty, disk, stamps, aged, known, lost, trouble, deleted>>

\* Thirty days pass for one more stamp of the run.
Age(r) ==
    /\ aged[r] < stamps[r] /\ aged' = [aged EXCEPT ![r] = @ + 1]
    /\ UNCHANGED <<up, mem, dirty, disk, stamps, jobs, known, lost, trouble, deleted>>

-----------------------------------------------------------------------------
(* Saving.                                                                  *)

Live == {r \in Runs : mem[r] # Absent}

\* save_run through a temporary file: ok are the runs whose write succeeds.
Saved(ok) ==
    [r \in Runs |-> IF r \in ok \cap Live THEN [files[r] EXCEPT ![mem[r].at] = mem[r].st]
                    ELSE files[r]]

\* The runs whose state is gone, or will be at the next crash, when only the
\* writes of ok succeed.
Loses(ok) == lost' = lost \cup ((dirty \cap Live) \ ok)

\* save_if_dirty: the marks go, whether or not save_run has failed.
save_if_dirty(ok) == files' = Saved(ok) /\ dirty' = {} /\ Loses(ok)

SaveDirty ==
    /\ up /\ dirty # {}
    /\ \E ok \in SUBSET dirty : save_if_dirty(ok)
    /\ UNCHANGED <<up, mem, ledger, glued, stamps, aged, jobs, known, trouble, deleted>>

-----------------------------------------------------------------------------
(* The usage ledger.                                                        *)

Keys == IF known = Unread THEN {r \in Runs : ledger[r] > 0} ELSE known

\* Every finished task, whether it is in the ledger or not.
Unrecorded_all(m) == {r \in Runs : m[r].st = "done"}

\* records_from_runs with the filters of record: started and terminal, and
\* not yet in the ledger.
Unrecorded(m) == {r \in Runs : m[r].st = "done"} \ Keys

\* An append of the lines of rs reaches the file up to `whole`, possibly
\* followed by part of a line.  What follows a broken line is unreadable.
Written(whole, part) ==
    LET readable == IF glued /\ whole # {} THEN {whole \ {x} : x \in whole} ELSE {whole}
    IN  /\ \E rs \in readable : ledger' = [r \in Runs |-> IF r \in rs /\ ledger[r] < 2 THEN ledger[r] + 1 ELSE ledger[r]]
        /\ glued' = IF whole # {} THEN part ELSE glued \/ part

\* UsageLog.record for the runs m: the keys are remembered if the append
\* succeeds, and an append that fails is only logged.
record(m) ==
    LET rs == Unrecorded(m)
    IN  \/ Written(rs, FALSE) /\ known' = Keys \cup rs /\ UNCHANGED trouble
        \/ /\ rs # {}
           /\ \E whole \in SUBSET rs, part \in BOOLEAN : Written(whole, part)
           /\ known' = Keys /\ trouble' = trouble \cup {"failed"}

\* cleanup_old_runs looks at the files, and memory keeps what it removes.
Cleaned(fs) ==
    [r \in Runs |-> [s \in Stamps |->
        IF s <= aged[r] /\ fs[r][s] \in Ended THEN "absent" ELSE fs[r][s]]]

\* The hourly block without the flush to the ledger.
Hourly_unflushed ==
    /\ up
    /\ \E ok \in SUBSET dirty : files' = Cleaned(Saved(ok)) /\ dirty' = {} /\ Loses(ok)
    /\ UNCHANGED <<up, mem, ledger, glued, known, trouble, stamps, aged, jobs, deleted>>

\* The hourly block of poll_jobs: save, flush to the ledger, clean up.
Hourly ==
    /\ up
    /\ \E ok \in SUBSET dirty : files' = Cleaned(Saved(ok)) /\ dirty' = {} /\ Loses(ok)
    /\ record(mem)
    /\ UNCHANGED <<up, mem, stamps, aged, jobs, deleted>>

-----------------------------------------------------------------------------
(* The end of the process and the next start.                               *)

Down == up' = FALSE /\ mem' = [r \in Runs |-> Absent] /\ dirty' = {} /\ known' = Unread

\* shutdown_runtime, or a crash, possibly in the middle of a save.
Stop ==
    /\ up /\ Down
    /\ \E ok \in SUBSET dirty : save_if_dirty(ok)
    /\ UNCHANGED <<ledger, glued, stamps, aged, jobs, trouble, deleted>>

\* A crash in the middle of an append.
CrashInAppend ==
    /\ up /\ Down /\ Unrecorded(mem) # {}
    /\ \E whole \in SUBSET Unrecorded(mem), part \in BOOLEAN : Written(whole, part)
    /\ Loses({}) /\ trouble' = trouble \cup {"cut"}
    /\ UNCHANGED <<files, stamps, aged, jobs, deleted>>

OnDisk(r) == {s \in Stamps : files[r][s] # "absent"}

\* restore_from_storage takes the runs load_all_runs has found, the last of
\* several directories of one id in the order of the file system; then the
\* ledger is brought up to date.
Restart ==
    /\ ~up /\ up' = TRUE
    /\ \E pick \in [Runs -> {0} \cup Stamps] :
          /\ \A r \in Runs : IF OnDisk(r) = {} THEN pick[r] = 0 ELSE pick[r] \in OnDisk(r)
          /\ mem' = [r \in Runs |-> IF pick[r] = 0 THEN Absent
                                    ELSE [at |-> pick[r], st |-> files[r][pick[r]]]]
    /\ record(mem')
    /\ UNCHANGED <<dirty, files, stamps, aged, jobs, lost, deleted>>

Next ==
    \/ \E r \in Runs :
          \/ Create(r) \/ Submit(r) \/ JobSeen(r) \/ CancelPending(r)
          \/ rerun_in_place(r) \/ delete_run(r) \/ JobEnds(r) \/ Age(r)
    \/ SaveDirty \/ Hourly
    \/ Stop \/ CrashInAppend \/ Restart

Spec == Init /\ [][Next]_vars

-----------------------------------------------------------------------------
(* Properties.                                                              *)

TypeOK ==
    /\ up \in BOOLEAN /\ glued \in BOOLEAN /\ trouble \subseteq {"failed", "cut"}
    /\ mem \in [Runs -> [at : Stamps, st : States] \cup {Absent}]
    /\ dirty \subseteq Runs /\ lost \subseteq Runs /\ deleted \subseteq Runs
    /\ files \in [Runs -> [Stamps -> States \cup {"absent"}]]
    /\ stamps \in [Runs -> 0 .. MaxStamp] /\ aged \in [Runs -> 0 .. MaxStamp]
    /\ jobs \in [Runs -> [Stamps -> 0 .. 2]]
    /\ ledger \in [Runs -> 0 .. 2]
    /\ known = Unread \/ known \subseteq Runs

\* A state that is only in memory is marked dirty, or a write of that run has
\* failed before, or the cleanup has removed the file of an ended run: nothing
\* else keeps a change from the next save.
UnsavedIsKnown ==
    \A r \in Live :
        \/ files[r][mem[r].at] = mem[r].st
        \/ r \in dirty \cup lost
        \/ mem[r].st \in Ended /\ mem[r].at <= aged[r]

\* The scheduler never holds two jobs of the same submission of a run, across
\* crashes, shutdowns, reruns and stale files, unless a state of the run never
\* reached the disk.
SubmittedOnce == \A r \in Runs \ lost : \A s \in Stamps : jobs[r][s] <= 1

\* The cleanup removes the file of a finished run that is in memory only when
\* the ledger has a readable line for it, as long as no append has failed or
\* was cut short.
UsageKept ==
    [][\A r \in Runs :
          /\ mem[r].st = "done" /\ mem'[r] = mem[r]
          /\ files[r][mem[r].at] # "absent" /\ files'[r][mem[r].at] = "absent"
          => ledger'[r] > 0 \/ trouble # {} \/ trouble' # {}]_vars

\* No task is counted twice by the activity graph: crashes in the middle of
\* an append, restarts and reruns included, as long as no append has failed.
CountedOnce == "failed" \notin trouble => \A r \in Runs : ledger[r] <= 1

\* (violated) "Delete a terminal run.": it does not come back.
DeletedStaysDeleted == \A r \in deleted : mem[r] = Absent
=============================================================================
