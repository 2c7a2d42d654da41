------------------------------- MODULE Poller -------------------------------
(***************************************************************************)
(* How one submitted job gets its verdict: poll_backend of main.py and     *)
(* update_run_status of runs/manager.py.                                   *)
(*                                                                         *)
(* The evidence is read at different times: the scheduler's queue first    *)
(* (get_jobs), accounting some awaits later (get_job_stats), and each of   *)
(* them is used after further awaits.  The job, its accounting row, the    *)
(* clock move in between.  Jobs do not influence each other here, so the   *)
(* module follows one; requests, and what a verdict does to the other      *)
(* items of the run, are the subject of module Dispatch.                   *)
(*                                                                         *)
(* Time is the age of a timestamp, as far as the code tells ages apart.    *)
(***************************************************************************)
EXTENDS Naturals

CONSTANTS
    FailureStates,   \* JobBackend.failure_states
    TerminalStates,  \* JobBackend.terminal_states
    Outcomes,        \* what accounting may say of a job that ended
    QueueShowsEnd,   \* get_jobs still lists a job for a while after its end
    Faults,          \* what may go wrong
    MaxRestarts      \* bound on the restarts of the server

None == "none"

ASSUME PollerAssumption ==
    /\ None \notin TerminalStates /\ "RUNNING" \notin TerminalStates
    /\ FailureStates \subseteq TerminalStates \ {"COMPLETED"}
    /\ Outcomes \subseteq TerminalStates
    /\ QueueShowsEnd \in BOOLEAN
    /\ Faults \subseteq {"queue_down", "queue_raises", "stats_down", "dropped"}
    /\ MaxRestarts \in Nat

VARIABLES
    item,       \* the RunItem's fields that matter
    saved,      \* the same fields in the run's file
    submitAge,  \* of submitted_at: 0, 1 past SUBMIT_TO_FAIL_GRACE, 2 past NO_RECORD
    settleAge,  \* of finished_at: 1 past SETTLING_NO_RECORD_TIMEOUT
    job,        \* where the scheduler has the job
    outcome,    \* how it ended
    row,        \* the state in its accounting row
    poll,       \* the poll cycle
    restarts

vars == <<item, saved, submitAge, settleAge, job, outcome, row, poll, restarts>>

Terminal == {"completed", "failed"}

RunItem ==
    [status : {"submitted", "queued", "running", "settling", "completed", "failed"},
     error : {None, "scheduler", "no_record", "unconfirmed", "disappeared"},
     state : TerminalStates \cup {None},     \* scheduler_state
     finished : BOOLEAN]                     \* finished_at is set

JobState == {"pending", "running", "completed", "failed", "suspended"}

PollCycle ==
    [at : {"idle", "listed", "asked", "answered", "resolved", "updated"},
     listed : JobState \cup {None},   \* the job in backend_state.jobs
     asked : BOOLEAN,                 \* it is in sacct_ids
     age : 0 .. 2,                    \* both ages at now_utc
     settled : 0 .. 1,
     stats : Outcomes \cup {None, "RUNNING"}]

TypeOK ==
    /\ item \in RunItem /\ saved \in RunItem
    /\ submitAge \in 0 .. 2 /\ settleAge \in 0 .. 1
    /\ job \in {"accepted", "pending", "running", "ended", "gone", "dropped"}
    /\ outcome \in Outcomes \cup {None}
    /\ row \in Outcomes \cup {None, "RUNNING"}
    /\ poll \in PollCycle
    /\ restarts \in 0 .. MaxRestarts

Submitted == [status |-> "submitted", error |-> None, state |-> None, finished |-> FALSE]

(* A run stored by an older version: its job vanished, and it was marked   *)
(* FAILED without evidence.                                                *)
Disappeared ==
    [status |-> "failed", error |-> "disappeared", state |-> None, finished |-> TRUE]

PollIdle == [at |-> "idle", listed |-> None, asked |-> FALSE, age |-> 0, settled |-> 0,
             stats |-> None]

Init ==
    /\ \/ item = Submitted /\ submitAge = 0 /\ job = "accepted" /\ outcome = None
       \/ item = Disappeared /\ submitAge = 2 /\ job = "gone" /\ outcome \in Outcomes
    /\ saved = item
    /\ settleAge = 0
    /\ row = None
    /\ poll = PollIdle
    /\ restarts = 0

-----------------------------------------------------------------------------
(* The scheduler, its accounting database, and the clock.                  *)

InQueue == job \in {"accepted", "pending", "running"}

ItemKept == UNCHANGED <<item, saved, submitAge, settleAge, poll, restarts>>

JobListed ==
    /\ job = "accepted" /\ job' = "pending"
    /\ ItemKept /\ UNCHANGED <<outcome, row>>

(* The scheduler gave an id for a job it then forgets.                     *)
JobDropped ==
    /\ "dropped" \in Faults
    /\ job = "accepted" /\ job' = "dropped"
    /\ ItemKept /\ UNCHANGED <<outcome, row>>

JobStarts ==
    /\ job = "pending" /\ job' = "running"
    /\ ItemKept /\ UNCHANGED <<outcome, row>>

JobEnds ==
    /\ job \in {"pending", "running"} /\ job' = "ended"
    /\ outcome' \in Outcomes
    /\ ItemKept /\ UNCHANGED row

JobLeaves ==
    /\ job = "ended" /\ job' = "gone"
    /\ ItemKept /\ UNCHANGED <<outcome, row>>

(* The row may come before the job ends, and may lag behind it.            *)
RowAppears ==
    /\ row = None /\ job \notin {"accepted", "dropped"}
    /\ row' \in {"RUNNING"} \cup (IF outcome = None THEN {} ELSE {outcome})
    /\ ItemKept /\ UNCHANGED <<job, outcome>>

RowCloses ==
    /\ row = "RUNNING" /\ outcome # None /\ row' = outcome
    /\ ItemKept /\ UNCHANGED <<job, outcome>>

(* The clock.  A scheduler lists what it accepted, and a poll cycle takes  *)
(* its time, in less than the five minutes of the no-record timeout.       *)
SubmitAges ==
    /\ submitAge < 2
    /\ submitAge = 1 => job # "accepted" /\ poll.at = "idle"
    /\ submitAge' = submitAge + 1
    /\ UNCHANGED <<item, saved, settleAge, job, outcome, row, poll, restarts>>

SettleAges ==
    /\ item.finished /\ settleAge = 0 /\ poll.at = "idle"
    /\ settleAge' = 1
    /\ UNCHANGED <<item, saved, submitAge, job, outcome, row, poll, restarts>>

World ==
    \/ JobListed \/ JobDropped \/ JobStarts \/ JobEnds \/ JobLeaves
    \/ RowAppears \/ RowCloses \/ SubmitAges \/ SettleAges

-----------------------------------------------------------------------------
(* The poll cycle.                                                         *)

QueueView ==
    CASE job = "pending" -> {"pending", "suspended"}
      [] job = "running" -> {"running"}
      [] job = "ended" /\ QueueShowsEnd ->
            {"completed"} \cup (IF outcome \in FailureStates THEN {"failed"} ELSE {})
      [] OTHER -> {None}

WorldKept == UNCHANGED <<submitAge, job, outcome, row, restarts>>

(* get_jobs.  A queue command that fails looks like an empty queue; when   *)
(* it raises, poll_backend ends there and the jobs of the last poll stay.  *)
PollQueue ==
    /\ poll.at = "idle"
    /\ \/ \E seen \in QueueView : poll' = [poll EXCEPT !.at = "listed", !.listed = seen]
       \/ "queue_down" \in Faults /\ poll' = [poll EXCEPT !.at = "listed", !.listed = None]
       \/ "queue_raises" \in Faults /\ poll' = [poll EXCEPT !.at = "resolved"]
    /\ WorldKept /\ UNCHANGED <<item, saved, settleAge>>

(* Mutant: a settled item is not asked about again.                        *)
WantsStatsUntilSettled ==
    \/ item.status = "submitted" /\ poll.listed = None /\ submitAge >= 1
    \/ item.status = "settling"

(* The three phases that collect the ids to ask accounting for.            *)
WantsStats ==
    \/ item.status \in Terminal /\ item.state = None
    \/ item.status = "submitted" /\ poll.listed = None /\ submitAge >= 1
    \/ item.status = "settling"

PollAsk ==
    /\ poll.at = "listed"
    /\ poll' = [poll EXCEPT !.at = "asked", !.asked = WantsStats,
                            !.age = submitAge, !.settled = settleAge]
    /\ WorldKept /\ UNCHANGED <<item, saved, settleAge>>

PollStats ==
    /\ poll.at = "asked"
    /\ \/ poll' = [poll EXCEPT !.at = "answered", !.stats = IF poll.asked THEN row ELSE None]
       \/ "stats_down" \in Faults /\ poll' = [poll EXCEPT !.at = "answered", !.stats = None]
    /\ WorldKept /\ UNCHANGED <<item, saved, settleAge>>

(* Mutant: any state locks, RUNNING too.                                   *)
RecordedAnyState ==
    [item EXCEPT !.state = IF poll.stats # None THEN poll.stats ELSE @,
                 !.finished = @ \/ poll.stats # None]

(* What accounting says is recorded first ...                              *)
Recorded ==
    [item EXCEPT
        !.state = IF poll.stats \in TerminalStates THEN poll.stats ELSE @,
        !.finished = @ \/ poll.stats \in TerminalStates]

(* Mutant: a false COMPLETED is not corrected.                             *)
DecidedOnce ==
    IF item.status \notin {"settling", "submitted"} THEN Recorded ELSE
    CASE poll.stats \in FailureStates ->
           [Recorded EXCEPT !.status = "failed", !.error = "scheduler"]
      [] poll.stats = "COMPLETED" -> [Recorded EXCEPT !.status = "completed"]
      [] OTHER -> Recorded

(* ... and then decides the item, if the item still waits for a verdict or *)
(* has one that was a guess.                                               *)
Decided ==
    LET fails == [Recorded EXCEPT !.status = "failed", !.error = "scheduler"]
    IN  CASE poll.stats \in FailureStates
               /\ item.status \in {"completed", "settling", "submitted"} -> fails
          [] poll.stats = "COMPLETED" /\ item.status \in {"settling", "submitted"} ->
               [Recorded EXCEPT !.status = "completed"]
          [] poll.stats = "COMPLETED" /\ item.status = "failed"
               /\ item.error = "disappeared" ->
               [Recorded EXCEPT !.status = "completed", !.error = None]
          [] OTHER -> Recorded

(* Mutants: the first timeout does not look at the queue; there is no      *)
(* second timeout.                                                         *)
TimedOutListedToo ==
    CASE item.status = "submitted" /\ poll.age = 2 ->
           [item EXCEPT !.status = "failed", !.error = "no_record", !.finished = TRUE]
      [] item.status = "settling" /\ item.finished /\ poll.settled = 1 ->
           [item EXCEPT !.status = "completed", !.error = "unconfirmed"]
      [] OTHER -> item

TimedOutOnce ==
    IF item.status = "submitted" /\ poll.listed = None /\ poll.age = 2
    THEN [item EXCEPT !.status = "failed", !.error = "no_record", !.finished = TRUE]
    ELSE item

(* Without an answer the two timeouts decide.                              *)
TimedOut ==
    CASE item.status = "submitted" /\ poll.listed = None /\ poll.age = 2 ->
           [item EXCEPT !.status = "failed", !.error = "no_record", !.finished = TRUE]
      [] item.status = "settling" /\ item.finished /\ poll.settled = 1 ->
           [item EXCEPT !.status = "completed", !.error = "unconfirmed"]
      [] OTHER -> item

PollResolve ==
    /\ poll.at = "answered"
    /\ item' = IF poll.stats # None THEN Decided ELSE TimedOut
    /\ poll' = [poll EXCEPT !.at = "resolved"]
    /\ WorldKept /\ UNCHANGED <<saved, settleAge>>

(* Mutants: leaving the queue is an end before the queue was ever entered; *)
(* leaving the queue is COMPLETED at once.                                 *)
UpdatedUnseenToo ==
    IF item.status \in Terminal THEN item ELSE
    CASE poll.listed = None /\ item.status # "settling" ->
            [item EXCEPT !.status = "settling", !.finished = TRUE]
      [] poll.listed = "running" -> [item EXCEPT !.status = "running"]
      [] poll.listed = "pending" -> [item EXCEPT !.status = "queued"]
      [] poll.listed = "completed" -> [item EXCEPT !.status = "settling"]
      [] poll.listed = "failed" -> [item EXCEPT !.status = "failed", !.error = "scheduler"]
      [] OTHER -> item

UpdatedVanishCompletes ==
    IF item.status \in Terminal THEN item ELSE
    CASE poll.listed = None /\ item.status \in {"queued", "running", "settling"} ->
            [item EXCEPT !.status = "completed", !.finished = TRUE]
      [] poll.listed = "running" -> [item EXCEPT !.status = "running"]
      [] poll.listed = "pending" -> [item EXCEPT !.status = "queued"]
      [] poll.listed = "completed" -> [item EXCEPT !.status = "completed"]
      [] poll.listed = "failed" -> [item EXCEPT !.status = "failed", !.error = "scheduler"]
      [] OTHER -> item

(* update_run_status, with the queue as it was when the cycle began.       *)
Updated ==
    IF item.status \in Terminal THEN item ELSE
    CASE poll.listed = None /\ item.status \in {"queued", "running"} ->
            [item EXCEPT !.status = "settling", !.finished = TRUE]
      [] poll.listed = "running" -> [item EXCEPT !.status = "running"]
      [] poll.listed = "pending" /\ item.status \notin {"queued", "running"} ->
            [item EXCEPT !.status = "queued"]
      [] poll.listed = "completed" -> [item EXCEPT !.status = "settling"]
      [] poll.listed = "failed" ->
            [item EXCEPT !.status = "failed", !.error = "scheduler", !.finished = TRUE]
      [] OTHER -> item

PollUpdate ==
    /\ poll.at = "resolved"
    /\ item' = Updated
    /\ settleAge' = IF Updated.status = "settling" /\ poll.listed = None
                       /\ item.status # "settling" THEN 0 ELSE settleAge
    /\ poll' = [poll EXCEPT !.at = "updated"]
    /\ WorldKept /\ UNCHANGED saved

(* save_dirty, at the end of the cycle only.                               *)
PollSave ==
    /\ poll.at = "updated"
    /\ saved' = item
    /\ poll' = [PollIdle EXCEPT !.listed = poll.listed]
    /\ WorldKept /\ UNCHANGED <<item, settleAge>>

PollStep ==
    PollQueue \/ PollAsk \/ PollStats \/ PollResolve \/ PollUpdate \/ PollSave

(* The server stops anywhere and starts again from the run's file.         *)
Restart ==
    /\ restarts < MaxRestarts
    /\ restarts' = restarts + 1
    /\ item' = saved
    /\ settleAge' \in IF saved.finished THEN settleAge .. 1 ELSE {0}
    /\ poll' = PollIdle
    /\ UNCHANGED <<saved, submitAge, job, outcome, row>>

Next == World \/ PollStep \/ Restart

Spec == Init /\ [][Next]_vars

-----------------------------------------------------------------------------
(* Verdicts and evidence.                                                  *)

(* A job that still waits or runs is never failed for want of a record:    *)
(* its slot would be given away.                                           *)
NoRecordMeansNotQueued == item.error = "no_record" => ~InQueue

(* "The job scheduler said the job is done": an item is COMPLETED, and its *)
(* dependents may start, only when its job has ended.                      *)
CompletedMeansEnded == item.status = "completed" => ~InQueue

(* What accounting confirmed and what the item says agree, but for the     *)
(* items that had been given up by then: no branch corrects those.         *)
Agrees(state) ==
    /\ item.status \in Terminal
    /\ item.error # "no_record" => (item.status = "completed" <=> state = "COMPLETED")

ConfirmedAgrees == item.state # None => Agrees(item.state)

(* A COMPLETED item is taken back only if accounting had never confirmed   *)
(* it: `run watch --exit-status` does not see a verdict flip.              *)
VerdictStands ==
    [][item.status = "completed" /\ item'.status # "completed" =>
         item.error = "unconfirmed" \/ restarts' # restarts]_vars

-----------------------------------------------------------------------------
(* Fairness: the polling task goes on, the queue and accounting answer     *)
(* again and again when they are asked, time passes, the job ends, and a   *)
(* row that was opened is closed after it.  Nothing says that a row        *)
(* appears.                                                                *)
Fairness ==
    /\ WF_vars(PollStep)
    /\ SF_vars(PollQueue /\ poll'.at = "listed")
    /\ SF_vars(PollStats /\ poll'.stats = (IF poll.asked THEN row ELSE None))
    /\ SF_vars(SubmitAges) /\ SF_vars(SettleAges)
    /\ WF_vars(JobListed) /\ WF_vars(JobEnds) /\ WF_vars(JobLeaves) /\ WF_vars(RowCloses)

FairSpec == Spec /\ Fairness

(* "Better than a permanently stuck run": a SETTLING item gets a verdict,  *)
(* with or without an accounting row.                                      *)
SettlingResolves == item.status = "settling" ~> item.status \in Terminal

(* Once accounting knows how the job ended it is recorded, the item says   *)
(* the same, and goes on saying it: a guess made before is corrected.      *)
TruthPrevails ==
    row \in TerminalStates ~> [](item.state = row /\ Agrees(row))

=============================================================================
