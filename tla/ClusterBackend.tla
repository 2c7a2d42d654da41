--------------------------- MODULE ClusterBackend ---------------------------
(****************************************************************************)
(* backends/slurm.py and backends/pbs.py: the commands of a batch scheduler *)
(* over SSH.  get_jobs is squeue or qstat; the verdict is pieced together   *)
(* from the rows of sacct, or from the attributes of qstat -xf and of       *)
(* tracejob, which open and close behind the job.                           *)
(****************************************************************************)
EXTENDS Naturals, FiniteSets

CONSTANTS
    Tasks,
    Kinds,      \* "slurm", "pbs"
    Faults,     \* what may go wrong
    MaxCrashes  \* bound on the crashes of the server

VARIABLES
    kind,
    sub,        \* _submit_and_verify
    phase,      \* the scheduler: none, queued, running, overtime, ended
    ending,     \* how an ended job ended
    rows,       \* accounting, behind the job: nothing, open, the script's row, closed
    at,         \* get_jobs is waiting
    since, answer, crashes

scheduler == <<phase, ending, rows>>
reading == <<at, since, answer>>
vars == <<kind, sub, scheduler, reading, crashes>>

NotReading == {"not reading"}
Nothing == {"nothing"}

(* What accounting says of a job that is over, in the end.  Of Slurm: the   *)
(* job's row and the row of its batch step, with the exit code's halves; of *)
(* PBS: the state letter and the exit status.                               *)
NoStep == [state |-> "none", code |-> 0, signal |-> 0]
Row(s, c, g) == [state |-> s, code |-> c, signal |-> g]
Slurm(t, main, step) == [truth |-> t, main |-> main, step |-> step]

SlurmEndings == {
    Slurm("succeeded", Row("COMPLETED", 0, 0), Row("COMPLETED", 0, 0)),
    Slurm("failed", Row("FAILED", 1, 0), Row("FAILED", 1, 0)),
    Slurm("failed", Row("COMPLETED", 0, 0), Row("OUT_OF_MEMORY", 0, 125)),   \* "misleadingly"
    Slurm("failed", Row("COMPLETED", 0, 0), Row("COMPLETED", 1, 0)),         \* masked
    Slurm("failed", Row("COMPLETED", 1, 0), NoStep)}

SlurmKills == {
    Slurm("killed", Row("TIMEOUT", 0, 0), Row("CANCELLED", 0, 15)),
    Slurm("killed", Row("CANCELLED", 0, 0), NoStep),
    Slurm("killed", Row("BOOT_FAIL", 0, 0), NoStep)}

Pbs(t, letter, exit) == [truth |-> t, letter |-> letter, exit |-> exit]
NoStatus == 0 - 1

PbsEndings == {Pbs("succeeded", "F", 0), Pbs("failed", "F", 1)}
PbsKills == {Pbs("killed", "F", 271)}
    \cup (IF "no_status" \in Faults THEN {Pbs("killed", "F", NoStatus)} ELSE {})

Endings == IF kind = "slurm" THEN SlurmEndings ELSE PbsEndings
Kills == IF kind = "slurm" THEN SlurmKills ELSE PbsKills
NotEnded == [truth |-> "none"]

job == [i \in Tasks |->
    CASE sub[i] # "answered" -> "none"
      [] sub[i] = "answered" /\ phase[i] = "ended" -> ending[i].truth
      [] OTHER -> "live"]

TypeOK ==
    /\ kind \in Kinds
    /\ sub \in [Tasks -> {"none", "submit", "queue", "accounting", "answered", "refused", "lost"}]
    /\ phase \in [Tasks -> {"none", "queued", "running", "overtime", "ended"}]
    /\ \A i \in Tasks : ending[i] \in Endings \cup Kills \cup {NotEnded}
    /\ rows \in [Tasks -> {"none", "open", "step", "closed"}]
    /\ at \in BOOLEAN

Init ==
    /\ kind \in Kinds
    /\ sub = [i \in Tasks |-> "none"] /\ phase = [i \in Tasks |-> "none"]
    /\ ending = [i \in Tasks |-> NotEnded] /\ rows = [i \in Tasks |-> "none"]
    /\ at = FALSE /\ since = NotReading /\ answer = Nothing /\ crashes = 0

-----------------------------------------------------------------------------
(* The scheduler and its accounting.                                        *)

Without(i) == IF since = NotReading THEN since ELSE since \ {i}
Scheduler == UNCHANGED <<kind, sub, at, answer, crashes>>

Starts(i) ==
    /\ phase[i] = "queued" /\ phase' = [phase EXCEPT ![i] = "running"]
    /\ UNCHANGED <<ending, rows, since>> /\ Scheduler

(* PBS lets a job run past its limit for a while.                           *)
Overruns(i) ==
    /\ kind = "pbs" /\ "walltime" \in Faults
    /\ phase[i] = "running" /\ phase' = [phase EXCEPT ![i] = "overtime"]
    /\ UNCHANGED <<ending, rows, since>> /\ Scheduler

EndsWith(i, E) ==
    /\ phase' = [phase EXCEPT ![i] = "ended"]
    /\ \E e \in E : ending' = [ending EXCEPT ![i] = e]
    /\ since' = Without(i) /\ Scheduler
    /\ UNCHANGED rows

Ends(i) == phase[i] \in {"running", "overtime"} /\ EndsWith(i, Endings \cup Kills)

Opens(i) ==
    /\ rows[i] = "none" /\ phase[i] # "none"
    /\ rows' = [rows EXCEPT ![i] = "open"]
    /\ UNCHANGED <<phase, ending, since>> /\ Scheduler

(* The script's row closes before the job's.                                *)
Closes(i) ==
    /\ phase[i] = "ended"
    /\ rows[i] \in {"open", "step"}
    /\ rows' = [rows EXCEPT ![i] = IF @ = "open" /\ kind = "slurm" THEN "step" ELSE "closed"]
    /\ UNCHANGED <<phase, ending, since>> /\ Scheduler

(* scancel, qdel: no answer is looked at.                                   *)
cancel_job(i) ==
    /\ sub[i] = "answered" /\ phase[i] \in {"queued", "running", "overtime"}
    /\ EndsWith(i, Kills)

-----------------------------------------------------------------------------
(* _submit_and_verify: a job may be queued and its submission fail.         *)

Submission(i, from, to) ==
    /\ sub[i] = from /\ sub' = [sub EXCEPT ![i] = to]
    /\ UNCHANGED <<kind, reading, ending, rows, crashes>>

submit_task(i) == Submission(i, "none", "submit") /\ UNCHANGED phase

Accepted(i) == Submission(i, "submit", "queue") /\ phase' = [phase EXCEPT ![i] = "queued"]

(* sbatch or qsub is refused, or has queued the job and its answer is lost. *)
Fails(i) ==
    /\ Submission(i, "submit", "refused")
    /\ \E p \in {"none", "queued"} : phase' = [phase EXCEPT ![i] = p]

(* squeue, then sacct; qstat -f, then qstat -xf.                            *)
_verify_job_accepted(i) ==
    /\ \/ Submission(i, "queue", "answered") /\ phase[i] # "ended"
       \/ Submission(i, "queue", "accounting")
       \/ Submission(i, "accounting", "answered") /\ rows[i] # "none"
       \/ Submission(i, "accounting", "refused")
    /\ UNCHANGED phase

-----------------------------------------------------------------------------
(* get_jobs: a command, and its answer.                                     *)

get_jobs ==
    /\ ~at /\ at' = TRUE
    /\ since' = {i \in Tasks : job[i] = "live"} /\ answer' = Nothing
    /\ UNCHANGED <<kind, sub, scheduler, crashes>>

InQueue == {i \in Tasks : phase[i] \in {"queued", "running", "overtime"}}

(* "queue": a command that fails is an empty queue; "filter": the jobs of   *)
(* the configured filter_user are not those of the account that submits.    *)
QueueAnswers ==
    /\ at /\ at' = FALSE
    /\ \E listed \in {InQueue} \cup (IF Faults \cap {"queue", "filter"} # {} THEN {{}} ELSE {}) :
          answer' = listed
    /\ since' = NotReading
    /\ UNCHANGED <<kind, sub, scheduler, crashes>>

-----------------------------------------------------------------------------
(* get_job_stats                                                            *)

SLURM_FAILURE_STATES == {"FAILED", "TIMEOUT", "OUT_OF_MEMORY", "CANCELLED", "NODE_FAIL", "PREEMPTED"}

_slurm_exitcode_indicates_failure(r) == r.code # 0 \/ r.signal # 0

Open == Row("RUNNING", 0, 0)
StepRow(i) == IF rows[i] \in {"step", "closed"} THEN ending[i].step ELSE NoStep
MainRow(i) == IF rows[i] = "closed" THEN ending[i].main ELSE Open

(* What the script's own row says goes before the state of the job's.       *)
StepVerdict(s) ==
    IF s.state \in SLURM_FAILURE_STATES THEN s.state
    ELSE IF _slurm_exitcode_indicates_failure(s) THEN "FAILED" ELSE "none"

(* Mutant: the state of the job's row alone.                                *)
sacct_state_main(i) == MainRow(i).state

sacct_state(i) ==
    LET s == StepVerdict(StepRow(i))
        state == IF s # "none" THEN s ELSE MainRow(i).state
    IN  IF _slurm_exitcode_indicates_failure(MainRow(i)) /\ state = "COMPLETED"
        THEN "FAILED" ELSE state

PBS_FAILURE_STATES == {"FAILED", "CANCELLED", "WALLTIME_EXCEEDED", "MEM_EXCEEDED", "NODE_FAIL"}

(* The limit is looked at first, then the status, then the letter.          *)
_determine_terminal_state(i) ==
    CASE phase[i] = "overtime" -> "WALLTIME_EXCEEDED"
      [] phase[i] # "overtime" /\ rows[i] # "closed" -> "none"
      [] rows[i] = "closed" /\ ending[i].exit = 0 -> "COMPLETED"
      [] rows[i] = "closed" /\ ending[i].exit = 271 -> "CANCELLED"
      [] rows[i] = "closed" /\ ending[i].exit \notin {0, 271, NoStatus} -> "FAILED"
      [] rows[i] = "closed" /\ ending[i].exit = NoStatus -> "COMPLETED"

State(i) == IF kind = "slurm" THEN sacct_state(i) ELSE _determine_terminal_state(i)

get_job_stats == [i \in Tasks |->
    IF sub[i] # "answered" \/ rows[i] = "none" THEN "none"
    ELSE IF State(i) = "COMPLETED" THEN "succeeded"
    ELSE IF State(i) \in SLURM_FAILURE_STATES \cup PBS_FAILURE_STATES THEN "failed"
    ELSE "none"]

Crash ==
    /\ crashes < MaxCrashes /\ crashes' = crashes + 1
    /\ sub' = [i \in Tasks |-> IF sub[i] \in {"submit", "queue", "accounting"} THEN "lost" ELSE sub[i]]
    /\ at' = FALSE /\ since' = NotReading /\ answer' = Nothing
    /\ UNCHANGED <<kind, scheduler>>

Next ==
    \/ \E i \in Tasks :
          \/ Starts(i) \/ Overruns(i) \/ Ends(i) \/ Opens(i) \/ Closes(i)
          \/ submit_task(i) \/ Accepted(i) \/ Fails(i) \/ _verify_job_accepted(i)
          \/ cancel_job(i)
    \/ get_jobs \/ QueueAnswers \/ Crash

Spec == Init /\ [][Next]_vars

-----------------------------------------------------------------------------

One == {"poll"}
C == INSTANCE JobBackend WITH
        Jobs <- Tasks, Polls <- One, verdict <- get_job_stats,
        since <- [p \in One |-> since], answer <- [p \in One |-> answer]

(* As long as the queue command works and lists this account's jobs, every  *)
(* live job is in the listing, and the verdict comes after the end, agrees  *)
(* with the script's exit and is never taken back while the rows close one  *)
(* after the other.                                                         *)
Contract == C!Spec

=============================================================================
