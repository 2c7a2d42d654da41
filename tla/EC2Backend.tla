----------------------------- MODULE EC2Backend -----------------------------
(****************************************************************************)
(* backends/ec2.py: one instance per task.  submit_task, cancel_job and the *)
(* poll's get_jobs with its probes run as coroutines; each call of AWS or   *)
(* SSH is an await.  All the bookkeeping is in memory.                      *)
(****************************************************************************)
EXTENDS Naturals, FiniteSets

CONSTANTS
    Tasks,         \* one instance each, named by its task
    Polls,         \* calls of get_jobs: poll_jobs, and the filter's toggle
    Loop,          \* the one of poll_jobs
    max_instances,
    Faults,        \* what may go wrong
    MaxCrashes     \* bound on the crashes of the server

VARIABLES
    inst,       \* AWS: the state of an instance
    exit,       \* the sentinel: the exit code of the container
    sub,        \* submit_task
    tracked,    \* _instances
    completed,  \* _completed: instance -> terminal_state
    logs,       \* instances whose log is archived
    poll,       \* get_jobs
    snap,       \* the answer of DescribeInstances
    probe,      \* _probe_one, per tracked instance
    cancel,     \* cancel_job
    answer,     \* what get_jobs last returned
    since,      \* instances alive since get_jobs was called (history)
    crashes

aws == <<inst, exit>>
reading == <<poll, snap, probe, answer>>
vars == <<aws, sub, tracked, completed, logs, reading, cancel, since, crashes>>

NotReading == {"not reading"}
Nothing == {"nothing"}
None == [i \in Tasks |-> "none"]

(* What is true of a task, in the words of JobBackend.                      *)
job == [i \in Tasks |->
    CASE exit[i] = "0" -> "succeeded"
      [] exit[i] = "1" -> "failed"
      [] exit[i] = "none" /\ inst[i] \in {"shutting-down", "gone"} -> "killed"
      [] exit[i] = "none" /\ inst[i] \in {"pending", "running"} -> "live"
      [] OTHER -> "none"]

(* get_job_stats answers from _completed.                                   *)
get_job_stats == [i \in Tasks |->
    CASE completed[i] = "SUCCEEDED" -> "succeeded"
      [] completed[i] = "FAILED" -> "failed"
      [] completed[i] = "TERMINATED_EARLY" -> "lost"
      [] OTHER -> "none"]

TypeOK ==
    /\ inst \in [Tasks -> {"none", "pending", "running", "shutting-down", "gone"}]
    /\ exit \in [Tasks -> {"none", "0", "1"}]
    /\ sub \in [Tasks -> {"none", "asked", "launched", "answered", "refused", "lost"}]
    /\ tracked \subseteq Tasks /\ logs \subseteq Tasks
    /\ \A p \in Polls : since[p] \in SUBSET Tasks \/ since[p] = NotReading
    /\ completed \in [Tasks -> {"none", "SUCCEEDED", "FAILED", "TERMINATED_EARLY"}]
    /\ poll \in [Polls -> {"idle", "asked", "described", "probing"}]
    /\ probe \in [Polls -> [Tasks -> {"none", "check", "archive", "terminate", "record", "stays", "done"}]]
    /\ cancel \in [Tasks -> {"none", "called", "returned"}]
    /\ crashes \in 0 .. MaxCrashes

Everywhere(x) == [p \in Polls |-> x]

Init ==
    /\ inst = None /\ exit = None /\ sub = None
    /\ tracked = {} /\ completed = None /\ logs = {}
    /\ poll = Everywhere("idle") /\ snap = Everywhere(None) /\ probe = Everywhere(None)
    /\ since = Everywhere(NotReading) /\ answer = Everywhere(Nothing)
    /\ cancel = None /\ crashes = 0

-----------------------------------------------------------------------------
(* AWS and the container.                                                   *)

Ends(i) == [p \in Polls |-> IF since[p] = NotReading THEN NotReading ELSE since[p] \ {i}]

AwsKept == UNCHANGED <<sub, tracked, completed, logs, reading, cancel, crashes>>

Boots(i) ==
    /\ inst[i] = "pending" /\ inst' = [inst EXCEPT ![i] = "running"]
    /\ AwsKept /\ UNCHANGED <<exit, since>>

(* The answer of RunInstances does not take longer than boot, image pull    *)
(* and task together.                                                       *)
Exits(i) ==
    /\ inst[i] = "running" /\ exit[i] = "none" /\ sub[i] # "launched"
    /\ \E code \in {"0", "1"} : exit' = [exit EXCEPT ![i] = code]
    /\ since' = Ends(i)
    /\ AwsKept /\ UNCHANGED inst

(* The safety timer, or AWS itself.                                         *)
Dies(i) ==
    /\ inst[i] \in {"pending", "running"}
    /\ inst' = [inst EXCEPT ![i] = "shutting-down"]
    /\ since' = Ends(i)
    /\ AwsKept /\ UNCHANGED exit

(* A terminated instance is described for about an hour.                    *)
Forgotten(i) ==
    /\ inst[i] = "shutting-down" /\ \A p \in Polls : poll[p] = "idle"
    /\ inst' = [inst EXCEPT ![i] = "gone"]
    /\ AwsKept /\ UNCHANGED <<exit, since>>

terminate_instances(i) ==
    \/ /\ inst' = [inst EXCEPT ![i] = IF @ = "gone" THEN @ ELSE "shutting-down"]
       /\ since' = Ends(i)
    \/ "terminate" \in Faults /\ UNCHANGED <<inst, since>>

-----------------------------------------------------------------------------
(* submit_task: the number of instances is looked at before the call, and   *)
(* at the maximum the task is refused.                                      *)

submit_task(i) ==
    /\ sub[i] = "none"
    /\ sub' = [sub EXCEPT ![i] =
           IF Cardinality(tracked) < max_instances THEN "asked" ELSE "refused"]
    /\ UNCHANGED <<aws, tracked, completed, logs, reading, cancel, since, crashes>>

(* "overlap": the instance may be launched while DescribeInstances is under     *)
(* way and too late for its answer.                                         *)
RunInstances(i) ==
    /\ sub[i] = "asked"
    /\ \/ /\ (\E p \in Polls : poll[p] = "described") => "overlap" \in Faults
          /\ sub' = [sub EXCEPT ![i] = "launched"] /\ inst' = [inst EXCEPT ![i] = "pending"]
       \/ sub' = [sub EXCEPT ![i] = "refused"] /\ UNCHANGED inst
    /\ UNCHANGED <<exit, tracked, completed, logs, reading, cancel, since, crashes>>

Submitted(i) ==
    /\ sub[i] = "launched"
    /\ sub' = [sub EXCEPT ![i] = "answered"]
    /\ tracked' = tracked \cup {i}
    /\ UNCHANGED <<aws, completed, logs, reading, cancel, since, crashes>>

-----------------------------------------------------------------------------
(* cancel_job                                                               *)

CancelCalls(i) ==
    /\ sub[i] = "answered" /\ cancel[i] = "none"
    /\ cancel' = [cancel EXCEPT ![i] = "called"]
    /\ terminate_instances(i)
    /\ UNCHANGED <<exit, sub, tracked, completed, logs, reading, crashes>>

Finalized(i, state) == [completed EXCEPT ![i] = state]

CancelReturns(i) ==
    /\ cancel[i] = "called"
    /\ cancel' = [cancel EXCEPT ![i] = "returned"]
    /\ completed' = IF i \in tracked THEN Finalized(i, "TERMINATED_EARLY") ELSE completed
    /\ tracked' = tracked \ {i}
    /\ UNCHANGED <<aws, sub, logs, reading, since, crashes>>

-----------------------------------------------------------------------------
(* get_jobs                                                                 *)

At(p, from, to) == poll[p] = from /\ poll' = [poll EXCEPT ![p] = to]

get_jobs(p) ==
    /\ At(p, "idle", "asked")
    /\ since' = [since EXCEPT ![p] = {i \in Tasks : job[i] = "live"}]
    /\ answer' = [answer EXCEPT ![p] = Nothing]
    /\ probe' = [probe EXCEPT ![p] = None]
    /\ UNCHANGED <<aws, sub, tracked, completed, logs, snap, cancel, crashes>>

Leave(p, listed) ==
    /\ answer' = [answer EXCEPT ![p] = listed]
    /\ since' = [since EXCEPT ![p] = NotReading]

DescribeInstances(p) ==
    /\ \/ /\ At(p, "asked", "described") /\ UNCHANGED <<since, answer>>
          /\ snap' = [snap EXCEPT ![p] =
                [i \in Tasks |-> IF inst[i] = "gone" THEN "none" ELSE inst[i]]]
       \/ "describe" \in Faults /\ At(p, "asked", "idle") /\ Leave(p, {}) /\ UNCHANGED snap
    /\ UNCHANGED <<aws, sub, tracked, completed, logs, probe, cancel, crashes>>

Alive == {"pending", "running"}

(* Mutant: only what this process has launched.                             *)
reconcile_nothing(p) == tracked

(* The startup reconcile, on every poll.                                    *)
reconcile(p) ==
    tracked \cup {i \in Tasks : snap[p][i] \in Alive /\ i \notin tracked /\ completed[i] = "none"}

(* What a probe does before its first await.                                *)
BeginProbes(p) ==
    LET over == {i \in reconcile(p) : snap[p][i] \notin Alive}
    IN  /\ At(p, "described", "probing")
        /\ completed' = [i \in Tasks |-> IF i \in over THEN "TERMINATED_EARLY" ELSE completed[i]]
        /\ tracked' = reconcile(p) \ over
        /\ probe' = [probe EXCEPT ![p] = [i \in Tasks |->
               CASE i \in over -> "done"
                 [] i \in reconcile(p) \ over -> IF snap[p][i] = "pending" THEN "stays" ELSE "check"
                 [] OTHER -> "none"]]
        /\ UNCHANGED <<aws, sub, logs, snap, answer, cancel, since, crashes>>

Probe(p, i, from, to) == probe[p][i] = from /\ probe' = [probe EXCEPT ![p][i] = to]

(* Without the sentinel, or without a session, the task still runs.         *)
_check_sentinel(p, i) ==
    /\ \/ Probe(p, i, "check", "archive") /\ inst[i] = "running" /\ exit[i] # "none"
       \/ /\ Probe(p, i, "check", "stays")
          /\ exit[i] # "none" => inst[i] # "running" \/ "ssh" \in Faults
    /\ UNCHANGED <<aws, sub, tracked, completed, logs, poll, snap, answer, cancel, since, crashes>>

(* A log that cannot be fetched is given up; one that cannot be written     *)
(* ends the probe.                                                          *)
_archive_log(p, i) ==
    /\ \/ Probe(p, i, "archive", "terminate") /\ inst[i] = "running" /\ logs' = logs \cup {i}
       \/ /\ Probe(p, i, "archive", "terminate") /\ UNCHANGED logs
          /\ inst[i] # "running" \/ "ssh" \in Faults
       \/ Probe(p, i, "archive", "stays") /\ "disk" \in Faults /\ UNCHANGED logs
    /\ UNCHANGED <<aws, sub, tracked, completed, poll, snap, answer, cancel, since, crashes>>

_terminate_instance(p, i) ==
    /\ Probe(p, i, "terminate", "record")
    /\ terminate_instances(i)
    /\ UNCHANGED <<exit, sub, tracked, completed, logs, poll, snap, answer, cancel, crashes>>

(* Mutant: the exit code is not looked at.                                  *)
Record_success(p, i) ==
    /\ Probe(p, i, "record", "done")
    /\ completed' = Finalized(i, "SUCCEEDED")
    /\ tracked' = tracked \ {i}
    /\ UNCHANGED <<aws, sub, logs, poll, snap, answer, cancel, since, crashes>>

Record(p, i) ==
    /\ Probe(p, i, "record", "done")
    /\ completed' = Finalized(i, IF exit[i] = "0" THEN "SUCCEEDED" ELSE "FAILED")
    /\ tracked' = tracked \ {i}
    /\ UNCHANGED <<aws, sub, logs, poll, snap, answer, cancel, since, crashes>>

Return(p) ==
    /\ At(p, "probing", "idle") /\ \A i \in Tasks : probe[p][i] \in {"none", "stays", "done"}
    /\ Leave(p, {i \in Tasks : probe[p][i] = "stays" /\ snap[p][i] # "none"})
    /\ UNCHANGED <<aws, sub, tracked, completed, logs, snap, probe, cancel, crashes>>

(* The server stops and starts again: nothing of this was on disk.          *)
Crash ==
    /\ crashes < MaxCrashes /\ crashes' = crashes + 1
    /\ sub' = [i \in Tasks |-> IF sub[i] \in {"asked", "launched"} THEN "lost" ELSE sub[i]]
    /\ tracked' = {} /\ completed' = None
    /\ poll' = Everywhere("idle") /\ snap' = Everywhere(None) /\ probe' = Everywhere(None)
    /\ since' = Everywhere(NotReading) /\ answer' = Everywhere(Nothing)
    /\ cancel' = [i \in Tasks |-> IF cancel[i] = "called" THEN "none" ELSE cancel[i]]
    /\ UNCHANGED <<aws, logs>>

World(i) == Boots(i) \/ Exits(i) \/ Dies(i) \/ Forgotten(i)
Step(p, i) == _check_sentinel(p, i) \/ _archive_log(p, i) \/ _terminate_instance(p, i) \/ Record(p, i)
Reading(p) == get_jobs(p) \/ DescribeInstances(p) \/ BeginProbes(p) \/ Return(p)

Next ==
    \/ \E i \in Tasks :
          \/ World(i) \/ submit_task(i) \/ RunInstances(i) \/ Submitted(i)
          \/ CancelCalls(i) \/ CancelReturns(i)
          \/ \E p \in Polls : Step(p, i)
    \/ \E p \in Polls : Reading(p)
    \/ Crash

Spec == Init /\ [][Next]_vars

-----------------------------------------------------------------------------

C == INSTANCE JobBackend WITH Jobs <- Tasks, verdict <- get_job_stats

(* The backend is what the poller takes it for: a verdict comes after the   *)
(* end of the task, is true and stands, and a task that lives is listed.    *)
Contract == C!Spec

(* poll_jobs goes on; AWS answers it, sessions work and logs can be written *)
(* again and again.                                                         *)
Fairness ==
    /\ WF_vars(Reading(Loop)) /\ SF_vars(DescribeInstances(Loop) /\ poll'[Loop] = "described")
    /\ \A i \in Tasks :
          /\ WF_vars(Step(Loop, i))
          /\ SF_vars(_check_sentinel(Loop, i) /\ probe'[Loop][i] = "archive")
          /\ SF_vars(_archive_log(Loop, i) /\ probe'[Loop][i] = "terminate")

FairSpec == Spec /\ Fairness

(* A container that has exited gets its verdict while its instance lives.   *)
ExitIsCollected ==
    \A i \in Tasks : exit[i] # "none" ~>
        completed[i] # "none" \/ inst[i] \in {"shutting-down", "gone"}

(* (violated with two tasks) README.md, of max_instances: "Hard cap on      *)
(* concurrent task instances".                                              *)
InstanceCap ==
    Cardinality({i \in Tasks : sub[i] = "answered" /\ inst[i] \in {"pending", "running"}})
        <= max_instances

=============================================================================
