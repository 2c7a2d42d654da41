------------------------------ MODULE Backends ------------------------------
(* The four kinds of backend, each against the contract of JobBackend.      *)
(* They share nothing, so one of them moves in a behaviour.                 *)
EXTENDS Naturals, Sequences, FiniteSets

CONSTANTS
    Ec2Tasks, Polls, Loop, max_instances, Ec2Faults,  \* EC2Backend
    LocalTasks, Pids,                                 \* LocalBackend
    BatchTasks, Images, Base, Modes,                  \* BatchBackend
    ClusterTasks, Kinds,                              \* ClusterBackend
    MaxCrashes

VARIABLES part,
          inst, exit, sub, tracked, completed, logs, poll, snap, probe,
          cancel, answer, since, crashes,
          proc, pid, local_exit, others, launch, meta, rc, look, local_since,
          local_answer, local_crashes,
          mode, want, status, queue, ran, defs, batch_sub, template,
          _jd_template, cache, batch_at, ids, batch_since, batch_answer,
          batch_crashes,
          kind, cluster_sub, phase, ending, rows, cluster_at, cluster_since,
          cluster_answer, cluster_crashes

E == INSTANCE EC2Backend WITH
        Tasks <- Ec2Tasks, Faults <- Ec2Faults

L == INSTANCE LocalBackend WITH
        Tasks <- LocalTasks,
        exit <- local_exit, since <- local_since, answer <- local_answer,
        crashes <- local_crashes

B == INSTANCE BatchBackend WITH
        Tasks <- BatchTasks, Pinned <- TRUE, Faults <- {},
        sub <- batch_sub, at <- batch_at, since <- batch_since,
        answer <- batch_answer, crashes <- batch_crashes

K == INSTANCE ClusterBackend WITH
        Tasks <- ClusterTasks, Faults <- {},
        sub <- cluster_sub, at <- cluster_at, since <- cluster_since,
        answer <- cluster_answer, crashes <- cluster_crashes

-----------------------------------------------------------------------------
(* What the proofs assume of the constants.                                 *)

(* No task is called like a get_jobs that is not running.                   *)
ASSUME TasksAssumption ==
    "not reading" \notin Ec2Tasks \cup LocalTasks \cup BatchTasks \cup ClusterTasks

(* Sessions and the disk may fail; the calls of AWS take effect, and an     *)
(* instance that is launched is in the next description.                    *)
ASSUME Ec2Assumption == Ec2Faults \subseteq {"ssh", "disk"}

ASSUME LocalAssumption == 0 \notin Pids

ASSUME BatchAssumption ==
    Base \in Images /\ "none" \notin Images /\ Modes \subseteq {"revisions", "auto"}

ASSUME ClusterAssumption == Kinds \subseteq {"slurm", "pbs"}

-----------------------------------------------------------------------------
Init ==
    /\ part \in {"ec2", "local", "batch", "cluster"}
    /\ part = "batch" \/ (mode = "auto" /\ want = [i \in BatchTasks |-> Base])
    /\ part = "cluster" \/ (kind = "pbs")
    /\ E!Init
    /\ L!Init
    /\ B!Init
    /\ K!Init

Ec2Vars ==
    <<inst, exit, sub, tracked, completed, logs, poll, snap, probe, cancel,
      answer, since, crashes>>

LocalVars ==
    <<proc, pid, local_exit, others, launch, meta, rc, look, local_since,
      local_answer, local_crashes>>

BatchVars ==
    <<mode, want, status, queue, ran, defs, batch_sub, template, _jd_template,
      cache, batch_at, ids, batch_since, batch_answer, batch_crashes>>

ClusterVars ==
    <<kind, cluster_sub, phase, ending, rows, cluster_at, cluster_since,
      cluster_answer, cluster_crashes>>

Next ==
    \/ /\ part = "ec2" /\ E!Next
       /\ UNCHANGED <<part, LocalVars, BatchVars, ClusterVars>>
    \/ /\ part = "local" /\ L!Next
       /\ UNCHANGED <<part, Ec2Vars, BatchVars, ClusterVars>>
    \/ /\ part = "batch" /\ B!Next
       /\ UNCHANGED <<part, Ec2Vars, LocalVars, ClusterVars>>
    \/ /\ part = "cluster" /\ K!Next
       /\ UNCHANGED <<part, Ec2Vars, LocalVars, BatchVars>>

vars == <<part, Ec2Vars, LocalVars, BatchVars, ClusterVars>>

Spec == Init /\ [][Next]_vars

-----------------------------------------------------------------------------
(* Every backend is what the poller takes it for: get_jobs lists the jobs   *)
(* that live, and a verdict comes after the end, is true and stands.        *)
Contract ==
    /\ part = "ec2" => E!C!Init
    /\ part = "local" => L!C!Init
    /\ part = "batch" => B!C!Init
    /\ part = "cluster" => K!C!Init
    /\ [][/\ part = "ec2" => E!C!Next \/ UNCHANGED E!C!vars
          /\ part = "local" => L!C!Next \/ UNCHANGED L!C!vars
          /\ part = "batch" => B!C!Next \/ UNCHANGED B!C!vars
          /\ part = "cluster" => K!C!Next \/ UNCHANGED K!C!vars]_vars

(* EC2: a container that has exited gets its verdict while its instance     *)
(* lives.                                                                   *)
Collecting(i) ==
    /\ WF_(E!vars)(part = "ec2" /\ E!Step(Loop, i))
    /\ SF_(E!vars)(part = "ec2" /\ E!_check_sentinel(Loop, i) /\ probe'[Loop][i] = "archive")
    /\ SF_(E!vars)(part = "ec2" /\ E!_archive_log(Loop, i) /\ probe'[Loop][i] = "terminate")

ExitIsCollected ==
    /\ part = "ec2"
    /\ WF_(E!vars)(part = "ec2" /\ E!Reading(Loop))
    /\ SF_(E!vars)(part = "ec2" /\ E!DescribeInstances(Loop) /\ poll'[Loop] = "described")
    /\ \A i \in Ec2Tasks : Collecting(i)
    => E!ExitIsCollected

(* Batch: a job runs the image its task asked for.                          *)
RightImage == part = "batch" => B!RightImage
=============================================================================
