--------------------------- MODULE BackendProofs ---------------------------
(****************************************************************************)
(* Every backend implements what the poller relies on: for any number of    *)
(* jobs, of calls of get_jobs that overlap and of crashes, a live job is    *)
(* listed, and a verdict comes after the end, is true and stands.  For each *)
(* of the four the invariant that says what its own state knows of the      *)
(* jobs, then one lemma that takes every step to one of JobBackend or to    *)
(* none.                                                                    *)
(****************************************************************************)
EXTENDS Backends, TLAPS

(* Two functions that agree, or that agree but at one place.                *)
LEMMA SameFunction ==
    ASSUME NEW S, NEW f, NEW g, f = [i \in S |-> f[i]], g = [i \in S |-> g[i]],
           \A i \in S : g[i] = f[i]
    PROVE  g = f
  OBVIOUS

LEMMA SameButOne ==
    ASSUME NEW S, NEW f, NEW g, f = [i \in S |-> f[i]], g = [i \in S |-> g[i]],
           NEW j \in S, \A i \in S : i # j => g[i] = f[i]
    PROVE  g = [f EXCEPT ![j] = g[j]]
  OBVIOUS

-----------------------------------------------------------------------------
(* Slurm and PBS. The rows of a job open and close behind it, so that what  *)
(* they say together is true of it at every moment.                         *)

ClusterTyped ==
    /\ kind \in {"slurm", "pbs"}
    /\ cluster_sub \in [ClusterTasks ->
          {"none", "submit", "queue", "accounting", "answered", "refused", "lost"}]
    /\ phase \in [ClusterTasks -> {"none", "queued", "running", "ended"}]
    /\ DOMAIN ending = ClusterTasks
    /\ rows \in [ClusterTasks -> {"none", "open", "step", "closed"}]
    /\ cluster_at \in BOOLEAN

(* What is known of a job while it is submitted and afterwards.             *)
RowsBehind(i) ==
    /\ phase[i] = "ended" => ending[i] \in K!Endings \cup K!Kills
    /\ rows[i] \in {"step", "closed"} => phase[i] = "ended"
    /\ phase[i] = "none" => rows[i] = "none"
    /\ cluster_sub[i] \in {"queue", "accounting", "answered"} => phase[i] # "none"
    /\ cluster_sub[i] \in {"none", "submit"} => phase[i] = "none"

ClusterReads ==
    IF cluster_at THEN cluster_since \subseteq {i \in ClusterTasks : K!job[i] = "live"}
    ELSE cluster_since = K!NotReading

ClusterInv == ClusterTyped /\ (\A i \in ClusterTasks : RowsBehind(i)) /\ ClusterReads

ClusterContract == K!C!Next \/ UNCHANGED K!C!vars

(* What the contract speaks of are functions of the tasks.                  *)
LEMMA ClusterAreFunctions ==
    /\ K!job = [i \in ClusterTasks |-> K!job[i]]
    /\ K!job' = [i \in ClusterTasks |-> K!job'[i]]
    /\ K!get_job_stats = [i \in ClusterTasks |-> K!get_job_stats[i]]
    /\ K!get_job_stats' = [i \in ClusterTasks |-> K!get_job_stats'[i]]
  BY DEF K!job, K!get_job_stats

(* The truth about a job.                                                   *)
LEMMA ClusterJob ==
    \A i \in ClusterTasks :
          /\ cluster_sub[i] # "answered" => K!job[i] = "none"
          /\ cluster_sub[i] = "answered" /\ phase[i] = "ended" => K!job[i] = ending[i].truth
          /\ cluster_sub[i] = "answered" /\ phase[i] # "ended" => K!job[i] = "live"
  BY DEF K!job

(* What the script's row alone may say.                                     *)
StepFailed(i) ==
    \/ ending[i].step.state \in {"CANCELLED", "OUT_OF_MEMORY", "FAILED"}
    \/ ending[i].step.code = 1

(* How an ended job ended, and what its rows say one after the other.       *)
Agrees(i) ==
    /\ ending[i].truth \in {"succeeded", "failed", "killed"}
    /\ cluster_sub[i] = "answered" /\ rows[i] = "step" =>
          K!get_job_stats[i] = IF kind = "slurm" /\ StepFailed(i) THEN "failed" ELSE "none"
    /\ cluster_sub[i] = "answered" /\ rows[i] = "closed" =>
          /\ K!get_job_stats[i] \in
                {IF ending[i].truth = "succeeded" THEN "succeeded" ELSE "failed", "none"}
          /\ kind = "slurm" /\ StepFailed(i) => K!get_job_stats[i] = "failed"
    /\ kind = "slurm" /\ StepFailed(i) => ending[i].truth # "succeeded"

RowsSay ==
    \A i \in ClusterTasks :
        phase[i] = "ended" /\ ending[i] \in K!Endings \cup K!Kills => Agrees(i)

LEMMA RowsAgree == ClusterTyped => RowsSay
  BY DEF RowsSay, ClusterTyped, Agrees, StepFailed, K!get_job_stats, K!State, K!sacct_state,
         K!StepVerdict, K!StepRow, K!MainRow, K!_slurm_exitcode_indicates_failure, K!Open,
         K!NoStep, K!Row, K!SLURM_FAILURE_STATES, K!PBS_FAILURE_STATES,
         K!_determine_terminal_state, K!NoStatus, K!Endings, K!Kills, K!SlurmEndings,
         K!SlurmKills, K!Slurm, K!PbsEndings, K!PbsKills, K!Pbs

LEMMA RowsAgreeNext == ClusterTyped' => RowsSay'
  BY RowsAgree, PTL

(* There is no verdict before a row is closed.                              *)
NothingYet ==
    \A i \in ClusterTasks :
        cluster_sub[i] # "answered" \/ rows[i] \in {"none", "open"} =>
            K!get_job_stats[i] = "none"

LEMMA NoRowYet == ClusterTyped => NothingYet
  BY DEF NothingYet, ClusterTyped, K!get_job_stats, K!State, K!sacct_state, K!StepVerdict,
         K!StepRow, K!MainRow, K!_slurm_exitcode_indicates_failure, K!Open, K!NoStep, K!Row,
         K!SLURM_FAILURE_STATES, K!PBS_FAILURE_STATES, K!_determine_terminal_state

LEMMA NoRowYetNext == ClusterTyped' => NothingYet'
  BY NoRowYet, PTL

(* What is said of a job that is over is true.                              *)
ClusterTrue ==
    \A i \in ClusterTasks : K!get_job_stats[i] # "none" =>
        /\ K!C!True(K!job[i], K!get_job_stats[i])
        /\ K!get_job_stats[i] \in {"succeeded", "failed"}

LEMMA RowsTrue == ClusterInv => ClusterTrue
  <1> SUFFICES ASSUME ClusterInv, NEW i \in ClusterTasks, K!get_job_stats[i] # "none"
               PROVE  /\ K!C!True(K!job[i], K!get_job_stats[i])
                      /\ K!get_job_stats[i] \in {"succeeded", "failed"}
    BY DEF ClusterTrue
  <1>1. ClusterTyped /\ RowsBehind(i)
    BY DEF ClusterInv
  <1>2. cluster_sub[i] = "answered" /\ rows[i] \in {"step", "closed"}
    BY <1>1, NoRowYet DEF NothingYet, ClusterTyped
  <1>3. phase[i] = "ended" /\ ending[i] \in K!Endings \cup K!Kills
    BY <1>1, <1>2 DEF RowsBehind
  <1>4. K!job[i] = ending[i].truth
    BY <1>2, <1>3, ClusterJob
  <1> QED
    BY <1>1, <1>2, <1>3, <1>4, RowsAgree DEF RowsSay, Agrees, K!C!True, K!C!Ended

LEMMA RowsTrueNext == ClusterInv' => ClusterTrue'
  BY RowsTrue, PTL

(* A step that a poller does not notice.                                    *)
LEMMA ClusterHidden ==
    ASSUME UNCHANGED <<cluster_since, cluster_answer>>,
           \A i \in ClusterTasks : K!job[i]' = K!job[i] /\ K!get_job_stats[i]' = K!get_job_stats[i]
    PROVE  ClusterContract
  <1>1. K!job' = K!job
    BY ClusterAreFunctions, SameFunction
  <1>2. K!get_job_stats' = K!get_job_stats
    BY ClusterAreFunctions, SameFunction
  <1> QED
    BY <1>1, <1>2 DEF ClusterContract, K!C!vars

(* A step that changes the truth about one job, or the verdict on it.       *)
LEMMA ClusterChanges ==
    ASSUME ClusterInv', NEW i \in ClusterTasks,
           \A k \in ClusterTasks : k # i =>
                K!job'[k] = K!job[k] /\ K!get_job_stats'[k] = K!get_job_stats[k],
           UNCHANGED cluster_answer,
           \/ /\ K!job[i] = "none" /\ UNCHANGED cluster_since
              /\ K!job'[i] \in {"live", "succeeded", "failed", "killed"}
           \/ /\ K!job[i] = "live" /\ K!job'[i] \in {"succeeded", "failed", "killed"}
              /\ cluster_since' = K!Without(i)
           \/ /\ K!job'[i] = K!job[i] /\ UNCHANGED cluster_since
              /\ K!get_job_stats[i] # "none" => K!get_job_stats'[i] = K!get_job_stats[i]
    PROVE  ClusterContract
  <1> DEFINE e == K!job'[i]
             v == K!get_job_stats'[i]
  <1>1. K!job' = [K!job EXCEPT ![i] = e]
    BY ClusterAreFunctions, SameButOne
  <1>2. K!get_job_stats' = [K!get_job_stats EXCEPT ![i] = v]
    BY ClusterAreFunctions, SameButOne
  <1>3. v # "none" => K!C!True(e, v) /\ v \in {"succeeded", "failed"}
    BY RowsTrueNext DEF ClusterTrue
  <1>4. v \in {"none", "succeeded", "failed", "lost"}
    BY <1>3
  <1>5. K!C!Becomes(i, e)
    BY <1>1, <1>2, <1>3, <1>4 DEF K!C!Becomes
  <1>6. CASE /\ K!job[i] = "none" /\ UNCHANGED cluster_since
             /\ e \in {"live", "succeeded", "failed", "killed"}
    <2>1. K!C!Start(i)
      BY <1>5, <1>6 DEF K!C!Start, K!C!Ended
    <2> QED
      BY <2>1 DEF ClusterContract, K!C!Next
  <1>7. CASE /\ K!job[i] = "live" /\ e \in {"succeeded", "failed", "killed"}
             /\ cluster_since' = K!Without(i)
    <2>1. K!C!End(i)
      BY <1>5, <1>7 DEF K!C!End, K!C!Ended, K!C!Without, K!Without, K!One, K!C!NotReading,
                        K!NotReading
    <2> QED
      BY <2>1 DEF ClusterContract, K!C!Next
  <1>8. CASE /\ e = K!job[i] /\ UNCHANGED cluster_since
             /\ K!get_job_stats[i] # "none" => v = K!get_job_stats[i]
    <2>1. K!job' = K!job
      BY <1>8, ClusterAreFunctions, SameFunction
    <2>2. \A k \in ClusterTasks : K!get_job_stats'[k] # K!get_job_stats[k] =>
             K!get_job_stats[k] = "none" /\ K!C!True(K!job[k], K!get_job_stats'[k])
      <3> SUFFICES ASSUME NEW k \in ClusterTasks,
                          K!get_job_stats'[k] # K!get_job_stats[k]
                   PROVE  K!get_job_stats[k] = "none" /\ K!C!True(K!job[k], K!get_job_stats'[k])
        OBVIOUS
      <3>1. k = i
        OBVIOUS
      <3> QED
        BY <1>3, <1>8, <3>1
    <2>3. K!get_job_stats' \in [ClusterTasks -> {"none", "succeeded", "failed", "lost"}]
      <3>1. \A k \in ClusterTasks : K!get_job_stats'[k] \in {"none", "succeeded", "failed", "lost"}
        BY RowsTrueNext DEF ClusterTrue
      <3> QED
        BY <3>1, ClusterAreFunctions
    <2>4. K!C!Judge
      BY <1>8, <2>1, <2>2, <2>3 DEF K!C!Judge
    <2> QED
      BY <2>4 DEF ClusterContract, K!C!Next
  <1> QED
    BY <1>6, <1>7, <1>8

(* What is true of a job depends on its own state alone.                    *)
LEMMA ClusterSame ==
    ASSUME NEW k \in ClusterTasks, kind' = kind, cluster_sub'[k] = cluster_sub[k],
           phase'[k] = phase[k], ending'[k] = ending[k], rows'[k] = rows[k]
    PROVE  /\ K!job'[k] = K!job[k] /\ K!get_job_stats'[k] = K!get_job_stats[k]
           /\ RowsBehind(k) => RowsBehind(k)'
  <1>1. K!job'[k] = K!job[k]
    BY DEF K!job
  <1>2. K!State(k)' = K!State(k)
    BY DEF K!State, K!sacct_state, K!StepRow, K!MainRow, K!_determine_terminal_state
  <1>3. K!get_job_stats'[k] = K!get_job_stats[k]
    BY <1>2 DEF K!get_job_stats
  <1>4. RowsBehind(k) => RowsBehind(k)'
    BY DEF RowsBehind, K!Endings, K!Kills
  <1> QED
    BY <1>1, <1>3, <1>4

(* A step of one job keeps the invariant.                                   *)
LEMMA ClusterMoves ==
    ASSUME ClusterInv, NEW i \in ClusterTasks, UNCHANGED <<kind, cluster_at>>,
           ClusterTyped', RowsBehind(i)',
           \A k \in ClusterTasks : k # i =>
                /\ cluster_sub'[k] = cluster_sub[k] /\ phase'[k] = phase[k]
                /\ ending'[k] = ending[k] /\ rows'[k] = rows[k],
           \/ cluster_since' = cluster_since /\ (K!job[i] = "live" => K!job'[i] = "live")
           \/ cluster_since' = K!Without(i)
    PROVE  /\ ClusterInv'
           /\ \A k \in ClusterTasks : k # i =>
                K!job'[k] = K!job[k] /\ K!get_job_stats'[k] = K!get_job_stats[k]
  <1>1. \A k \in ClusterTasks : k # i =>
           /\ K!job'[k] = K!job[k] /\ K!get_job_stats'[k] = K!get_job_stats[k]
           /\ RowsBehind(k) => RowsBehind(k)'
    BY ClusterSame
  <1>2. \A k \in ClusterTasks : RowsBehind(k)'
    BY <1>1 DEF ClusterInv
  <1>3. ClusterReads'
    <2>1. CASE cluster_at
      <3>1. cluster_since # K!NotReading
        BY <2>1, TasksAssumption DEF ClusterInv, ClusterReads, K!NotReading
      <3> QED
        BY <1>1, <2>1, <3>1 DEF ClusterInv, ClusterReads, K!Without
    <2>2. CASE ~cluster_at
      BY <2>2 DEF ClusterInv, ClusterReads, K!Without
    <2> QED
      BY <2>1, <2>2
  <1> QED
    BY <1>1, <1>2, <1>3 DEF ClusterInv

(* Every step keeps the invariant and is one of the contract or a stutter:  *)
(* one step per action.                                                     *)
LEMMA ClusterStep == ClusterInv /\ K!Next => ClusterInv' /\ ClusterContract
  <1> SUFFICES ASSUME ClusterInv, K!Next PROVE ClusterInv' /\ ClusterContract
    OBVIOUS
  <1>0. ClusterTyped /\ \A i \in ClusterTasks : RowsBehind(i)
    BY DEF ClusterInv
  <1>1. ASSUME NEW i \in ClusterTasks, K!Starts(i) PROVE ClusterInv' /\ ClusterContract
    <2>1. /\ UNCHANGED <<kind, cluster_at, cluster_sub, ending, rows, cluster_since, cluster_answer>>
          /\ phase[i] = "queued" /\ phase' = [phase EXCEPT ![i] = "running"]
      BY <1>1 DEF K!Starts, K!Scheduler
    <2>2. ClusterTyped' /\ phase'[i] = "running"
      BY <1>0, <2>1 DEF ClusterTyped
    <2>3. RowsBehind(i)'
      BY <1>0, <2>1, <2>2 DEF RowsBehind
    <2>4. K!job'[i] = K!job[i]
      BY <2>1, <2>2 DEF K!job
    <2>5. rows[i] \in {"none", "open"}
      BY <1>0, <2>1 DEF RowsBehind, ClusterTyped
    <2>6. K!get_job_stats[i] = "none" /\ K!get_job_stats'[i] = "none"
      BY <1>0, <2>1, <2>2, <2>5, NoRowYet, NoRowYetNext DEF NothingYet
    <2> QED
      BY <1>0, <2>1, <2>2, <2>3, <2>4, <2>6, ClusterMoves, ClusterHidden DEF ClusterTyped
  <1>2. ASSUME NEW i \in ClusterTasks, K!Overruns(i) PROVE FALSE
    BY <1>2 DEF K!Overruns
  <1>3. ASSUME NEW i \in ClusterTasks, K!Ends(i) \/ K!cancel_job(i)
        PROVE ClusterInv' /\ ClusterContract
    <2>1. /\ UNCHANGED <<kind, cluster_at, cluster_sub, rows, cluster_answer>>
          /\ phase[i] \in {"queued", "running"} /\ phase' = [phase EXCEPT ![i] = "ended"]
          /\ cluster_since' = K!Without(i)
      BY <1>0, <1>3 DEF K!Ends, K!cancel_job, K!EndsWith, K!Scheduler, ClusterTyped
    <2>2. PICK e \in K!Endings \cup K!Kills : ending' = [ending EXCEPT ![i] = e]
      BY <1>3 DEF K!Ends, K!cancel_job, K!EndsWith
    <2>3. ClusterTyped' /\ phase'[i] = "ended" /\ ending'[i] = e
      BY <1>0, <2>1, <2>2 DEF ClusterTyped
    <2>4. RowsBehind(i)'
      BY <1>0, <2>1, <2>2, <2>3 DEF RowsBehind, K!Endings, K!Kills
    <2>5. /\ ClusterInv'
          /\ \A k \in ClusterTasks : k # i =>
               K!job'[k] = K!job[k] /\ K!get_job_stats'[k] = K!get_job_stats[k]
      BY <1>0, <2>1, <2>2, <2>3, <2>4, ClusterMoves DEF ClusterTyped
    <2>6. rows[i] \in {"none", "open"}
      BY <1>0, <2>1 DEF RowsBehind, ClusterTyped
    <2>7. K!get_job_stats[i] = "none" /\ K!get_job_stats'[i] = "none"
      BY <1>0, <2>1, <2>3, <2>6, NoRowYet, NoRowYetNext DEF NothingYet
    <2>8. CASE cluster_sub[i] = "answered"
      <3>1. K!job[i] = "live" /\ K!job'[i] = e.truth
        BY <2>1, <2>3, <2>8 DEF K!job
      <3>2. e.truth \in {"succeeded", "failed", "killed"}
        BY <2>2 DEF K!Endings, K!Kills, K!SlurmEndings, K!SlurmKills, K!Slurm, K!PbsEndings,
                    K!PbsKills, K!Pbs
      <3> QED
        BY <2>1, <2>5, <3>1, <3>2, ClusterChanges
    <2>9. CASE cluster_sub[i] # "answered"
      <3>1. K!job[i] = "none" /\ K!job'[i] = "none"
        BY <2>1, <2>9 DEF K!job
      <3>2. cluster_since' = cluster_since
        BY <2>1, <3>1 DEF ClusterInv, ClusterReads, K!Without
      <3> QED
        BY <2>1, <2>5, <2>7, <3>1, <3>2, ClusterHidden
    <2> QED
      BY <2>8, <2>9
  <1>4. ASSUME NEW i \in ClusterTasks, K!Opens(i) PROVE ClusterInv' /\ ClusterContract
    <2>1. /\ UNCHANGED <<kind, cluster_at, cluster_sub, phase, ending, cluster_since, cluster_answer>>
          /\ rows[i] = "none" /\ phase[i] # "none" /\ rows' = [rows EXCEPT ![i] = "open"]
      BY <1>4 DEF K!Opens, K!Scheduler
    <2>2. ClusterTyped' /\ rows'[i] = "open"
      BY <1>0, <2>1 DEF ClusterTyped
    <2>3. RowsBehind(i)'
      BY <1>0, <2>1, <2>2 DEF RowsBehind, K!Endings, K!Kills
    <2>4. K!job'[i] = K!job[i]
      BY <2>1, <2>2 DEF K!job
    <2>6. K!get_job_stats[i] = "none" /\ K!get_job_stats'[i] = "none"
      BY <1>0, <2>1, <2>2, NoRowYet, NoRowYetNext DEF NothingYet
    <2> QED
      BY <1>0, <2>1, <2>2, <2>3, <2>4, <2>6, ClusterMoves, ClusterHidden DEF ClusterTyped
  <1>5. ASSUME NEW i \in ClusterTasks, K!Closes(i) PROVE ClusterInv' /\ ClusterContract
    <2> DEFINE to == IF rows[i] = "open" /\ kind = "slurm" THEN "step" ELSE "closed"
    <2>1. /\ UNCHANGED <<kind, cluster_at, cluster_sub, phase, ending, cluster_since, cluster_answer>>
          /\ rows[i] \in {"open", "step"} /\ phase[i] = "ended" /\ rows' = [rows EXCEPT ![i] = to]
      BY <1>5 DEF K!Closes, K!Scheduler
    <2>2. ClusterTyped' /\ rows'[i] = to
      BY <1>0, <2>1 DEF ClusterTyped
    <2>3. RowsBehind(i)'
      BY <1>0, <2>1, <2>2 DEF RowsBehind, K!Endings, K!Kills
    <2>4. K!job'[i] = K!job[i]
      BY <2>1, <2>2 DEF K!job
    <2>5. /\ ClusterInv'
          /\ \A k \in ClusterTasks : k # i =>
               K!job'[k] = K!job[k] /\ K!get_job_stats'[k] = K!get_job_stats[k]
      BY <1>0, <2>1, <2>2, <2>3, <2>4, ClusterMoves DEF ClusterTyped
    <2>6. K!get_job_stats[i] # "none" => K!get_job_stats'[i] = K!get_job_stats[i]
      <3> SUFFICES ASSUME K!get_job_stats[i] # "none"
                   PROVE  K!get_job_stats'[i] = K!get_job_stats[i]
        OBVIOUS
      <3>1. cluster_sub[i] = "answered" /\ rows[i] = "step" /\ rows'[i] = "closed"
        BY <1>0, <2>1, <2>2, NoRowYet DEF NothingYet
      <3>2. ending[i] \in K!Endings \cup K!Kills
        BY <1>0, <2>1 DEF RowsBehind
      <3>3. kind = "slurm" /\ StepFailed(i) /\ K!get_job_stats[i] = "failed"
        BY <1>0, <2>1, <3>1, <3>2, RowsAgree DEF RowsSay, Agrees
      <3>4. ending'[i] \in K!Endings' \cup K!Kills' /\ StepFailed(i)'
        BY <2>1, <3>2, <3>3 DEF K!Endings, K!Kills, StepFailed
      <3> QED
        BY <2>1, <2>2, <3>1, <3>3, <3>4, RowsAgreeNext DEF RowsSay, Agrees
    <2> QED
      BY <2>1, <2>4, <2>5, <2>6, ClusterChanges
  <1>6. ASSUME NEW i \in ClusterTasks,
               K!submit_task(i) \/ K!Accepted(i) \/ K!Fails(i) \/ K!_verify_job_accepted(i)
        PROVE ClusterInv' /\ ClusterContract
    <2>1. UNCHANGED <<kind, cluster_at, ending, rows, cluster_since, cluster_answer>>
      BY <1>6 DEF K!submit_task, K!Accepted, K!Fails, K!_verify_job_accepted, K!Submission,
                  K!reading
    <2>2. PICK to \in {"submit", "queue", "accounting", "answered", "refused"} :
             cluster_sub' = [cluster_sub EXCEPT ![i] = to]
      BY <1>6 DEF K!submit_task, K!Accepted, K!Fails, K!_verify_job_accepted, K!Submission
    <2>3. PICK ph \in {"none", "queued", phase[i]} : phase' = [phase EXCEPT ![i] = ph]
      <3>1. CASE UNCHANGED phase
        <4>1. phase' = [phase EXCEPT ![i] = phase[i]]
          BY <1>0, <3>1 DEF ClusterTyped
        <4> QED
          BY <4>1
      <3> QED
        BY <1>6, <3>1 DEF K!submit_task, K!Accepted, K!Fails, K!_verify_job_accepted
    <2>4. /\ cluster_sub[i] \in {"none", "submit", "queue", "accounting"}
          /\ phase'[i] # phase[i] => cluster_sub[i] = "submit"
          /\ to \in {"queue", "answered", "accounting"} => phase'[i] # "none"
          /\ to = "submit" => phase'[i] = "none"
      BY <1>0, <1>6, <2>2, <2>3
         DEF K!submit_task, K!Accepted, K!Fails, K!_verify_job_accepted, K!Submission,
             ClusterTyped, RowsBehind
    <2>5. ClusterTyped' /\ cluster_sub'[i] = to /\ phase'[i] = ph
      BY <1>0, <2>1, <2>2, <2>3 DEF ClusterTyped
    <2>6. RowsBehind(i)'
      BY <1>0, <2>1, <2>3, <2>4, <2>5 DEF RowsBehind, K!Endings, K!Kills
    <2>7. K!job[i] = "none"
      BY <2>4 DEF K!job
    <2>8. /\ ClusterInv'
          /\ \A k \in ClusterTasks : k # i =>
               K!job'[k] = K!job[k] /\ K!get_job_stats'[k] = K!get_job_stats[k]
      BY <1>0, <2>1, <2>2, <2>3, <2>5, <2>6, <2>7, ClusterMoves DEF ClusterTyped
    <2>9. CASE to # "answered"
      <3>1. K!job'[i] = "none"
        BY <2>5, <2>9 DEF K!job
      <3>2. K!get_job_stats[i] = "none" /\ K!get_job_stats'[i] = "none"
        BY <1>0, <2>4, <2>5, <2>9, NoRowYet, NoRowYetNext DEF NothingYet
      <3> QED
        BY <2>1, <2>7, <2>8, <3>1, <3>2, ClusterHidden
    <2>10. CASE to = "answered"
      <3>1. K!job'[i] \in {"live", "succeeded", "failed", "killed"}
        <4>1. CASE phase'[i] # "ended"
          BY <2>5, <2>10, <4>1 DEF K!job
        <4>2. CASE phase'[i] = "ended"
          <5>1. K!job'[i] = ending'[i].truth
            BY <2>5, <2>10, <4>2 DEF K!job
          <5>2. ending'[i] \in K!Endings' \cup K!Kills'
            BY <2>6, <4>2 DEF RowsBehind
          <5> QED
            BY <2>5, <4>2, <5>1, <5>2, RowsAgreeNext DEF RowsSay, Agrees
        <4> QED
          BY <4>1, <4>2
      <3> QED
        BY <2>1, <2>7, <2>8, <3>1, ClusterChanges
    <2> QED
      BY <2>9, <2>10
  <1>7. CASE K!get_jobs
    <2>1. /\ UNCHANGED <<kind, cluster_sub, phase, ending, rows>> /\ cluster_at' = TRUE
          /\ ~cluster_at /\ cluster_answer' = K!Nothing
          /\ cluster_since' = {i \in ClusterTasks : K!job[i] = "live"}
      BY <1>7 DEF K!get_jobs, K!scheduler
    <2>2. K!job' = K!job /\ K!get_job_stats' = K!get_job_stats
      BY <2>1, ClusterSame, ClusterAreFunctions, SameFunction
    <2>3. ClusterInv'
      <3>1. \A i \in ClusterTasks : RowsBehind(i)'
        BY <1>0, <2>1, ClusterSame
      <3>2. ClusterTyped'
        BY <1>0, <2>1 DEF ClusterTyped
      <3> QED
        BY <2>1, <2>2, <3>1, <3>2 DEF ClusterInv, ClusterReads
    <2>4. cluster_since = K!NotReading
      BY <2>1 DEF ClusterInv, ClusterReads
    <2>5. K!C!Call("poll")
      BY <2>1, <2>2, <2>4 DEF K!C!Call, K!One, K!C!Live, K!C!NotReading, K!NotReading,
                              K!C!Nothing, K!Nothing
    <2> QED
      BY <2>3, <2>5 DEF ClusterContract, K!C!Next, K!One
  <1>8. CASE K!QueueAnswers
    <2>1. /\ UNCHANGED <<kind, cluster_sub, phase, ending, rows>> /\ cluster_at' = FALSE
          /\ cluster_at /\ cluster_answer' = K!InQueue /\ cluster_since' = K!NotReading
      BY <1>8 DEF K!QueueAnswers, K!scheduler
    <2>2. K!job' = K!job /\ K!get_job_stats' = K!get_job_stats
      BY <2>1, ClusterSame, ClusterAreFunctions, SameFunction
    <2>3. ClusterInv'
      <3>1. \A i \in ClusterTasks : RowsBehind(i)'
        BY <1>0, <2>1, ClusterSame
      <3>2. ClusterTyped'
        BY <1>0, <2>1 DEF ClusterTyped
      <3> QED
        BY <2>1, <3>1, <3>2 DEF ClusterInv, ClusterReads
    <2>4. cluster_since \subseteq {i \in ClusterTasks : K!job[i] = "live"}
      BY <2>1 DEF ClusterInv, ClusterReads
    <2>5. cluster_since \subseteq K!InQueue
      <3> SUFFICES ASSUME NEW i \in ClusterTasks, K!job[i] = "live" PROVE i \in K!InQueue
        BY <2>4
      <3>1. cluster_sub[i] = "answered"
        BY DEF K!job
      <3>2. phase[i] # "ended"
        <4> SUFFICES ASSUME phase[i] = "ended" PROVE FALSE
          OBVIOUS
        <4>1. ending[i] \in K!Endings \cup K!Kills /\ K!job[i] = ending[i].truth
          BY <1>0, <3>1, ClusterJob DEF RowsBehind
        <4> QED
          BY <1>0, <4>1, RowsAgree DEF RowsSay, Agrees
      <3> QED
        BY <1>0, <3>1, <3>2 DEF K!InQueue, ClusterTyped, RowsBehind
    <2>6. cluster_since # K!NotReading
      BY <2>4, TasksAssumption DEF K!NotReading
    <2>7. K!C!Return("poll")
      <3>1. K!InQueue \in SUBSET ClusterTasks
        BY DEF K!InQueue
      <3> QED
        BY <2>1, <2>2, <2>5, <2>6, <3>1 DEF K!C!Return, K!One, K!C!NotReading, K!NotReading
    <2> QED
      BY <2>3, <2>7 DEF ClusterContract, K!C!Next, K!One
  <1>9. CASE K!Crash
    <2>1. /\ UNCHANGED <<kind, phase, ending, rows>> /\ cluster_at' = FALSE
          /\ cluster_since' = K!NotReading /\ cluster_answer' = K!Nothing
          /\ cluster_sub' = [i \in ClusterTasks |->
                 IF cluster_sub[i] \in {"submit", "queue", "accounting"} THEN "lost"
                 ELSE cluster_sub[i]]
      BY <1>9 DEF K!Crash, K!scheduler
    <2>2. \A i \in ClusterTasks : K!job'[i] = K!job[i]
      BY <2>1 DEF K!job
    <2>3. ClusterTyped'
      BY <1>0, <2>1 DEF ClusterTyped
    <2>4. \A i \in ClusterTasks : K!get_job_stats'[i] = K!get_job_stats[i]
      <3> SUFFICES ASSUME NEW i \in ClusterTasks
                   PROVE  K!get_job_stats'[i] = K!get_job_stats[i]
        OBVIOUS
      <3>1. CASE cluster_sub[i] \in {"submit", "queue", "accounting"}
        BY <1>0, <2>1, <2>3, <3>1, NoRowYet, NoRowYetNext DEF NothingYet
      <3>2. CASE cluster_sub[i] \notin {"submit", "queue", "accounting"}
        BY <2>1, <3>2, ClusterSame
      <3> QED
        BY <3>1, <3>2
    <2>5. \A i \in ClusterTasks : RowsBehind(i)'
      BY <1>0, <2>1 DEF RowsBehind, K!Endings, K!Kills
    <2>6. ClusterInv'
      BY <2>1, <2>3, <2>5 DEF ClusterInv, ClusterReads
    <2>7. K!job' = K!job /\ K!get_job_stats' = K!get_job_stats
      BY <2>2, <2>4, ClusterAreFunctions, SameFunction
    <2>8. \E S \in SUBSET ClusterTasks : K!get_job_stats' =
             [j \in ClusterTasks |-> IF j \in S THEN "none" ELSE K!get_job_stats[j]]
      <3> WITNESS {} \in SUBSET ClusterTasks
      <3> QED
        BY <2>7, ClusterAreFunctions
    <2>9. K!C!Restart
      BY <2>1, <2>7, <2>8 DEF K!C!Restart, K!One, K!C!NotReading, K!NotReading,
                              K!C!Nothing, K!Nothing
    <2> QED
      BY <2>6, <2>9 DEF ClusterContract, K!C!Next
  <1> QED
    BY <1>1, <1>2, <1>3, <1>4, <1>5, <1>6, <1>7, <1>8, <1>9 DEF K!Next

LEMMA ClusterBegin == K!Init => ClusterInv /\ K!C!Init
  <1> SUFFICES ASSUME K!Init PROVE ClusterInv /\ K!C!Init
    OBVIOUS
  <1>1. ClusterInv
    BY ClusterAssumption
       DEF K!Init, ClusterInv, ClusterTyped, RowsBehind, ClusterReads
  <1>2. K!job = [i \in ClusterTasks |-> "none"] /\ K!get_job_stats = [i \in ClusterTasks |-> "none"]
    BY DEF K!Init, K!job, K!get_job_stats
  <1> QED
    BY <1>1, <1>2 DEF K!Init, K!C!Init, K!One, K!C!NotReading, K!NotReading, K!C!Nothing, K!Nothing

-----------------------------------------------------------------------------
(* The local backend. What the files say follows the processes; a pid is in *)
(* use by one of them; get_jobs looks at the record before it looks at the  *)
(* pid, so that a job which lives all the time is not passed over.          *)

LocalTyped ==
    /\ proc \in [LocalTasks -> {"none", "script", "record", "gone"}]
    /\ pid \in [LocalTasks -> Pids \cup {0}]
    /\ meta \in [LocalTasks -> Pids \cup {0}]
    /\ local_exit \in [LocalTasks -> {"none", "0", "1"}]
    /\ rc \in [LocalTasks -> {"none", "0", "1"}]
    /\ launch \in [LocalTasks -> {"none", "spawned", "answered", "lost"}]
    /\ look \in [LocalTasks -> {"idle", "record", "pid", "listed", "passed"}]

(* The files follow the process.                                            *)
FilesBehind(i) ==
    /\ proc[i] \in {"none", "script"} => local_exit[i] = "none"
    /\ proc[i] = "record" => local_exit[i] # "none"
    /\ proc[i] # "gone" => rc[i] = "none"
    /\ rc[i] # "none" => rc[i] = local_exit[i]
    /\ launch[i] = "none" => proc[i] = "none"
    /\ launch[i] # "answered" => meta[i] = 0
    /\ launch[i] \in {"spawned", "answered"} => pid[i] # 0 /\ proc[i] # "none"
    /\ launch[i] = "answered" => meta[i] = pid[i]

OwnPids ==
    \A i, k \in LocalTasks : L!Running(i) /\ L!Running(k) /\ pid[i] = pid[k] => i = k

LocalReads ==
    /\ local_since = L!NotReading => \A i \in LocalTasks : look[i] = "idle"
    /\ local_since # L!NotReading =>
          local_since \subseteq
              {i \in LocalTasks : L!job[i] = "live" /\ look[i] \in {"record", "pid", "listed"}}

LocalInv ==
    /\ LocalTyped /\ (\A i \in LocalTasks : FilesBehind(i)) /\ OwnPids
    /\ LocalReads

LocalContract == L!C!Next \/ UNCHANGED L!C!vars

LEMMA LocalAreFunctions ==
    /\ L!job = [i \in LocalTasks |-> L!job[i]]
    /\ L!job' = [i \in LocalTasks |-> L!job'[i]]
    /\ L!get_job_stats = [i \in LocalTasks |-> L!get_job_stats[i]]
    /\ L!get_job_stats' = [i \in LocalTasks |-> L!get_job_stats'[i]]
  BY DEF L!job, L!get_job_stats

(* The truth about a job and the verdict on it, which is true.              *)
LocalKnown ==
    \A i \in LocalTasks :
        /\ meta[i] = 0 => L!job[i] = "none" /\ L!get_job_stats[i] = "none"
        /\ meta[i] # 0 /\ proc[i] \in {"none", "script"} => L!job[i] = "live"
        /\ meta[i] # 0 /\ local_exit[i] # "none" =>
              L!job[i] = IF local_exit[i] = "0" THEN "succeeded" ELSE "failed"
        /\ meta[i] # 0 /\ local_exit[i] = "none" /\ proc[i] = "gone" => L!job[i] = "killed"
        /\ meta[i] # 0 => L!get_job_stats[i] =
              IF rc[i] = "none" THEN "none" ELSE IF rc[i] = "0" THEN "succeeded" ELSE "failed"
        /\ L!get_job_stats[i] # "none" =>
              /\ L!C!True(L!job[i], L!get_job_stats[i])
              /\ L!get_job_stats[i] \in {"succeeded", "failed"}
        /\ L!job[i] = "live" => meta[i] # 0 /\ proc[i] = "script" /\ rc[i] = "none"

LEMMA LocalTruth == LocalTyped /\ (\A i \in LocalTasks : FilesBehind(i)) => LocalKnown
  <1> SUFFICES ASSUME LocalTyped, NEW i \in LocalTasks, FilesBehind(i)
               PROVE  /\ meta[i] = 0 => L!job[i] = "none" /\ L!get_job_stats[i] = "none"
                      /\ meta[i] # 0 /\ proc[i] \in {"none", "script"} => L!job[i] = "live"
                      /\ meta[i] # 0 /\ local_exit[i] # "none" =>
                            L!job[i] = IF local_exit[i] = "0" THEN "succeeded" ELSE "failed"
                      /\ meta[i] # 0 /\ local_exit[i] = "none" /\ proc[i] = "gone" =>
                            L!job[i] = "killed"
                      /\ meta[i] # 0 => L!get_job_stats[i] =
                            IF rc[i] = "none" THEN "none"
                            ELSE IF rc[i] = "0" THEN "succeeded" ELSE "failed"
                      /\ L!get_job_stats[i] # "none" =>
                            /\ L!C!True(L!job[i], L!get_job_stats[i])
                            /\ L!get_job_stats[i] \in {"succeeded", "failed"}
                      /\ L!job[i] = "live" => meta[i] # 0 /\ proc[i] = "script" /\ rc[i] = "none"
    BY DEF LocalKnown
  <1>1. /\ local_exit[i] \in {"none", "0", "1"} /\ rc[i] \in {"none", "0", "1"}
        /\ proc[i] \in {"none", "script", "record", "gone"}
        /\ launch[i] \in {"none", "spawned", "answered", "lost"}
    BY DEF LocalTyped
  <1>2. /\ meta[i] = 0 => L!job[i] = "none" /\ L!get_job_stats[i] = "none"
        /\ meta[i] # 0 => L!get_job_stats[i] =
              IF rc[i] = "none" THEN "none" ELSE IF rc[i] = "0" THEN "succeeded" ELSE "failed"
    BY <1>1 DEF L!job, L!get_job_stats, L!NoPid
  <1>3. meta[i] # 0 => L!job[i] =
              IF local_exit[i] = "0" THEN "succeeded" ELSE IF local_exit[i] = "1" THEN "failed"
              ELSE IF proc[i] = "gone" THEN "killed" ELSE "live"
    BY <1>1 DEF L!job, L!NoPid
  <1> QED
    BY <1>1, <1>2, <1>3 DEF FilesBehind, L!C!True, L!C!Ended

LEMMA LocalTruthNext ==
    LocalTyped' /\ (\A i \in LocalTasks : FilesBehind(i)) ' => LocalKnown'
  BY LocalTruth, PTL

(* A step that a poller does not notice.                                    *)
LEMMA LocalHidden ==
    ASSUME UNCHANGED <<local_since, local_answer>>,
           \A i \in LocalTasks : L!job'[i] = L!job[i] /\ L!get_job_stats'[i] = L!get_job_stats[i]
    PROVE  LocalContract
  <1>1. L!job' = L!job
    BY LocalAreFunctions, SameFunction
  <1>2. L!get_job_stats' = L!get_job_stats
    BY LocalAreFunctions, SameFunction
  <1> QED
    BY <1>1, <1>2 DEF LocalContract, L!C!vars

(* A step that changes the truth about one job, or the verdict on it.       *)
LEMMA LocalChanges ==
    ASSUME LocalKnown', NEW i \in LocalTasks,
           \A k \in LocalTasks : k # i =>
                L!job'[k] = L!job[k] /\ L!get_job_stats'[k] = L!get_job_stats[k],
           UNCHANGED local_answer,
           \/ /\ L!job[i] = "none" /\ UNCHANGED local_since
              /\ L!job'[i] \in {"live", "succeeded", "failed", "killed"}
           \/ /\ L!job[i] = "live" /\ L!job'[i] \in {"succeeded", "failed", "killed"}
              /\ local_since' = L!Without({i})
           \/ /\ L!job'[i] = L!job[i] /\ UNCHANGED local_since
              /\ L!get_job_stats[i] # "none" => L!get_job_stats'[i] = L!get_job_stats[i]
    PROVE  LocalContract
  <1> DEFINE e == L!job'[i]
             v == L!get_job_stats'[i]
  <1>1. L!job' = [L!job EXCEPT ![i] = e]
    BY LocalAreFunctions, SameButOne
  <1>2. L!get_job_stats' = [L!get_job_stats EXCEPT ![i] = v]
    BY LocalAreFunctions, SameButOne
  <1>3. v # "none" => L!C!True(e, v) /\ v \in {"succeeded", "failed"}
    BY DEF LocalKnown
  <1>4. v \in {"none", "succeeded", "failed", "lost"}
    BY <1>3
  <1>5. L!C!Becomes(i, e)
    BY <1>1, <1>2, <1>3, <1>4 DEF L!C!Becomes
  <1>6. CASE /\ L!job[i] = "none" /\ UNCHANGED local_since
             /\ e \in {"live", "succeeded", "failed", "killed"}
    <2>1. L!C!Start(i)
      BY <1>5, <1>6 DEF L!C!Start, L!C!Ended
    <2> QED
      BY <2>1 DEF LocalContract, L!C!Next
  <1>7. CASE /\ L!job[i] = "live" /\ e \in {"succeeded", "failed", "killed"}
             /\ local_since' = L!Without({i})
    <2>1. L!C!End(i)
      BY <1>5, <1>7 DEF L!C!End, L!C!Ended, L!C!Without, L!Without, L!One, L!C!NotReading,
                        L!NotReading
    <2> QED
      BY <2>1 DEF LocalContract, L!C!Next
  <1>8. CASE /\ e = L!job[i] /\ UNCHANGED local_since
             /\ L!get_job_stats[i] # "none" => v = L!get_job_stats[i]
    <2>1. L!job' = L!job
      BY <1>8, LocalAreFunctions, SameFunction
    <2>2. \A k \in LocalTasks : L!get_job_stats'[k] # L!get_job_stats[k] =>
             L!get_job_stats[k] = "none" /\ L!C!True(L!job[k], L!get_job_stats'[k])
      <3> SUFFICES ASSUME NEW k \in LocalTasks,
                          L!get_job_stats'[k] # L!get_job_stats[k]
                   PROVE  L!get_job_stats[k] = "none" /\ L!C!True(L!job[k], L!get_job_stats'[k])
        OBVIOUS
      <3>1. k = i
        OBVIOUS
      <3> QED
        BY <1>3, <1>8, <3>1
    <2>3. L!get_job_stats' \in [LocalTasks -> {"none", "succeeded", "failed", "lost"}]
      <3>1. \A k \in LocalTasks : L!get_job_stats'[k] \in {"none", "succeeded", "failed", "lost"}
        BY DEF LocalKnown
      <3> QED
        BY <3>1, LocalAreFunctions
    <2>4. L!C!Judge
      BY <1>8, <2>1, <2>2, <2>3 DEF L!C!Judge
    <2> QED
      BY <2>4 DEF LocalContract, L!C!Next
  <1> QED
    BY <1>6, <1>7, <1>8

(* What is true of a job depends on its own state alone.                    *)
LEMMA LocalSame ==
    ASSUME NEW k \in LocalTasks, proc'[k] = proc[k], meta'[k] = meta[k],
           local_exit'[k] = local_exit[k], rc'[k] = rc[k]
    PROVE  L!job'[k] = L!job[k] /\ L!get_job_stats'[k] = L!get_job_stats[k]
  BY DEF L!job, L!get_job_stats

(* A step of one job keeps the invariant.                                   *)
LEMMA LocalMoves ==
    ASSUME LocalInv, NEW i \in LocalTasks, LocalTyped', FilesBehind(i)', OwnPids',
           look' = look,
           \A k \in LocalTasks : k # i =>
                /\ proc'[k] = proc[k] /\ pid'[k] = pid[k] /\ meta'[k] = meta[k]
                /\ local_exit'[k] = local_exit[k] /\ rc'[k] = rc[k] /\ launch'[k] = launch[k],
           \/ local_since' = local_since /\ (L!job[i] = "live" => L!job'[i] = "live")
           \/ local_since' = L!Without({i})
    PROVE  /\ LocalInv' /\ LocalKnown'
           /\ \A k \in LocalTasks : k # i =>
                L!job'[k] = L!job[k] /\ L!get_job_stats'[k] = L!get_job_stats[k]
  <1>1. \A k \in LocalTasks : k # i =>
           L!job'[k] = L!job[k] /\ L!get_job_stats'[k] = L!get_job_stats[k]
    BY LocalSame
  <1>2. \A k \in LocalTasks : FilesBehind(k)'
    BY DEF LocalInv, FilesBehind
  <1>3. LocalReads'
    <2>1. CASE local_since = L!NotReading
      BY <2>1 DEF LocalInv, LocalReads, L!Without
    <2>2. CASE local_since # L!NotReading
      <3>1. local_since' # L!NotReading /\ local_since' \subseteq local_since
        <4>1. "not reading" \notin local_since
          BY <2>2, TasksAssumption DEF LocalInv, LocalReads
        <4> QED
          BY <2>2, <4>1 DEF L!Without, L!NotReading
      <3>2. i \in local_since' => L!job'[i] = "live"
        BY <2>2 DEF LocalInv, LocalReads, L!Without
      <3> QED
        BY <1>1, <2>2, <3>1, <3>2 DEF LocalInv, LocalReads
    <2> QED
      BY <2>1, <2>2
  <1>4. LocalKnown'
    BY <1>2, LocalTruthNext
  <1> QED
    BY <1>1, <1>2, <1>3, <1>4 DEF LocalInv

(* A running process ends and takes its job with it.                        *)
LEMMA LocalKill ==
    ASSUME LocalInv, NEW i \in LocalTasks, L!Running(i), L!Kill({i}),
           UNCHANGED <<pid, local_exit, launch, meta, rc, look, local_answer>>
    PROVE  LocalInv' /\ LocalContract
  <1>0. LocalTyped /\ (\A k \in LocalTasks : FilesBehind(k)) /\ OwnPids /\ LocalKnown
    BY LocalTruth DEF LocalInv
  <1>1. /\ proc'[i] = "gone" /\ \A k \in LocalTasks : k # i => proc'[k] = proc[k]
        /\ local_since' = L!Without({i})
    BY DEF L!Kill
  <1>2. LocalTyped'
    BY <1>0 DEF L!Kill, LocalTyped
  <1>3. FilesBehind(i)' /\ OwnPids'
    BY <1>0, <1>1 DEF FilesBehind, OwnPids, L!Running
  <1>4. /\ LocalInv' /\ LocalKnown'
        /\ \A k \in LocalTasks : k # i =>
              L!job'[k] = L!job[k] /\ L!get_job_stats'[k] = L!get_job_stats[k]
    BY <1>1, <1>2, <1>3, LocalMoves
  <1>5. L!get_job_stats'[i] = L!get_job_stats[i]
    BY <1>0, <1>4 DEF LocalKnown
  <1>6. CASE meta[i] # 0 /\ proc[i] = "script"
    <2>1. L!job[i] = "live" /\ local_exit[i] = "none"
      BY <1>0, <1>6 DEF LocalKnown, FilesBehind
    <2>2. L!job'[i] = "killed"
      BY <1>1, <1>4, <1>6, <2>1 DEF LocalKnown
    <2> QED
      BY <1>1, <1>4, <2>1, <2>2, LocalChanges
  <1>7. CASE ~(meta[i] # 0 /\ proc[i] = "script")
    <2>1. L!job'[i] = L!job[i]
      BY <1>0, <1>4, <1>7 DEF LocalKnown, FilesBehind, L!Running
    <2>2. L!job[i] # "live"
      BY <1>0, <1>7 DEF LocalKnown
    <2>3. local_since' = local_since
      BY <1>1, <2>2 DEF L!Without, LocalInv, LocalReads
    <2> QED
      BY <1>4, <1>5, <2>1, <2>3, LocalHidden
  <1> QED
    BY <1>6, <1>7

(* A step that changes nothing but where get_jobs is, and what is true of   *)
(* no job.                                                                  *)
LEMMA LocalIdle ==
    ASSUME LocalInv, UNCHANGED <<proc, meta, local_exit, rc, local_since, local_answer>>,
           LocalTyped', \A i \in LocalTasks : FilesBehind(i)', OwnPids',
           local_since = L!NotReading => look' = look,
           \A i \in LocalTasks : local_since # L!NotReading /\ i \in local_since =>
                look'[i] \in {"record", "pid", "listed"}
    PROVE  LocalInv' /\ LocalContract
  <1>1. \A i \in LocalTasks :
           L!job'[i] = L!job[i] /\ L!get_job_stats'[i] = L!get_job_stats[i]
    BY LocalSame
  <1>2. LocalReads'
    BY <1>1 DEF LocalInv, LocalReads, L!NotReading
  <1> QED
    BY <1>1, <1>2, LocalHidden DEF LocalInv

LEMMA LocalStep == LocalInv /\ L!Next => LocalInv' /\ LocalContract
  <1> SUFFICES ASSUME LocalInv, L!Next PROVE LocalInv' /\ LocalContract
    OBVIOUS
  <1>0. LocalTyped /\ (\A i \in LocalTasks : FilesBehind(i)) /\ OwnPids /\ LocalReads /\ LocalKnown
    BY LocalTruth DEF LocalInv
  <1>1. ASSUME NEW i \in LocalTasks, L!ScriptExits(i) PROVE LocalInv' /\ LocalContract
    <2>1. PICK code \in {"0", "1"} : local_exit' = [local_exit EXCEPT ![i] = code]
      BY <1>1 DEF L!ScriptExits
    <2>2. /\ proc[i] = "script" /\ proc' = [proc EXCEPT ![i] = "record"]
          /\ local_since' = L!Without({i})
          /\ UNCHANGED <<pid, launch, meta, rc, look, local_answer>>
      BY <1>1 DEF L!ScriptExits, L!files
    <2>3. LocalTyped' /\ proc'[i] = "record" /\ local_exit'[i] = code
      BY <1>0, <2>1, <2>2 DEF LocalTyped
    <2>4. FilesBehind(i)' /\ OwnPids'
      BY <1>0, <2>1, <2>2, <2>3 DEF FilesBehind, OwnPids, L!Running, LocalTyped
    <2>5. /\ LocalInv' /\ LocalKnown'
          /\ \A k \in LocalTasks : k # i =>
                L!job'[k] = L!job[k] /\ L!get_job_stats'[k] = L!get_job_stats[k]
      BY <1>0, <2>1, <2>2, <2>3, <2>4, LocalMoves DEF LocalTyped
    <2>6. CASE meta[i] # 0
      <3>1. L!job[i] = "live" /\ L!job'[i] \in {"succeeded", "failed"}
        BY <1>0, <2>2, <2>3, <2>5, <2>6 DEF LocalKnown
      <3> QED
        BY <2>2, <2>5, <3>1, LocalChanges
    <2>7. CASE meta[i] = 0
      <3>1. /\ L!job[i] = "none" /\ L!get_job_stats[i] = "none"
            /\ L!job'[i] = "none" /\ L!get_job_stats'[i] = "none"
        BY <1>0, <2>2, <2>5, <2>7 DEF LocalKnown
      <3>2. local_since' = local_since
        BY <1>0, <2>2, <3>1 DEF L!Without, LocalReads
      <3> QED
        BY <2>2, <2>5, <3>1, <3>2, LocalHidden
    <2> QED
      BY <2>6, <2>7
  <1>2. ASSUME NEW i \in LocalTasks, L!RecordMoved(i) PROVE LocalInv' /\ LocalContract
    <2>1. /\ proc[i] = "record" /\ proc' = [proc EXCEPT ![i] = "gone"]
          /\ rc' = [rc EXCEPT ![i] = local_exit[i]]
          /\ UNCHANGED <<pid, local_exit, launch, meta, look, local_since, local_answer>>
      BY <1>2 DEF L!RecordMoved, L!reading
    <2>2. LocalTyped' /\ proc'[i] = "gone" /\ rc'[i] = local_exit[i]
      BY <1>0, <2>1 DEF LocalTyped
    <2>3. FilesBehind(i)' /\ OwnPids'
      BY <1>0, <2>1, <2>2 DEF FilesBehind, OwnPids, L!Running, LocalTyped
    <2>4. L!job[i] # "live"
      BY <1>0, <2>1 DEF LocalKnown
    <2>5. /\ LocalInv' /\ LocalKnown'
          /\ \A k \in LocalTasks : k # i =>
                L!job'[k] = L!job[k] /\ L!get_job_stats'[k] = L!get_job_stats[k]
      BY <1>0, <2>1, <2>2, <2>3, <2>4, LocalMoves DEF LocalTyped
    <2>6. local_exit[i] # "none" /\ rc[i] = "none"
      BY <1>0, <2>1 DEF FilesBehind
    <2>7. L!job'[i] = L!job[i] /\ L!get_job_stats[i] = "none"
      BY <1>0, <2>1, <2>5, <2>6 DEF LocalKnown
    <2> QED
      BY <2>1, <2>5, <2>7, LocalChanges
  <1>3. ASSUME NEW i \in LocalTasks, L!KilledOutside(i) PROVE LocalInv' /\ LocalContract
    BY <1>3, LocalKill DEF L!KilledOutside, L!files
  <1>4. ASSUME NEW i \in LocalTasks, L!cancel_job(i) PROVE LocalInv' /\ LocalContract
    <2> DEFINE G == {k \in LocalTasks : L!Running(k) /\ pid[k] = meta[i]}
    <2>1. /\ UNCHANGED <<pid, local_exit, launch, meta, rc, look, local_answer>>
          /\ L!Kill(G)
      BY <1>4 DEF L!cancel_job, L!files
    <2>2. CASE G = {}
      <3>1. proc' = proc
        BY <1>0, <2>1, <2>2 DEF L!Kill, LocalTyped
      <3>2. local_since' = local_since
        BY <2>1, <2>2 DEF L!Kill, L!Without
      <3>3. LocalTyped' /\ (\A k \in LocalTasks : FilesBehind(k)') /\ OwnPids'
        BY <1>0, <2>1, <3>1 DEF LocalTyped, FilesBehind, OwnPids, L!Running
      <3> QED
        BY <1>0, <2>1, <3>1, <3>2, <3>3, LocalIdle DEF LocalReads
    <2>3. CASE G # {}
      <3>1. PICK k \in LocalTasks : L!Running(k) /\ pid[k] = meta[i]
        BY <2>3
      <3>2. G = {k}
        BY <1>0, <3>1 DEF OwnPids
      <3> QED
        BY <2>1, <3>1, <3>2, LocalKill
    <2> QED
      BY <2>2, <2>3
  <1>5. ASSUME NEW p \in Pids, L!OtherStarts(p) \/ L!OtherEnds(p)
        PROVE  LocalInv' /\ LocalContract
    <2>1. UNCHANGED <<proc, pid, local_exit, launch, meta, rc, look, local_since, local_answer>>
      BY <1>5 DEF L!OtherStarts, L!OtherEnds, L!files, L!reading
    <2>2. LocalTyped' /\ (\A k \in LocalTasks : FilesBehind(k)') /\ OwnPids'
      BY <1>0, <2>1 DEF LocalTyped, FilesBehind, OwnPids, L!Running
    <2> QED
      BY <1>0, <2>1, <2>2, LocalIdle DEF LocalReads
  <1>6. ASSUME NEW i \in LocalTasks, L!Spawned(i) PROVE LocalInv' /\ LocalContract
    <2>1. PICK p \in Pids \ L!Taken : pid' = [pid EXCEPT ![i] = p]
      BY <1>6 DEF L!Spawned
    <2>2. /\ launch[i] = "none" /\ launch' = [launch EXCEPT ![i] = "spawned"]
          /\ proc' = [proc EXCEPT ![i] = "script"]
          /\ UNCHANGED <<local_exit, meta, rc, look, local_since, local_answer>>
      BY <1>6 DEF L!Spawned, L!files, L!reading
    <2>3. /\ LocalTyped' /\ proc'[i] = "script" /\ launch'[i] = "spawned" /\ pid'[i] = p
          /\ p # 0
      BY <1>0, <2>1, <2>2, LocalAssumption DEF LocalTyped
    <2>4. FilesBehind(i)'
      BY <1>0, <2>2, <2>3 DEF FilesBehind
    <2>5. OwnPids'
      <3> SUFFICES ASSUME NEW a \in LocalTasks, NEW b \in LocalTasks,
                          L!Running(a)', L!Running(b)', pid'[a] = pid'[b], a # b
                   PROVE  FALSE
        BY DEF OwnPids
      <3>1. \A k \in LocalTasks : k # i /\ L!Running(k)' => pid'[k] = pid[k] /\ pid[k] # p /\ L!Running(k)
        BY <1>0, <2>1, <2>2 DEF L!Running, L!Taken, LocalTyped
      <3> QED
        BY <1>0, <2>3, <3>1 DEF OwnPids
    <2>6. meta[i] = 0 /\ meta'[i] = 0
      BY <1>0, <2>2 DEF FilesBehind
    <2>7. /\ LocalInv' /\ LocalKnown'
          /\ \A k \in LocalTasks : k # i =>
                L!job'[k] = L!job[k] /\ L!get_job_stats'[k] = L!get_job_stats[k]
      <3>1. L!job[i] = "none"
        BY <1>0, <2>6 DEF LocalKnown
      <3> QED
        BY <1>0, <2>1, <2>2, <2>3, <2>4, <2>5, <3>1, LocalMoves DEF LocalTyped
    <2> QED
      BY <1>0, <2>2, <2>6, <2>7, LocalHidden DEF LocalKnown
  <1>7. ASSUME NEW i \in LocalTasks, L!_launch(i) PROVE LocalInv' /\ LocalContract
    <2>1. /\ launch[i] = "spawned" /\ launch' = [launch EXCEPT ![i] = "answered"]
          /\ meta' = [meta EXCEPT ![i] = pid[i]]
          /\ UNCHANGED <<proc, pid, local_exit, rc, look, local_since, local_answer>>
      BY <1>7 DEF L!_launch, L!system, L!reading
    <2>2. LocalTyped' /\ meta'[i] = pid[i] /\ launch'[i] = "answered"
      BY <1>0, <2>1 DEF LocalTyped
    <2>3. meta[i] = 0 /\ pid[i] # 0 /\ proc[i] # "none"
      BY <1>0, <2>1 DEF FilesBehind
    <2>4. FilesBehind(i)' /\ OwnPids'
      BY <1>0, <2>1, <2>2, <2>3 DEF FilesBehind, OwnPids, L!Running
    <2>5. L!job[i] = "none"
      BY <1>0, <2>3 DEF LocalKnown
    <2>6. /\ LocalInv' /\ LocalKnown'
          /\ \A k \in LocalTasks : k # i =>
                L!job'[k] = L!job[k] /\ L!get_job_stats'[k] = L!get_job_stats[k]
      BY <1>0, <2>1, <2>2, <2>4, <2>5, LocalMoves DEF LocalTyped
    <2>7. L!job'[i] \in {"live", "succeeded", "failed", "killed"}
      BY <1>0, <2>1, <2>2, <2>3, <2>6 DEF LocalKnown, FilesBehind, LocalTyped
    <2> QED
      BY <2>1, <2>5, <2>6, <2>7, LocalChanges
  <1>8. CASE L!get_jobs
    <2>1. /\ UNCHANGED <<proc, pid, local_exit, launch, meta, rc>>
          /\ local_since = L!NotReading /\ local_answer' = L!Nothing
          /\ local_since' = {i \in LocalTasks : L!job[i] = "live"}
          /\ look' = [i \in LocalTasks |-> IF meta[i] = 0 THEN "passed" ELSE "record"]
      BY <1>8 DEF L!get_jobs, L!system, L!files, L!NoPid
    <2>2. L!job' = L!job /\ L!get_job_stats' = L!get_job_stats
      BY <2>1, LocalSame, LocalAreFunctions, SameFunction
    <2>3. LocalInv'
      <3>1. LocalTyped' /\ (\A i \in LocalTasks : FilesBehind(i)') /\ OwnPids'
        BY <1>0, <2>1 DEF LocalTyped, FilesBehind, OwnPids, L!Running
      <3>2. \A i \in local_since' : i \in LocalTasks /\ L!job'[i] = "live" /\ look'[i] = "record"
        BY <1>0, <2>1, <2>2 DEF LocalKnown
      <3>3. local_since' # L!NotReading
        BY <3>2, TasksAssumption DEF L!NotReading
      <3>4. LocalReads'
        BY <3>2, <3>3 DEF LocalReads, L!NotReading
      <3> QED
        BY <3>1, <3>4 DEF LocalInv
    <2>4. L!C!Call("poll")
      BY <2>1, <2>2 DEF L!C!Call, L!One, L!C!Live, L!C!NotReading, L!NotReading,
                        L!C!Nothing, L!Nothing
    <2> QED
      BY <2>3, <2>4 DEF LocalContract, L!C!Next, L!One
  <1>9. ASSUME NEW i \in LocalTasks, L!rc_exists(i) PROVE LocalInv' /\ LocalContract
    <2>1. /\ UNCHANGED <<proc, pid, local_exit, launch, meta, rc, local_since, local_answer>>
          /\ look[i] = "record"
      BY <1>9 DEF L!rc_exists, L!system, L!files, L!Sees
    <2>2. PICK to \in {"listed", "passed", "pid"} :
             look' = [look EXCEPT ![i] = to] /\ (rc[i] = "none" => to = "pid")
      BY <1>9 DEF L!rc_exists, L!Sees
    <2>3. LocalTyped' /\ (\A k \in LocalTasks : FilesBehind(k)') /\ OwnPids'
      BY <1>0, <2>1, <2>2 DEF LocalTyped, FilesBehind, OwnPids, L!Running
    <2>4. i \in local_since /\ local_since # L!NotReading => to = "pid"
      BY <1>0, <2>2 DEF LocalReads, LocalKnown
    <2>5. local_since # L!NotReading
      BY <1>0, <2>1 DEF LocalReads
    <2> QED
      BY <1>0, <2>1, <2>2, <2>3, <2>4, <2>5, LocalIdle DEF LocalReads, LocalTyped
  <1>10. ASSUME NEW i \in LocalTasks, L!Pid(i) PROVE LocalInv' /\ LocalContract
    <2>1. /\ UNCHANGED <<proc, pid, local_exit, launch, meta, rc, local_since, local_answer>>
          /\ look[i] = "pid"
          /\ look' = [look EXCEPT ![i] = IF L!_pid_alive(i) THEN "listed" ELSE "passed"]
      BY <1>10 DEF L!Pid, L!system, L!files, L!Sees
    <2>2. LocalTyped' /\ (\A k \in LocalTasks : FilesBehind(k)') /\ OwnPids'
      BY <1>0, <2>1 DEF LocalTyped, FilesBehind, OwnPids, L!Running
    <2>3. local_since # L!NotReading
      BY <1>0, <2>1 DEF LocalReads
    <2>4. i \in local_since => L!_pid_alive(i)
      <3> SUFFICES ASSUME i \in local_since PROVE L!_pid_alive(i)
        OBVIOUS
      <3>1. L!job[i] = "live"
        BY <1>0, <2>3 DEF LocalReads
      <3>2. meta[i] # 0 /\ proc[i] = "script"
        BY <1>0, <3>1 DEF LocalKnown
      <3>3. meta[i] = pid[i]
        BY <1>0, <3>2 DEF FilesBehind, LocalTyped
      <3> QED
        BY <3>2, <3>3 DEF L!_pid_alive, L!Taken, L!Running
    <2> QED
      BY <1>0, <2>1, <2>2, <2>3, <2>4, LocalIdle DEF LocalReads, LocalTyped
  <1>11. CASE L!Return
    <2>1. /\ UNCHANGED <<proc, pid, local_exit, launch, meta, rc>>
          /\ look # L!Idle /\ \A i \in LocalTasks : look[i] \in {"listed", "passed"}
          /\ local_answer' = {i \in LocalTasks : look[i] = "listed"}
          /\ local_since' = L!NotReading /\ look' = L!Idle
      BY <1>11 DEF L!Return, L!Served, L!system, L!files
    <2>2. L!job' = L!job /\ L!get_job_stats' = L!get_job_stats
      BY <2>1, LocalSame, LocalAreFunctions, SameFunction
    <2>3. LocalInv'
      BY <1>0, <2>1
         DEF LocalInv, LocalTyped, FilesBehind, OwnPids, L!Running, LocalReads, L!Idle
    <2>4. local_since # L!NotReading
      BY <1>0, <2>1 DEF LocalReads, L!Idle, LocalTyped
    <2>5. local_since \subseteq {i \in LocalTasks : look[i] = "listed"}
      BY <1>0, <2>1, <2>4 DEF LocalReads
    <2>6. L!C!Return("poll")
      BY <2>1, <2>2, <2>4, <2>5 DEF L!C!Return, L!One, L!C!NotReading, L!NotReading
    <2> QED
      BY <2>3, <2>6 DEF LocalContract, L!C!Next, L!One
  <1>12. CASE L!Crash
    <2>1. /\ UNCHANGED <<proc, pid, local_exit, meta, rc>>
          /\ launch' = [i \in LocalTasks |->
                 IF launch[i] = "spawned" THEN "lost" ELSE launch[i]]
          /\ look' = L!Idle /\ local_since' = L!NotReading /\ local_answer' = L!Nothing
      BY <1>12 DEF L!Crash, L!system, L!files
    <2>2. L!job' = L!job /\ L!get_job_stats' = L!get_job_stats
      BY <2>1, LocalSame, LocalAreFunctions, SameFunction
    <2>3. LocalInv'
      <3>1. LocalTyped' /\ OwnPids' /\ LocalReads'
        BY <1>0, <2>1 DEF LocalTyped, OwnPids, L!Running, LocalReads, L!Idle
      <3>2. \A i \in LocalTasks : FilesBehind(i)'
        BY <1>0, <2>1 DEF FilesBehind
      <3> QED
        BY <3>1, <3>2 DEF LocalInv
    <2>4. \E S \in SUBSET LocalTasks : L!get_job_stats' =
             [j \in LocalTasks |-> IF j \in S THEN "none" ELSE L!get_job_stats[j]]
      <3> WITNESS {} \in SUBSET LocalTasks
      <3> QED
        BY <2>2, LocalAreFunctions
    <2>5. L!C!Restart
      BY <2>1, <2>2, <2>4 DEF L!C!Restart, L!One, L!C!NotReading, L!NotReading,
                              L!C!Nothing, L!Nothing
    <2> QED
      BY <2>3, <2>5 DEF LocalContract, L!C!Next
  <1> QED
    BY <1>1, <1>2, <1>3, <1>4, <1>5, <1>6, <1>7, <1>8, <1>9, <1>10, <1>11, <1>12 DEF L!Next

LEMMA LocalBegin == L!Init => LocalInv /\ L!C!Init
  <1> SUFFICES ASSUME L!Init PROVE LocalInv /\ L!C!Init
    OBVIOUS
  <1>1. LocalInv
    BY DEF L!Init, LocalInv, LocalTyped, FilesBehind, OwnPids, L!Running, LocalReads, L!Idle,
           L!NoPid
  <1>2. /\ L!job = [i \in LocalTasks |-> "none"]
        /\ L!get_job_stats = [i \in LocalTasks |-> "none"]
    BY DEF L!Init, L!job, L!get_job_stats, L!NoPid
  <1> QED
    BY <1>1, <1>2 DEF L!Init, L!C!Init, L!One, L!C!NotReading, L!NotReading, L!C!Nothing,
                      L!Nothing

-----------------------------------------------------------------------------
(* AWS Batch. The statuses are asked in the order in which a job goes       *)
(* through them, so that one that moves on is still found; a definition     *)
(* that a submission has found keeps the image it was found for.            *)

BatchTyped ==
    /\ want \in [BatchTasks -> Images]
    /\ status \in [BatchTasks -> 0 .. 9] /\ queue = [i \in BatchTasks |-> "own"]
    /\ DOMAIN ran = BatchTasks /\ defs \in Seq(Images)
    /\ batch_sub \in [BatchTasks ->
          {"none", "describe", "register", "submit", "answered", "refused", "lost"}]
    /\ template \in [BatchTasks -> Nat] /\ cache \in [Images -> Nat]
    /\ _jd_template \in {0, 1} /\ batch_at \in 0 .. 6

(* AWS has a job as soon as its submission is answered, and not before.     *)
BatchSubmitted(i) ==
    (batch_sub[i] = "answered") <=> (status[i] # 0)

(* Definition d is there and has image m.                                   *)
HasImage(d, m) == d \in 1 .. Len(defs) /\ defs[d] = m

(* Every definition in use has the image it is used for.                    *)
BatchDefs ==
    /\ mode \in {"revisions", "auto"}
    /\ mode = "revisions" => HasImage(1, Base)
    /\ mode = "auto" => _jd_template = 0 /\ \A i \in BatchTasks : batch_sub[i] # "describe"
    /\ \A m \in Images : cache[m] # 0 => HasImage(cache[m], m)
    /\ \A i \in BatchTasks : batch_sub[i] = "submit" => HasImage(template[i], want[i])
    /\ \A i \in BatchTasks : ran[i] \in {"none", want[i]}

(* A job that lived all the time has been found, or is still to be asked    *)
(* for.                                                                     *)
BatchReads ==
    /\ batch_at = 0 => batch_since = B!NotReading
    /\ batch_at # 0 =>
          batch_since \subseteq
              {i \in BatchTasks : B!job[i] = "live" /\ (i \in ids \/ status[i] >= batch_at)}
    /\ ids \subseteq BatchTasks

BatchInv ==
    BatchTyped /\ BatchDefs /\ BatchReads /\ \A i \in BatchTasks : BatchSubmitted(i)

BatchContract == B!C!Next \/ UNCHANGED B!C!vars

LEMMA BatchAreFunctions ==
    /\ B!job = [i \in BatchTasks |-> B!job[i]]
    /\ B!job' = [i \in BatchTasks |-> B!job'[i]]
    /\ B!get_job_stats = [i \in BatchTasks |-> B!get_job_stats[i]]
    /\ B!get_job_stats' = [i \in BatchTasks |-> B!get_job_stats'[i]]
  BY DEF B!job, B!get_job_stats

(* The truth about a job and the verdict on it, which is true.              *)
BatchKnown ==
    \A i \in BatchTasks :
        /\ batch_sub[i] # "answered" => B!job[i] = "none" /\ B!get_job_stats[i] = "none"
        /\ batch_sub[i] = "answered" /\ status[i] \in 1 .. 5 =>
              B!job[i] = "live" /\ B!get_job_stats[i] = "none"
        /\ batch_sub[i] = "answered" /\ status[i] \in 7 .. 9 =>
              B!job[i] \in {"succeeded", "failed", "killed"}
        /\ B!get_job_stats[i] # "none" =>
              /\ B!C!True(B!job[i], B!get_job_stats[i])
              /\ B!get_job_stats[i] \in {"succeeded", "failed"}
        /\ B!job[i] = "live" => batch_sub[i] = "answered" /\ status[i] \in 1 .. 5

LEMMA BatchTruth == BatchTyped => BatchKnown
  <1> SUFFICES ASSUME BatchTyped, NEW i \in BatchTasks
               PROVE  /\ batch_sub[i] # "answered" => B!job[i] = "none" /\ B!get_job_stats[i] = "none"
                      /\ batch_sub[i] = "answered" /\ status[i] \in 1 .. 5 =>
                            B!job[i] = "live" /\ B!get_job_stats[i] = "none"
                      /\ batch_sub[i] = "answered" /\ status[i] \in 7 .. 9 =>
                            B!job[i] \in {"succeeded", "failed", "killed"}
                      /\ B!get_job_stats[i] # "none" =>
                            /\ B!C!True(B!job[i], B!get_job_stats[i])
                            /\ B!get_job_stats[i] \in {"succeeded", "failed"}
                      /\ B!job[i] = "live" =>
                            batch_sub[i] = "answered" /\ status[i] \in 1 .. 5
    BY DEF BatchKnown
  <1>1. status[i] \in 0 .. 9
    BY DEF BatchTyped
  <1>2. batch_sub[i] # "answered" => B!job[i] = "none" /\ B!get_job_stats[i] = "none"
    BY DEF B!job, B!get_job_stats
  <1>3. batch_sub[i] = "answered" =>
           /\ status[i] \in 1 .. 5 => B!job[i] = "live" /\ B!get_job_stats[i] = "none"
           /\ status[i] = 7 => B!job[i] = "succeeded" /\ B!get_job_stats[i] = "succeeded"
           /\ status[i] = 8 => B!job[i] = "failed" /\ B!get_job_stats[i] = "failed"
           /\ status[i] = 9 => B!job[i] = "killed" /\ B!get_job_stats[i] = "failed"
           /\ status[i] \in {0, 6} => B!job[i] = "killed" /\ B!get_job_stats[i] = "none"
    BY <1>1 DEF B!job, B!get_job_stats, B!Running, B!SUCCEEDED, B!FAILED, B!Killed, B!Gone
  <1> QED
    BY <1>1, <1>2, <1>3 DEF B!C!True, B!C!Ended

(* The same in the next state.                                              *)
LEMMA BatchTruthNext == BatchTyped' => BatchKnown'
  BY BatchTruth, PTL

(* A step that a poller does not notice.                                    *)
LEMMA BatchHidden ==
    ASSUME UNCHANGED <<batch_since, batch_answer>>,
           \A i \in BatchTasks : B!job'[i] = B!job[i] /\ B!get_job_stats'[i] = B!get_job_stats[i]
    PROVE  BatchContract
  <1>1. B!job' = B!job
    BY BatchAreFunctions, SameFunction
  <1>2. B!get_job_stats' = B!get_job_stats
    BY BatchAreFunctions, SameFunction
  <1> QED
    BY <1>1, <1>2 DEF BatchContract, B!C!vars

(* A job starts or ends.                                                    *)
LEMMA BatchChanges ==
    ASSUME BatchKnown', NEW i \in BatchTasks,
           \A k \in BatchTasks : k # i =>
                B!job'[k] = B!job[k] /\ B!get_job_stats'[k] = B!get_job_stats[k],
           UNCHANGED batch_answer,
           \/ /\ B!job[i] = "none" /\ UNCHANGED batch_since
              /\ B!job'[i] \in {"live", "succeeded", "failed", "killed"}
           \/ /\ B!job[i] = "live" /\ B!job'[i] \in {"succeeded", "failed", "killed"}
              /\ batch_since' = B!Without(i)
    PROVE  BatchContract
  <1> DEFINE e == B!job'[i]
             v == B!get_job_stats'[i]
  <1>1. B!job' = [B!job EXCEPT ![i] = e]
    BY BatchAreFunctions, SameButOne
  <1>2. B!get_job_stats' = [B!get_job_stats EXCEPT ![i] = v]
    BY BatchAreFunctions, SameButOne
  <1>3. v # "none" => B!C!True(e, v) /\ v \in {"succeeded", "failed"}
    BY DEF BatchKnown
  <1>4. v \in {"none", "succeeded", "failed", "lost"}
    BY <1>3
  <1>5. B!C!Becomes(i, e)
    BY <1>1, <1>2, <1>3, <1>4 DEF B!C!Becomes
  <1>6. CASE /\ B!job[i] = "none" /\ UNCHANGED batch_since
             /\ e \in {"live", "succeeded", "failed", "killed"}
    <2>1. B!C!Start(i)
      BY <1>5, <1>6 DEF B!C!Start, B!C!Ended
    <2> QED
      BY <2>1 DEF BatchContract, B!C!Next
  <1>7. CASE /\ B!job[i] = "live" /\ e \in {"succeeded", "failed", "killed"}
             /\ batch_since' = B!Without(i)
    <2>1. B!C!End(i)
      BY <1>5, <1>7 DEF B!C!End, B!C!Ended, B!C!Without, B!Without, B!One, B!C!NotReading,
                        B!NotReading
    <2> QED
      BY <2>1 DEF BatchContract, B!C!Next
  <1> QED
    BY <1>6, <1>7

(* What is true of a job depends on its own state alone.                    *)
LEMMA BatchSame ==
    ASSUME NEW k \in BatchTasks, status'[k] = status[k], batch_sub'[k] = batch_sub[k]
    PROVE  B!job'[k] = B!job[k] /\ B!get_job_stats'[k] = B!get_job_stats[k]
  BY DEF B!job, B!get_job_stats

(* A definition keeps its image when another is registered.                 *)
LEMMA RegisteredStays ==
    ASSUME defs \in Seq(Images), NEW m \in Images, defs' = Append(defs, m)
    PROVE  /\ Len(defs') \in 1 .. Len(defs') /\ defs'[Len(defs')] = m
           /\ defs' \in Seq(Images)
           /\ \A d, x : HasImage(d, x) => d \in 1 .. Len(defs') /\ defs'[d] = x
  <1>1. /\ Len(defs) \in Nat /\ defs' \in Seq(Images) /\ Len(defs') = Len(defs) + 1
        /\ defs'[Len(defs) + 1] = m
        /\ \A d \in 1 .. Len(defs) : defs'[d] = defs[d]
    OBVIOUS
  <1> QED
    BY <1>1 DEF HasImage

(* What AWS does to one job.                                                *)
LEMMA BatchAws ==
    ASSUME BatchInv, NEW i \in BatchTasks, B!AwsKept, status[i] # 0,
           NEW s \in 1 .. 9, status' = [status EXCEPT ![i] = s],
           \/ s >= status[i] /\ s \in 1 .. 5 /\ batch_since' = batch_since
           \/ batch_since' = B!Without(i)
    PROVE  /\ BatchInv' /\ BatchKnown' /\ status'[i] = s
           /\ UNCHANGED <<batch_sub, batch_answer>>
           /\ \A k \in BatchTasks : k # i =>
                B!job'[k] = B!job[k] /\ B!get_job_stats'[k] = B!get_job_stats[k]
  <1>1. UNCHANGED <<mode, want, queue, ran, defs, batch_sub, template, _jd_template, cache,
                    batch_at, ids, batch_answer>>
    BY DEF B!AwsKept, B!submission
  <1>2. BatchTyped /\ BatchDefs /\ BatchReads /\ \A k \in BatchTasks : BatchSubmitted(k)
    BY DEF BatchInv
  <1>3. BatchTyped' /\ status'[i] = s
    BY <1>1, <1>2 DEF BatchTyped
  <1>4. BatchDefs'
    BY <1>1, <1>2 DEF BatchDefs, HasImage
  <1>5. \A k \in BatchTasks : BatchSubmitted(k)'
    BY <1>1, <1>2, <1>3 DEF BatchSubmitted, BatchTyped
  <1>6. BatchKnown'
    BY <1>3, BatchTruthNext
  <1>7. \A k \in BatchTasks : k # i =>
           status'[k] = status[k] /\ B!job'[k] = B!job[k] /\ B!get_job_stats'[k] = B!get_job_stats[k]
    BY <1>1, <1>2, BatchSame DEF BatchTyped
  <1>8. BatchReads'
    <2>1. CASE batch_at = 0
      BY <1>1, <1>2, <2>1 DEF BatchReads, B!Without, B!NotReading
    <2>2. CASE batch_at # 0
      <3>1. batch_since # B!NotReading
        BY <1>2, <2>2, TasksAssumption DEF BatchReads, B!NotReading
      <3>2. batch_since' \subseteq batch_since
        BY <3>1 DEF B!Without
      <3>3. i \in batch_since' => s >= status[i] /\ s \in 1 .. 5
        BY <3>1 DEF B!Without
      <3>4. i \in batch_since' => B!job'[i] = "live"
        BY <1>1, <1>2, <1>3, <1>6, <3>3 DEF BatchKnown, BatchSubmitted
      <3>5. status[i] \in 0 .. 9 /\ batch_at \in 0 .. 6
        BY <1>2 DEF BatchTyped
      <3>6. i \in batch_since' => i \in ids \/ s >= batch_at
        BY <1>2, <2>2, <3>2, <3>3, <3>5 DEF BatchReads
      <3> QED
        BY <1>1, <1>2, <1>3, <1>7, <2>2, <3>2, <3>4, <3>6 DEF BatchReads
    <2> QED
      BY <2>1, <2>2
  <1> QED
    BY <1>1, <1>3, <1>4, <1>5, <1>6, <1>7, <1>8 DEF BatchInv

(* A job of AWS ends.                                                       *)
LEMMA BatchEnds ==
    ASSUME BatchInv, NEW i \in BatchTasks, B!AwsKept, status[i] \in 1 .. 5,
           NEW s \in 7 .. 9, status' = [status EXCEPT ![i] = s],
           batch_since' = B!Without(i)
    PROVE  BatchInv' /\ BatchContract
  <1>1. /\ BatchInv' /\ BatchKnown' /\ status'[i] = s
        /\ UNCHANGED <<batch_sub, batch_answer>>
        /\ \A k \in BatchTasks : k # i =>
              B!job'[k] = B!job[k] /\ B!get_job_stats'[k] = B!get_job_stats[k]
    <2>1. s \in 1 .. 9 /\ status[i] # 0
      OBVIOUS
    <2> QED
      BY <2>1, BatchAws
  <1>2. batch_sub[i] = "answered"
    BY DEF BatchInv, BatchSubmitted
  <1>3. B!job[i] = "live" /\ B!job'[i] \in {"succeeded", "failed", "killed"}
    BY <1>1, <1>2, BatchTruth DEF BatchInv, BatchKnown
  <1> QED
    BY <1>1, <1>3, BatchChanges

(* A step of a submission.                                                  *)
LEMMA BatchSubmits ==
    ASSUME BatchInv, NEW i \in BatchTasks, B!SubmitKept, UNCHANGED <<status, queue, ran>>,
           batch_sub[i] \notin {"answered"},
           NEW to \in {"describe", "register", "submit", "refused"},
           batch_sub' = [batch_sub EXCEPT ![i] = to],
           to = "describe" => mode = "revisions",
           \/ UNCHANGED defs
           \/ /\ defs' = Append(defs, want[i]) /\ cache' = [cache EXCEPT ![want[i]] = Len(defs')]
              /\ UNCHANGED _jd_template /\ to = "submit"
              /\ template' = [template EXCEPT ![i] = Len(defs')],
           defs' = defs => UNCHANGED cache,
           \/ UNCHANGED _jd_template
           \/ _jd_template' = 1 /\ mode = "revisions",
           \/ UNCHANGED template /\ to # "submit"
           \/ \E d \in Nat : template' = [template EXCEPT ![i] = d] /\
                             (defs' = defs => HasImage(d, want[i]))
    PROVE  BatchInv' /\ BatchContract
  <1>1. UNCHANGED <<mode, want, status, queue, ran, batch_at, ids, batch_since, batch_answer>>
    BY DEF B!SubmitKept, B!reading
  <1>2. BatchTyped /\ BatchDefs /\ BatchReads /\ \A k \in BatchTasks : BatchSubmitted(k)
    BY DEF BatchInv
  <1>3. want[i] \in Images /\ Len(defs) \in Nat /\ batch_sub'[i] = to
    BY <1>2 DEF BatchTyped
  <1>4. /\ defs' \in Seq(Images)
        /\ \A d, x : HasImage(d, x) => d \in 1 .. Len(defs') /\ defs'[d] = x
    BY <1>2, <1>3, RegisteredStays DEF BatchTyped, HasImage
  <1>5. BatchTyped'
    <2>1. cache' \in [Images -> Nat]
      BY <1>2, <1>3, <1>4 DEF BatchTyped
    <2>2. template' \in [BatchTasks -> Nat]
      BY <1>2, <1>3, <1>4 DEF BatchTyped
    <2> QED
      BY <1>1, <1>2, <1>4, <2>1, <2>2 DEF BatchTyped
  <1>6. BatchDefs'
    <2>1. \A m \in Images : cache'[m] # 0 => HasImage(cache[m], m)'
      <3> SUFFICES ASSUME NEW m \in Images, cache'[m] # 0
                   PROVE  cache'[m] \in 1 .. Len(defs') /\ defs'[cache'[m]] = m
        BY DEF HasImage
      <3>1. CASE cache'[m] = cache[m]
        BY <1>2, <1>4, <3>1 DEF BatchDefs
      <3>2. CASE cache'[m] # cache[m]
        <4>1. m = want[i] /\ cache'[m] = Len(defs') /\ defs' = Append(defs, want[i])
          BY <1>2, <3>2 DEF BatchTyped
        <4> QED
          BY <1>2, <1>3, <4>1, RegisteredStays DEF BatchTyped
      <3> QED
        BY <3>1, <3>2
    <2>2. \A k \in BatchTasks : batch_sub'[k] = "submit" => HasImage(template[k], want[k])'
      <3> SUFFICES ASSUME NEW k \in BatchTasks, batch_sub'[k] = "submit"
                   PROVE  template'[k] \in 1 .. Len(defs') /\ defs'[template'[k]] = want[k]
        BY <1>1 DEF HasImage
      <3>1. CASE k # i
        <4>1. batch_sub[k] = "submit" /\ template'[k] = template[k]
          BY <1>2, <3>1 DEF BatchTyped
        <4> QED
          BY <1>2, <1>4, <4>1 DEF BatchDefs
      <3>2. CASE k = i
        <4>1. PICK d \in Nat : template' = [template EXCEPT ![i] = d] /\
                               (defs' = defs => HasImage(d, want[i]))
          BY <1>3, <3>2
        <4>2. template'[i] = d
          BY <1>2, <4>1 DEF BatchTyped
        <4>3. CASE defs' = defs
          BY <3>2, <4>1, <4>2, <4>3 DEF HasImage
        <4>4. CASE defs' # defs
          <5>1. defs' = Append(defs, want[i]) /\ template'[i] = Len(defs')
            BY <1>2, <4>4 DEF BatchTyped
          <5> QED
            BY <1>2, <1>3, <3>2, <5>1, RegisteredStays DEF BatchTyped
        <4> QED
          BY <4>3, <4>4
      <3> QED
        BY <3>1, <3>2
    <2>3. mode = "revisions" => HasImage(1, Base)'
      BY <1>2, <1>4 DEF BatchDefs, HasImage
    <2>4. mode = "auto" =>
             _jd_template' = 0 /\ \A k \in BatchTasks : batch_sub'[k] # "describe"
      BY <1>2 DEF BatchDefs, BatchTyped
    <2> QED
      BY <1>1, <1>2, <2>1, <2>2, <2>3, <2>4 DEF BatchDefs
  <1>7. \A k \in BatchTasks : BatchSubmitted(k)'
    BY <1>1, <1>2 DEF BatchSubmitted, BatchTyped
  <1>8. \A k \in BatchTasks :
           B!job'[k] = B!job[k] /\ B!get_job_stats'[k] = B!get_job_stats[k]
    <2> SUFFICES ASSUME NEW k \in BatchTasks
                 PROVE  B!job'[k] = B!job[k] /\ B!get_job_stats'[k] = B!get_job_stats[k]
      OBVIOUS
    <2>1. CASE k = i
      BY <1>2, <1>3, <1>5, <2>1, BatchTruth, BatchTruthNext DEF BatchKnown
    <2>2. CASE k # i
      BY <1>1, <1>2, <2>2, BatchSame DEF BatchTyped
    <2> QED
      BY <2>1, <2>2
  <1>9. BatchReads'
    BY <1>1, <1>2, <1>8 DEF BatchReads, B!NotReading
  <1> QED
    BY <1>1, <1>5, <1>6, <1>7, <1>8, <1>9, BatchHidden DEF BatchInv

(* The search for a definition finds one with the task's image, or none.    *)
LEMMA BatchLooks ==
    ASSUME BatchInv, NEW i \in BatchTasks, batch_sub[i] # "answered",
           B!SubmitKept, UNCHANGED <<status, queue, ran, defs, cache>>,
           UNCHANGED _jd_template \/ (_jd_template' = 1 /\ mode = "revisions"),
           NEW jd, \/ B!Looked(i, jd)
                   \/ B!_jd_revision_for_image(i, jd) /\ jd = 1 /\ mode = "revisions"
    PROVE  BatchInv' /\ BatchContract
  <1>0. BatchTyped /\ BatchDefs /\ want[i] \in Images
    BY DEF BatchInv, BatchTyped
  <1>1. CASE /\ batch_sub' = [batch_sub EXCEPT ![i] = "submit"] /\ mode = "revisions"
             /\ template' = [template EXCEPT ![i] = 1] /\ want[i] = defs[1]
    <2>1. HasImage(1, want[i])
      BY <1>0, <1>1 DEF BatchDefs, HasImage
    <2> QED
      BY <1>1, <2>1, BatchSubmits
  <1>2. CASE B!Looked(i, jd)
    <2>1. CASE cache[want[i]] # 0
      <3>1. HasImage(cache[want[i]], want[i]) /\ cache[want[i]] \in Nat
        BY <1>0, <2>1 DEF BatchDefs, BatchTyped
      <3>2. /\ batch_sub' = [batch_sub EXCEPT ![i] = "submit"]
            /\ template' = [template EXCEPT ![i] = cache[want[i]]]
        BY <1>2, <2>1 DEF B!Looked, B!NoDef
      <3> QED
        BY <3>1, <3>2, BatchSubmits
    <2>2. CASE cache[want[i]] = 0
      <3>1. batch_sub' = [batch_sub EXCEPT ![i] = "register"] /\ UNCHANGED template
        BY <1>2, <2>2 DEF B!Looked, B!NoDef
      <3> QED
        BY <3>1, BatchSubmits
    <2> QED
      BY <2>1, <2>2
  <1> QED
    BY <1>1, <1>2 DEF B!_jd_revision_for_image

LEMMA BatchStep == BatchInv /\ B!Next => BatchInv' /\ BatchContract
  <1> SUFFICES ASSUME BatchInv, B!Next PROVE BatchInv' /\ BatchContract
    OBVIOUS
  <1>0. /\ BatchTyped /\ BatchDefs /\ BatchReads /\ BatchKnown
        /\ \A i \in BatchTasks : BatchSubmitted(i)
    BY BatchTruth DEF BatchInv
  <1>1. ASSUME NEW i \in BatchTasks, B!Moves(i) PROVE BatchInv' /\ BatchContract
    <2>1. /\ B!AwsKept /\ status[i] \in 1 .. 4 /\ batch_since' = batch_since
          /\ status' = [status EXCEPT ![i] = status[i] + 1]
      BY <1>1 DEF B!Moves, B!Running
    <2>2. status[i] + 1 \in 1 .. 5
      BY <2>1
    <2> DEFINE s == status[i] + 1
    <2>3. /\ BatchInv' /\ BatchKnown' /\ status'[i] = s
          /\ UNCHANGED <<batch_sub, batch_answer>>
          /\ \A k \in BatchTasks : k # i =>
               B!job'[k] = B!job[k] /\ B!get_job_stats'[k] = B!get_job_stats[k]
      <3>1. s >= status[i] /\ s \in 1 .. 9 /\ status[i] # 0
        BY <2>1, <2>2
      <3> HIDE DEF s
      <3> QED
        BY <2>1, <2>2, <3>1, BatchAws DEF s
    <2>4. B!job'[i] = B!job[i] /\ B!get_job_stats'[i] = B!get_job_stats[i]
      BY <1>0, <2>1, <2>2, <2>3 DEF BatchKnown
    <2> QED
      BY <2>1, <2>3, <2>4, BatchHidden
  <1>2. ASSUME NEW i \in BatchTasks, B!Retried(i) PROVE FALSE
    BY <1>2 DEF B!Retried
  <1>3. ASSUME NEW i \in BatchTasks, B!Ends(i) PROVE BatchInv' /\ BatchContract
    <2>1. PICK s \in {7, 8, 9} : status' = [status EXCEPT ![i] = s]
      BY <1>3 DEF B!Ends, B!SUCCEEDED, B!FAILED, B!Killed
    <2>2. B!AwsKept /\ status[i] \in 1 .. 5 /\ batch_since' = B!Without(i) /\ s \in 7 .. 9
      BY <1>3 DEF B!Ends, B!Running
    <2> QED
      BY <2>1, <2>2, BatchEnds
  <1>4. ASSUME NEW i \in BatchTasks, B!cancel_job(i) PROVE BatchInv' /\ BatchContract
    <2>1. /\ B!AwsKept /\ status[i] \in 1 .. 5 /\ batch_since' = B!Without(i)
          /\ status' = [status EXCEPT ![i] = 9] /\ 9 \in 7 .. 9
      BY <1>4 DEF B!cancel_job, B!Running, B!Killed
    <2> QED
      BY <2>1, BatchEnds
  <1>5. ASSUME NEW i \in BatchTasks, B!submit_task(i) PROVE BatchInv' /\ BatchContract
    <2>1. /\ batch_sub[i] = "none" /\ B!SubmitKept
          /\ UNCHANGED <<status, queue, ran, defs, _jd_template, cache>>
      BY <1>5 DEF B!submit_task, B!aws
    <2>2. CASE /\ mode = "revisions" /\ UNCHANGED template
               /\ batch_sub' = [batch_sub EXCEPT ![i] = "describe"]
      BY <2>1, <2>2, BatchSubmits
    <2>3. CASE /\ mode = "revisions" /\ _jd_template # 0
               /\ B!_jd_revision_for_image(i, _jd_template)
      <3>1. _jd_template = 1
        BY <1>0, <2>3 DEF BatchTyped
      <3> QED
        BY <2>1, <2>3, <3>1, BatchLooks
    <2>4. CASE B!Looked(i, B!NoDef)
      BY <2>1, <2>4, BatchLooks
    <2> QED
      BY <1>5, <2>2, <2>3, <2>4 DEF B!submit_task, B!NoDef
  <1>6. ASSUME NEW i \in BatchTasks, B!_get_jd_template(i) PROVE BatchInv' /\ BatchContract
    <2>1. /\ batch_sub[i] = "describe" /\ B!SubmitKept
          /\ UNCHANGED <<status, queue, ran, defs, cache>>
          /\ _jd_template' = 1 /\ B!_jd_revision_for_image(i, 1)
      BY <1>6 DEF B!_get_jd_template, B!aws
    <2>2. mode = "revisions"
      BY <1>0, <2>1 DEF BatchDefs
    <2> QED
      BY <2>1, <2>2, BatchLooks
  <1>7. ASSUME NEW i \in BatchTasks, B!RegisterJobDefinition(i)
        PROVE  BatchInv' /\ BatchContract
    <2>1. /\ batch_sub[i] = "register" /\ B!SubmitKept
          /\ UNCHANGED <<status, queue, ran, _jd_template>>
          /\ batch_sub' = [batch_sub EXCEPT ![i] = "submit"]
          /\ defs' = Append(defs, want[i])
          /\ cache' = [cache EXCEPT ![want[i]] = Len(defs')]
          /\ template' = [template EXCEPT ![i] = Len(defs')]
      BY <1>7 DEF B!RegisterJobDefinition
    <2>2. defs \in Seq(Images) /\ want[i] \in Images
      BY <1>0 DEF BatchTyped
    <2>3. Len(defs') \in Nat /\ defs' # defs
      BY <2>1, <2>2
    <2>4. \E d \in Nat : template' = [template EXCEPT ![i] = d] /\
                         (defs' = defs => HasImage(d, want[i]))
      BY <2>1, <2>3
    <2> QED
      BY <2>1, <2>3, <2>4, BatchSubmits
  <1>8. ASSUME NEW i \in BatchTasks, B!SubmitJob(i) PROVE BatchInv' /\ BatchContract
    <2>1. /\ batch_sub[i] = "submit"
          /\ batch_sub' = [batch_sub EXCEPT ![i] = "answered"]
          /\ status' = [status EXCEPT ![i] = 1]
          /\ queue' = [queue EXCEPT ![i] = "own"]
          /\ UNCHANGED <<mode, want, defs, template, _jd_template, cache, batch_at, ids,
                         batch_since, batch_answer>>
      BY <1>8 DEF B!SubmitJob, B!SubmitKept, B!reading
    <2>2. HasImage(template[i], want[i])
      BY <1>0, <2>1 DEF BatchDefs
    <2>3. ran' = [ran EXCEPT ![i] = want[i]]
      <3>1. template[i] # 0 /\ defs[template[i]] = want[i]
        BY <2>2 DEF HasImage
      <3> QED
        BY <1>8, <3>1 DEF B!SubmitJob, B!NoDef
    <2>4. BatchTyped' /\ batch_sub'[i] = "answered" /\ status'[i] = 1
      BY <1>0, <2>1, <2>3 DEF BatchTyped
    <2>5. BatchDefs'
      BY <1>0, <2>1, <2>3 DEF BatchDefs, HasImage, BatchTyped
    <2>6. \A k \in BatchTasks : BatchSubmitted(k)'
      BY <1>0, <2>1, <2>4 DEF BatchSubmitted, BatchTyped
    <2>7. BatchKnown'
      BY <2>4, BatchTruthNext
    <2>8. \A k \in BatchTasks : k # i =>
             /\ status'[k] = status[k]
             /\ B!job'[k] = B!job[k] /\ B!get_job_stats'[k] = B!get_job_stats[k]
      BY <1>0, <2>1, BatchSame DEF BatchTyped
    <2>9. B!job[i] = "none" /\ B!job'[i] = "live"
      BY <1>0, <2>1, <2>4, <2>7 DEF BatchKnown
    <2>10. BatchReads'
      BY <1>0, <2>1, <2>8, <2>9 DEF BatchReads, B!NotReading
    <2> QED
      BY <2>1, <2>4, <2>5, <2>6, <2>7, <2>8, <2>9, <2>10, BatchChanges DEF BatchInv
  <1>9. ASSUME NEW i \in BatchTasks, B!SubmitFails(i) PROVE BatchInv' /\ BatchContract
    <2>1. /\ batch_sub[i] # "answered" /\ B!SubmitKept
          /\ UNCHANGED <<status, queue, ran, defs, template, _jd_template, cache>>
          /\ batch_sub' = [batch_sub EXCEPT ![i] = "refused"]
      BY <1>9 DEF B!SubmitFails, B!aws
    <2> QED
      BY <2>1, BatchSubmits
  <1>10. CASE B!get_jobs
    <2>1. /\ UNCHANGED <<mode, want, status, queue, ran, defs, batch_sub, template,
                         _jd_template, cache>>
          /\ batch_at = 0 /\ batch_at' = 1 /\ ids' = {} /\ batch_answer' = B!Nothing
          /\ batch_since' = {i \in BatchTasks : B!job[i] = "live"}
      BY <1>10 DEF B!get_jobs, B!ReadKept, B!aws, B!submission, B!Idle
    <2>2. B!job' = B!job /\ B!get_job_stats' = B!get_job_stats
      BY <2>1, BatchSame, BatchAreFunctions, SameFunction
    <2>3. BatchTyped' /\ BatchDefs' /\ \A i \in BatchTasks : BatchSubmitted(i)'
      BY <1>0, <2>1 DEF BatchTyped, BatchDefs, HasImage, BatchSubmitted
    <2>4. BatchReads'
      <3>1. \A i \in BatchTasks : B!job[i] = "live" => status[i] >= 1
        <4>1. \A i \in BatchTasks : B!job[i] = "live" => status[i] \in 1 .. 5
          BY <1>0 DEF BatchKnown
        <4> QED
          BY <4>1
      <3> QED
        BY <2>1, <2>2, <3>1 DEF BatchReads
    <2>5. B!C!Call("poll")
      BY <1>0, <2>1, <2>2 DEF BatchReads, B!C!Call, B!One, B!C!Live, B!C!NotReading,
                              B!NotReading, B!C!Nothing, B!Nothing
    <2> QED
      BY <2>3, <2>4, <2>5 DEF BatchInv, BatchContract, B!C!Next, B!One
  <1>11. CASE B!ListJobs
    <2>1. /\ UNCHANGED <<mode, want, status, queue, ran, defs, batch_sub, template,
                         _jd_template, cache, batch_since, batch_answer>>
          /\ batch_at \in 1 .. 5 /\ batch_at' = batch_at + 1
          /\ ids' = ids \cup {i \in BatchTasks : queue[i] = "own" /\ status[i] = batch_at}
      BY <1>11 DEF B!ListJobs, B!ReadKept, B!aws, B!submission, B!Running, B!Listed, B!Asked
    <2>2. \A i \in BatchTasks :
             B!job'[i] = B!job[i] /\ B!get_job_stats'[i] = B!get_job_stats[i]
      BY <2>1, BatchSame
    <2>3. BatchTyped' /\ BatchDefs' /\ \A i \in BatchTasks : BatchSubmitted(i)'
      BY <1>0, <2>1 DEF BatchTyped, BatchDefs, HasImage, BatchSubmitted
    <2>4. BatchReads'
      <3>1. ASSUME NEW i \in batch_since
            PROVE  i \in BatchTasks /\ B!job[i] = "live" /\ (i \in ids' \/ status[i] >= batch_at + 1)
        <4>1. i \in BatchTasks /\ B!job[i] = "live" /\ (i \in ids \/ status[i] >= batch_at)
          BY <1>0, <2>1 DEF BatchReads
        <4>2. queue[i] = "own" /\ status[i] \in 0 .. 9
          BY <1>0, <4>1 DEF BatchTyped
        <4>3. CASE status[i] = batch_at
          BY <2>1, <4>1, <4>2, <4>3
        <4>4. CASE status[i] # batch_at
          BY <2>1, <4>1, <4>2, <4>4
        <4> QED
          BY <4>3, <4>4
      <3>2. ids' \subseteq BatchTasks /\ batch_at + 1 # 0
        BY <1>0, <2>1 DEF BatchReads
      <3> QED
        BY <2>1, <2>2, <3>1, <3>2 DEF BatchReads
    <2> QED
      BY <2>1, <2>2, <2>3, <2>4, BatchHidden DEF BatchInv
  <1>12. CASE B!DescribeJobs
    <2>1. /\ UNCHANGED <<mode, want, status, queue, ran, defs, batch_sub, template,
                         _jd_template, cache>>
          /\ batch_at = 6 /\ batch_at' = 0 /\ ids' = {} /\ batch_answer' = ids
          /\ batch_since' = B!NotReading
      BY <1>12 DEF B!DescribeJobs, B!ReadKept, B!aws, B!submission, B!Idle, B!Describing
    <2>2. B!job' = B!job /\ B!get_job_stats' = B!get_job_stats
      BY <2>1, BatchSame, BatchAreFunctions, SameFunction
    <2>3. BatchTyped' /\ BatchDefs' /\ \A i \in BatchTasks : BatchSubmitted(i)'
      BY <1>0, <2>1 DEF BatchTyped, BatchDefs, HasImage, BatchSubmitted
    <2>4. BatchReads'
      BY <1>0, <2>1, <2>2 DEF BatchReads
    <2>5. batch_since \subseteq ids /\ batch_since # B!NotReading
      <3> SUFFICES ASSUME NEW i \in batch_since PROVE i \in ids /\ i \in BatchTasks
        BY TasksAssumption DEF B!NotReading
      <3>1. i \in BatchTasks /\ B!job[i] = "live" /\ (i \in ids \/ status[i] >= 6)
        BY <1>0, <2>1 DEF BatchReads
      <3>2. batch_sub[i] = "answered" /\ status[i] \in 1 .. 5
        BY <1>0, <3>1 DEF BatchKnown
      <3> QED
        BY <3>1, <3>2
    <2>6. B!C!Return("poll")
      BY <1>0, <2>1, <2>2, <2>5 DEF BatchReads, B!C!Return, B!One, B!C!NotReading, B!NotReading
    <2> QED
      BY <2>3, <2>4, <2>6 DEF BatchInv, BatchContract, B!C!Next, B!One
  <1>13. CASE B!Crash
    <2>1. /\ UNCHANGED <<mode, want, status, queue, ran, defs, template>>
          /\ batch_sub' = [i \in BatchTasks |->
                 IF batch_sub[i] \in {"describe", "register", "submit"} THEN "lost"
                 ELSE batch_sub[i]]
          /\ _jd_template' = 0 /\ cache' = [m \in Images |-> 0] /\ batch_at' = 0 /\ ids' = {}
          /\ batch_since' = B!NotReading /\ batch_answer' = B!Nothing
      BY <1>13 DEF B!Crash, B!aws, B!NoDef, B!NoCache, B!Idle
    <2>2. BatchTyped'
      BY <1>0, <2>1 DEF BatchTyped
    <2>3. BatchKnown'
      BY <2>2, BatchTruthNext
    <2>4. B!job' = B!job /\ B!get_job_stats' = B!get_job_stats
      <3>1. \A i \in BatchTasks :
               B!job'[i] = B!job[i] /\ B!get_job_stats'[i] = B!get_job_stats[i]
        <4> SUFFICES ASSUME NEW i \in BatchTasks
                     PROVE  B!job'[i] = B!job[i] /\ B!get_job_stats'[i] = B!get_job_stats[i]
          OBVIOUS
        <4>1. CASE batch_sub'[i] = batch_sub[i]
          BY <2>1, <4>1, BatchSame
        <4>2. CASE batch_sub'[i] # batch_sub[i]
          BY <1>0, <2>1, <2>3, <4>2 DEF BatchKnown
        <4> QED
          BY <4>1, <4>2
      <3> QED
        BY <3>1, BatchAreFunctions, SameFunction
    <2>5. BatchDefs' /\ BatchReads'
      BY <1>0, <2>1 DEF BatchDefs, HasImage, BatchReads
    <2>6. \A i \in BatchTasks : BatchSubmitted(i)'
      BY <1>0, <2>1 DEF BatchSubmitted
    <2>7. \E S \in SUBSET BatchTasks : B!get_job_stats' =
             [j \in BatchTasks |-> IF j \in S THEN "none" ELSE B!get_job_stats[j]]
      <3> WITNESS {} \in SUBSET BatchTasks
      <3> QED
        BY <2>4, BatchAreFunctions
    <2>8. B!C!Restart
      BY <2>1, <2>4, <2>7 DEF B!C!Restart, B!One, B!C!NotReading, B!NotReading,
                              B!C!Nothing, B!Nothing
    <2> QED
      BY <2>2, <2>5, <2>6, <2>8 DEF BatchInv, BatchContract, B!C!Next
  <1> QED
    BY <1>1, <1>2, <1>3, <1>4, <1>5, <1>6, <1>7, <1>8, <1>9, <1>10, <1>11, <1>12, <1>13
       DEF B!Next

LEMMA BatchBegin == B!Init => BatchInv /\ B!C!Init
  <1> SUFFICES ASSUME B!Init PROVE BatchInv /\ B!C!Init
    OBVIOUS
  <1>1. BatchTyped /\ BatchReads /\ \A i \in BatchTasks : BatchSubmitted(i)
    BY BatchAssumption
       DEF B!Init, BatchTyped, BatchReads, BatchSubmitted, B!Idle, B!NoDef, B!NoCache
  <1>2. BatchDefs
    BY BatchAssumption DEF B!Init, BatchDefs, HasImage, B!NoDef, B!NoCache
  <1>3. /\ B!job = [i \in BatchTasks |-> "none"]
        /\ B!get_job_stats = [i \in BatchTasks |-> "none"]
    BY DEF B!Init, B!job, B!get_job_stats
  <1> QED
    BY <1>1, <1>2, <1>3 DEF BatchInv, B!Init, B!C!Init, B!One, B!C!NotReading, B!NotReading,
                            B!C!Nothing, B!Nothing

-----------------------------------------------------------------------------
(* EC2. Nothing is on disk: what the server remembers of an instance and    *)
(* what its coroutines are about to record agree with what AWS and the      *)
(* container have already done.                                             *)

Ec2Typed ==
    /\ inst \in [Ec2Tasks -> {"none", "pending", "running", "shutting-down", "gone"}]
    /\ exit \in [Ec2Tasks -> {"none", "0", "1"}]
    /\ sub \in [Ec2Tasks -> {"none", "asked", "launched", "answered", "refused", "lost"}]
    /\ tracked \subseteq Ec2Tasks
    /\ completed \in [Ec2Tasks -> {"none", "SUCCEEDED", "FAILED", "TERMINATED_EARLY"}]
    /\ poll \in [Polls -> {"idle", "asked", "described", "probing"}]
    /\ snap \in [Polls -> [Ec2Tasks -> {"none", "pending", "running", "shutting-down"}]]
    /\ probe \in [Polls -> [Ec2Tasks ->
          {"none", "check", "archive", "terminate", "record", "stays", "done"}]]
    /\ cancel \in [Ec2Tasks -> {"none", "called", "returned"}]
    /\ since = [p \in Polls |-> since[p]]

Over(i) == inst[i] \in {"shutting-down", "gone"}

(* What is recorded of an instance, and what is under way.                  *)
Remembered(i) ==
    /\ inst[i] = "none" => exit[i] = "none" /\ completed[i] = "none" /\ i \notin tracked
    /\ exit[i] # "none" => inst[i] \in {"running", "shutting-down", "gone"}
    /\ completed[i] = "SUCCEEDED" => exit[i] = "0"
    /\ completed[i] = "FAILED" => exit[i] = "1"
    /\ completed[i] = "TERMINATED_EARLY" => Over(i)
    /\ i \in tracked => completed[i] \in {"none", "TERMINATED_EARLY"}
    /\ sub[i] \in {"none", "asked"} => inst[i] = "none"
    /\ sub[i] \in {"launched", "answered"} => inst[i] # "none"
    /\ sub[i] = "launched" => exit[i] = "none"
    /\ cancel[i] = "called" => Over(i)

(* A probe that is past the sentinel has seen it; a description that is not *)
(* worked off yet has everything that is alive.                             *)
Probed(p, i) ==
    /\ probe[p][i] \in {"archive", "terminate", "record"} => exit[i] # "none"
    /\ poll[p] = "described" /\ inst[i] \in E!Alive => snap[p][i] \in E!Alive
    /\ snap[p][i] \in E!Alive => inst[i] # "none"

Ec2Reads(p) ==
    /\ poll[p] = "idle" => since[p] = E!NotReading
    /\ poll[p] # "idle" => since[p] \subseteq {i \in Ec2Tasks : E!job[i] = "live"}
    /\ poll[p] = "probing" => \A i \in since[p] :
          probe[p][i] \in {"check", "stays"} /\ snap[p][i] \in E!Alive

Ec2Inv ==
    /\ Ec2Typed /\ \A i \in Ec2Tasks : Remembered(i)
    /\ \A p \in Polls : Ec2Reads(p) /\ \A i \in Ec2Tasks : Probed(p, i)

Ec2Contract == E!C!Next \/ UNCHANGED E!C!vars

LEMMA Ec2AreFunctions ==
    /\ E!job = [i \in Ec2Tasks |-> E!job[i]]
    /\ E!job' = [i \in Ec2Tasks |-> E!job'[i]]
    /\ E!get_job_stats = [i \in Ec2Tasks |-> E!get_job_stats[i]]
    /\ E!get_job_stats' = [i \in Ec2Tasks |-> E!get_job_stats'[i]]
  BY DEF E!job, E!get_job_stats

(* The truth about a job and the verdict on it, which is true.              *)
Ec2Known ==
    \A i \in Ec2Tasks :
        /\ exit[i] # "none" => E!job[i] = IF exit[i] = "0" THEN "succeeded" ELSE "failed"
        /\ exit[i] = "none" /\ Over(i) => E!job[i] = "killed"
        /\ exit[i] = "none" /\ inst[i] \in E!Alive => E!job[i] = "live"
        /\ inst[i] = "none" => E!job[i] = "none"
        /\ E!job[i] = "live" => exit[i] = "none" /\ inst[i] \in E!Alive /\ completed[i] = "none"
        /\ E!get_job_stats[i] =
              IF completed[i] = "none" THEN "none"
              ELSE IF completed[i] = "SUCCEEDED" THEN "succeeded"
              ELSE IF completed[i] = "FAILED" THEN "failed" ELSE "lost"
        /\ E!get_job_stats[i] # "none" => E!C!True(E!job[i], E!get_job_stats[i])

LEMMA Ec2Truth == Ec2Typed /\ (\A i \in Ec2Tasks : Remembered(i)) => Ec2Known
  <1> SUFFICES ASSUME Ec2Typed, NEW i \in Ec2Tasks, Remembered(i)
               PROVE  /\ exit[i] # "none" => E!job[i] = IF exit[i] = "0" THEN "succeeded" ELSE "failed"
                      /\ exit[i] = "none" /\ Over(i) => E!job[i] = "killed"
                      /\ exit[i] = "none" /\ inst[i] \in E!Alive => E!job[i] = "live"
                      /\ inst[i] = "none" => E!job[i] = "none"
                      /\ E!job[i] = "live" =>
                            exit[i] = "none" /\ inst[i] \in E!Alive /\ completed[i] = "none"
                      /\ E!get_job_stats[i] =
                            IF completed[i] = "none" THEN "none"
                            ELSE IF completed[i] = "SUCCEEDED" THEN "succeeded"
                            ELSE IF completed[i] = "FAILED" THEN "failed" ELSE "lost"
                      /\ E!get_job_stats[i] # "none" => E!C!True(E!job[i], E!get_job_stats[i])
    BY DEF Ec2Known
  <1>1. /\ inst[i] \in {"none", "pending", "running", "shutting-down", "gone"}
        /\ exit[i] \in {"none", "0", "1"}
        /\ completed[i] \in {"none", "SUCCEEDED", "FAILED", "TERMINATED_EARLY"}
    BY DEF Ec2Typed
  <1>2. E!job[i] =
           IF exit[i] = "0" THEN "succeeded" ELSE IF exit[i] = "1" THEN "failed"
           ELSE IF inst[i] = "none" THEN "none"
           ELSE IF inst[i] \in {"shutting-down", "gone"} THEN "killed" ELSE "live"
    BY <1>1 DEF E!job
  <1>3. E!get_job_stats[i] =
           IF completed[i] = "none" THEN "none"
           ELSE IF completed[i] = "SUCCEEDED" THEN "succeeded"
           ELSE IF completed[i] = "FAILED" THEN "failed" ELSE "lost"
    BY <1>1 DEF E!get_job_stats
  <1> QED
    BY <1>1, <1>2, <1>3 DEF Remembered, Over, E!Alive, E!C!True, E!C!Ended

(* The same in the next state.                                              *)
LEMMA Ec2TruthNext ==
    Ec2Typed' /\ (\A i \in Ec2Tasks : Remembered(i))' => Ec2Known'
  BY Ec2Truth, PTL

(* A step that a poller does not notice.                                    *)
LEMMA Ec2Hidden ==
    ASSUME UNCHANGED <<since, answer>>,
           \A i \in Ec2Tasks : E!job'[i] = E!job[i] /\ E!get_job_stats'[i] = E!get_job_stats[i]
    PROVE  Ec2Contract
  <1>1. E!job' = E!job
    BY Ec2AreFunctions, SameFunction
  <1>2. E!get_job_stats' = E!get_job_stats
    BY Ec2AreFunctions, SameFunction
  <1> QED
    BY <1>1, <1>2 DEF Ec2Contract, E!C!vars

(* A step that records verdicts.                                            *)
LEMMA Ec2Judges ==
    ASSUME Ec2Known', UNCHANGED <<since, answer>>,
           \A i \in Ec2Tasks :
                /\ E!job'[i] = E!job[i]
                /\ E!get_job_stats'[i] # E!get_job_stats[i] =>
                      E!get_job_stats[i] \in {"none", "lost"} /\ E!get_job_stats'[i] # "none"
    PROVE  Ec2Contract
  <1>1. E!job' = E!job
    BY Ec2AreFunctions, SameFunction
  <1>2. \A i \in Ec2Tasks : E!get_job_stats'[i] \in {"none", "succeeded", "failed", "lost"}
    BY DEF Ec2Known
  <1>3. E!get_job_stats' \in [Ec2Tasks -> {"none", "succeeded", "failed", "lost"}]
    BY <1>2, Ec2AreFunctions
  <1>4. \A i \in Ec2Tasks : E!get_job_stats'[i] # E!get_job_stats[i] =>
           E!get_job_stats[i] \in {"none", "lost"} /\ E!C!True(E!job[i], E!get_job_stats'[i])
    BY DEF Ec2Known
  <1>5. E!C!Judge
    BY <1>1, <1>3, <1>4 DEF E!C!Judge
  <1> QED
    BY <1>5 DEF Ec2Contract, E!C!Next

(* A job starts or ends.                                                    *)
LEMMA Ec2Changes ==
    ASSUME Ec2Known', NEW i \in Ec2Tasks,
           \A k \in Ec2Tasks : k # i =>
                E!job'[k] = E!job[k] /\ E!get_job_stats'[k] = E!get_job_stats[k],
           UNCHANGED answer,
           \/ /\ E!job[i] = "none" /\ UNCHANGED since
              /\ E!job'[i] \in {"live", "succeeded", "failed", "killed"}
           \/ /\ E!job[i] = "live" /\ E!job'[i] \in {"succeeded", "failed", "killed"}
              /\ since' = E!Ends(i)
    PROVE  Ec2Contract
  <1> DEFINE e == E!job'[i]
             v == E!get_job_stats'[i]
  <1>1. E!job' = [E!job EXCEPT ![i] = e]
    BY Ec2AreFunctions, SameButOne
  <1>2. E!get_job_stats' = [E!get_job_stats EXCEPT ![i] = v]
    BY Ec2AreFunctions, SameButOne
  <1>3. (v # "none" => E!C!True(e, v)) /\ v \in {"none", "succeeded", "failed", "lost"}
    BY DEF Ec2Known
  <1>4. E!C!Becomes(i, e)
    BY <1>1, <1>2, <1>3 DEF E!C!Becomes
  <1>5. CASE /\ E!job[i] = "none" /\ UNCHANGED since
             /\ e \in {"live", "succeeded", "failed", "killed"}
    <2>1. E!C!Start(i)
      BY <1>4, <1>5 DEF E!C!Start, E!C!Ended
    <2> QED
      BY <2>1 DEF Ec2Contract, E!C!Next
  <1>6. CASE /\ E!job[i] = "live" /\ e \in {"succeeded", "failed", "killed"}
             /\ since' = E!Ends(i)
    <2>1. E!C!End(i)
      BY <1>4, <1>6 DEF E!C!End, E!C!Ended, E!C!Without, E!Ends, E!C!NotReading, E!NotReading
    <2> QED
      BY <2>1 DEF Ec2Contract, E!C!Next
  <1> QED
    BY <1>5, <1>6

(* What is true of a job depends on its own state alone.                    *)
LEMMA Ec2Same ==
    ASSUME NEW k \in Ec2Tasks, inst'[k] = inst[k], exit'[k] = exit[k],
           completed'[k] = completed[k]
    PROVE  E!job'[k] = E!job[k] /\ E!get_job_stats'[k] = E!get_job_stats[k]
  BY DEF E!job, E!get_job_stats

(* A step of one instance keeps the invariant.                              *)
LEMMA Ec2Moves ==
    ASSUME Ec2Inv, NEW i \in Ec2Tasks, Ec2Typed', Remembered(i)',
           UNCHANGED <<poll, snap>>,
           \A k \in Ec2Tasks : k # i =>
                /\ inst'[k] = inst[k] /\ exit'[k] = exit[k] /\ sub'[k] = sub[k]
                /\ completed'[k] = completed[k] /\ cancel'[k] = cancel[k]
                /\ (k \in tracked') = (k \in tracked),
           \A p \in Polls : \A k \in Ec2Tasks : k # i => probe'[p][k] = probe[p][k],
           \A p \in Polls : Probed(p, i)',
           \A p \in Polls : poll[p] = "probing" /\ i \in since'[p] =>
                probe'[p][i] \in {"check", "stays"} \/ probe'[p][i] = probe[p][i],
           \/ since' = since /\ (E!job[i] = "live" => E!job'[i] = "live")
           \/ since' = E!Ends(i)
    PROVE  /\ Ec2Inv' /\ Ec2Known'
           /\ \A k \in Ec2Tasks : k # i =>
                E!job'[k] = E!job[k] /\ E!get_job_stats'[k] = E!get_job_stats[k]
  <1>1. \A k \in Ec2Tasks : k # i =>
           E!job'[k] = E!job[k] /\ E!get_job_stats'[k] = E!get_job_stats[k]
    BY Ec2Same
  <1>2. \A k \in Ec2Tasks : Remembered(k)'
    <2> SUFFICES ASSUME NEW k \in Ec2Tasks, k # i PROVE Remembered(k)'
      OBVIOUS
    <2>1. Remembered(k)
      BY DEF Ec2Inv
    <2> QED
      BY <2>1 DEF Remembered, Over
  <1>3. \A p \in Polls : \A k \in Ec2Tasks : Probed(p, k)'
    <2> SUFFICES ASSUME NEW p \in Polls, NEW k \in Ec2Tasks, k # i PROVE Probed(p, k)'
      OBVIOUS
    <2>1. Probed(p, k)
      BY DEF Ec2Inv
    <2> QED
      BY <2>1 DEF Probed, E!Alive
  <1>4. ASSUME NEW p \in Polls PROVE Ec2Reads(p)'
    <2>1. Ec2Reads(p)
      BY DEF Ec2Inv
    <2>2. CASE poll[p] = "idle"
      BY <2>1, <2>2 DEF Ec2Reads, E!Ends, E!NotReading
    <2>3. CASE poll[p] # "idle"
      <3>1. "not reading" \notin since[p]
        BY <2>1, <2>3, TasksAssumption DEF Ec2Reads
      <3>2. /\ since'[p] \subseteq since[p]
            /\ i \in since'[p] /\ E!job[i] = "live" => E!job'[i] = "live"
        BY <3>1 DEF E!Ends, E!NotReading
      <3>3. since'[p] \subseteq {k \in Ec2Tasks : E!job'[k] = "live"}
        BY <1>1, <2>1, <2>3, <3>2 DEF Ec2Reads
      <3>4. poll[p] = "probing" => \A k \in since'[p] :
               probe'[p][k] \in {"check", "stays"} /\ snap[p][k] \in E!Alive
        BY <2>1, <3>2, <3>3 DEF Ec2Reads
      <3> QED
        BY <2>3, <3>3, <3>4 DEF Ec2Reads, E!Alive
    <2> QED
      BY <2>2, <2>3
  <1>5. Ec2Known'
    BY <1>2, Ec2TruthNext
  <1> QED
    BY <1>1, <1>2, <1>3, <1>4, <1>5 DEF Ec2Inv

(* An instance or its container ends: its job ends, if it was not over.     *)
LEMMA Ec2Stops ==
    ASSUME Ec2Inv, Ec2Known', NEW i \in Ec2Tasks,
           \A k \in Ec2Tasks : k # i =>
                E!job'[k] = E!job[k] /\ E!get_job_stats'[k] = E!get_job_stats[k],
           UNCHANGED <<completed, answer>>, since' = E!Ends(i),
           \/ E!job[i] = "live" /\ E!job'[i] \in {"succeeded", "failed", "killed"}
           \/ E!job[i] # "live" /\ E!job'[i] = E!job[i]
    PROVE  Ec2Contract
  <1>1. CASE E!job[i] = "live"
    BY <1>1, Ec2Changes
  <1>2. CASE E!job[i] # "live"
    <2>1. \A p \in Polls : since'[p] = since[p]
      <3> SUFFICES ASSUME NEW p \in Polls, since[p] # E!NotReading PROVE since'[p] = since[p]
        BY DEF E!Ends
      <3>1. Ec2Reads(p) /\ poll[p] # "idle"
        BY DEF Ec2Inv, Ec2Reads
      <3>2. i \notin since[p]
        BY <1>2, <3>1 DEF Ec2Reads
      <3> QED
        BY <3>2 DEF E!Ends
    <2>2. since' = since
      BY <2>1, SameFunction DEF E!Ends, Ec2Inv, Ec2Typed
    <2>3. E!get_job_stats'[i] = E!get_job_stats[i]
      BY DEF E!get_job_stats
    <2> QED
      BY <1>2, <2>2, <2>3, Ec2Hidden
  <1> QED
    BY <1>1, <1>2

(* A step of a probe.                                                       *)
LEMMA Ec2ProbeStep ==
    ASSUME Ec2Typed, NEW p \in Polls, NEW i \in Ec2Tasks, NEW from,
           NEW to \in {"none", "check", "archive", "terminate", "record", "stays", "done"},
           E!Probe(p, i, from, to)
    PROVE  /\ probe' \in [Polls -> [Ec2Tasks ->
                {"none", "check", "archive", "terminate", "record", "stays", "done"}]]
           /\ probe[p][i] = from /\ probe'[p][i] = to
           /\ \A q \in Polls : \A k \in Ec2Tasks : k # i \/ q # p => probe'[q][k] = probe[q][k]
  BY DEF E!Probe, Ec2Typed

(* The server lets an instance go, and the call takes effect.               *)
LEMMA Ec2Terminates ==
    ASSUME NEW i \in Ec2Tasks, E!terminate_instances(i), Ec2Typed
    PROVE  /\ inst' \in [Ec2Tasks -> {"none", "pending", "running", "shutting-down", "gone"}]
           /\ inst'[i] \in {"shutting-down", "gone"}
           /\ \A k \in Ec2Tasks : k # i => inst'[k] = inst[k]
           /\ since' = E!Ends(i)
  <1>1. "terminate" \notin Ec2Faults
    BY Ec2Assumption
  <1> QED
    BY <1>1 DEF E!terminate_instances, Ec2Typed

LEMMA Ec2EndsTyped == ASSUME NEW i, since' = E!Ends(i) PROVE since' = [p \in Polls |-> since'[p]]
  BY DEF E!Ends

(* An instance is over, for AWS.                                            *)
LEMMA Ec2Goes ==
    ASSUME Ec2Inv, NEW i \in Ec2Tasks, inst[i] # "none",
           inst' \in [Ec2Tasks -> {"none", "pending", "running", "shutting-down", "gone"}],
           Over(i)', since' = E!Ends(i),
           UNCHANGED <<exit, sub, tracked, completed, poll, snap, answer>>,
           NEW to \in {"none", "called", "returned", cancel[i]},
           cancel' = [cancel EXCEPT ![i] = to],
           probe' \in [Polls -> [Ec2Tasks ->
              {"none", "check", "archive", "terminate", "record", "stays", "done"}]],
           \A k \in Ec2Tasks : k # i =>
                inst'[k] = inst[k] /\ \A p \in Polls : probe'[p][k] = probe[p][k],
           \A p \in Polls : probe'[p][i] # probe[p][i] => exit[i] # "none"
    PROVE  Ec2Inv' /\ Ec2Contract
  <1>0. /\ Ec2Typed /\ Remembered(i) /\ Ec2Known
        /\ \A p \in Polls : Ec2Reads(p) /\ Probed(p, i)
    BY Ec2Truth DEF Ec2Inv
  <1>1. Ec2Typed'
    BY <1>0, Ec2EndsTyped DEF Ec2Typed
  <1>2. Remembered(i)'
    BY <1>0 DEF Remembered, Over
  <1>3. \A p \in Polls : Probed(p, i)'
    BY <1>0 DEF Probed, Over, E!Alive
  <1>4. \A p \in Polls : i \in since'[p] => probe'[p][i] = probe[p][i]
    <2> SUFFICES ASSUME NEW p \in Polls, i \in since'[p] PROVE FALSE
      OBVIOUS
    <2> QED
      BY TasksAssumption DEF E!Ends, E!NotReading
  <1>5. /\ Ec2Inv' /\ Ec2Known'
        /\ \A k \in Ec2Tasks : k # i =>
              E!job'[k] = E!job[k] /\ E!get_job_stats'[k] = E!get_job_stats[k]
    <2>1. \A k \in Ec2Tasks : k # i => cancel'[k] = cancel[k]
      BY <1>0 DEF Ec2Typed
    <2> QED
      BY <1>1, <1>2, <1>3, <1>4, <2>1, Ec2Moves
  <1>6. \/ E!job[i] = "live" /\ E!job'[i] \in {"succeeded", "failed", "killed"}
        \/ E!job[i] # "live" /\ E!job'[i] = E!job[i]
    <2>1. /\ inst[i] \in {"pending", "running", "shutting-down", "gone"}
          /\ exit[i] \in {"none", "0", "1"}
      BY <1>0 DEF Ec2Typed
    <2> QED
      BY <1>0, <1>5, <2>1 DEF Ec2Known, Over, E!Alive
  <1> QED
    BY <1>5, <1>6, Ec2Stops

(* A verdict is recorded, and the instance is tracked no longer.            *)
LEMMA Ec2Finalizes ==
    ASSUME Ec2Inv, NEW i \in Ec2Tasks,
           NEW v \in {"none", "SUCCEEDED", "FAILED", "TERMINATED_EARLY"},
           completed' = [completed EXCEPT ![i] = v],
           \/ v = completed[i] /\ i \notin tracked
           \/ v = "TERMINATED_EARLY" /\ Over(i) /\ completed[i] \in {"none", "TERMINATED_EARLY"}
           \/ v = (IF exit[i] = "0" THEN "SUCCEEDED" ELSE "FAILED") /\ exit[i] # "none",
           tracked' = tracked \ {i},
           NEW c \in {"none", "returned", cancel[i]}, cancel' = [cancel EXCEPT ![i] = c],
           probe' \in [Polls -> [Ec2Tasks ->
              {"none", "check", "archive", "terminate", "record", "stays", "done"}]],
           \A p \in Polls : \A k \in Ec2Tasks : probe'[p][k] # probe[p][k] =>
              k = i /\ probe'[p][k] = "done" /\ exit[i] # "none",
           UNCHANGED <<inst, exit, sub, poll, snap, answer, since>>
    PROVE  Ec2Inv' /\ Ec2Contract
  <1>0. /\ Ec2Typed /\ Remembered(i) /\ Ec2Known
        /\ \A p \in Polls : Ec2Reads(p) /\ Probed(p, i)
    BY Ec2Truth DEF Ec2Inv
  <1>1. Ec2Typed' /\ completed'[i] = v /\ cancel'[i] = c
    BY <1>0 DEF Ec2Typed
  <1>2. exit[i] \in {"none", "0", "1"}
    BY <1>0 DEF Ec2Typed
  <1>3. Remembered(i)'
    BY <1>0, <1>1, <1>2 DEF Remembered, Over
  <1>4. \A p \in Polls : Probed(p, i)'
    BY <1>0 DEF Probed, E!Alive
  <1>5. E!job'[i] = E!job[i]
    BY <1>0 DEF E!job
  <1>6. \A p \in Polls : poll[p] = "probing" /\ i \in since'[p] => probe'[p][i] = probe[p][i]
    <2> SUFFICES ASSUME NEW p \in Polls, poll[p] = "probing", i \in since[p], exit[i] # "none"
                 PROVE  FALSE
      OBVIOUS
    <2>1. E!job[i] = "live"
      BY <1>0 DEF Ec2Reads
    <2> QED
      BY <1>0, <2>1 DEF Ec2Known
  <1>7. /\ Ec2Inv' /\ Ec2Known'
        /\ \A k \in Ec2Tasks : k # i =>
              E!job'[k] = E!job[k] /\ E!get_job_stats'[k] = E!get_job_stats[k]
    <2>1. \A k \in Ec2Tasks : k # i =>
             /\ completed'[k] = completed[k] /\ cancel'[k] = cancel[k]
             /\ (k \in tracked') = (k \in tracked)
      BY <1>0 DEF Ec2Typed
    <2>2. \A p \in Polls : \A k \in Ec2Tasks : k # i => probe'[p][k] = probe[p][k]
      OBVIOUS
    <2> QED
      BY <1>1, <1>3, <1>4, <1>5, <1>6, <2>1, <2>2, Ec2Moves
  <1>8. E!get_job_stats'[i] # E!get_job_stats[i] =>
           E!get_job_stats[i] \in {"none", "lost"} /\ E!get_job_stats'[i] # "none"
    <2>1. completed[i] \in {"none", "SUCCEEDED", "FAILED", "TERMINATED_EARLY"}
      BY <1>0 DEF Ec2Typed
    <2> QED
      BY <1>0, <1>1, <1>2, <1>7, <2>1 DEF Ec2Known, Remembered
  <1> QED
    BY <1>5, <1>7, <1>8, Ec2Judges

(* A get_jobs that the step does not concern.                               *)
LEMMA Ec2ReadsKept ==
    ASSUME NEW q \in Polls, Ec2Reads(q), since'[q] = since[q], poll'[q] = poll[q],
           probe'[q] = probe[q], snap'[q] = snap[q],
           \A i \in Ec2Tasks : E!job'[i] = E!job[i]
    PROVE  Ec2Reads(q)'
  <1>1. E!NotReading' = E!NotReading /\ E!Alive' = E!Alive
    BY DEF E!NotReading, E!Alive
  <1>2. {i \in Ec2Tasks : E!job'[i] = "live"} = {i \in Ec2Tasks : E!job[i] = "live"}
    OBVIOUS
  <1> QED
    BY <1>1, <1>2 DEF Ec2Reads

LEMMA Ec2Step == Ec2Inv /\ E!Next => Ec2Inv' /\ Ec2Contract
  <1> SUFFICES ASSUME Ec2Inv, E!Next PROVE Ec2Inv' /\ Ec2Contract
    OBVIOUS
  <1>0. /\ Ec2Typed /\ Ec2Known /\ \A i \in Ec2Tasks : Remembered(i)
        /\ \A p \in Polls : Ec2Reads(p) /\ \A i \in Ec2Tasks : Probed(p, i)
    BY Ec2Truth DEF Ec2Inv
  <1>1. ASSUME NEW i \in Ec2Tasks, E!Boots(i) PROVE Ec2Inv' /\ Ec2Contract
    <2>1. /\ inst[i] = "pending" /\ inst' = [inst EXCEPT ![i] = "running"]
          /\ UNCHANGED <<exit, sub, tracked, completed, poll, snap, probe, cancel, answer, since>>
      BY <1>1 DEF E!Boots, E!AwsKept, E!reading
    <2>2. Ec2Typed' /\ inst'[i] = "running"
      BY <1>0, <2>1 DEF Ec2Typed
    <2>3. Remembered(i)' /\ \A p \in Polls : Probed(p, i)'
      BY <1>0, <2>1, <2>2 DEF Remembered, Probed, Over, E!Alive
    <2>4. exit[i] = "none" /\ E!job[i] = "live"
      BY <1>0, <2>1 DEF Remembered, Ec2Known, E!Alive
    <2>5. E!job'[i] = "live" /\ E!get_job_stats'[i] = E!get_job_stats[i]
      BY <1>0, <2>1, <2>2, <2>4 DEF Ec2Typed, E!job, E!get_job_stats
    <2>6. /\ Ec2Inv' /\ Ec2Known'
          /\ \A k \in Ec2Tasks : k # i =>
               E!job'[k] = E!job[k] /\ E!get_job_stats'[k] = E!get_job_stats[k]
      BY <1>0, <2>1, <2>2, <2>3, <2>5, Ec2Moves DEF Ec2Typed
    <2> QED
      BY <2>1, <2>4, <2>5, <2>6, Ec2Hidden
  <1>2. ASSUME NEW i \in Ec2Tasks, E!Exits(i) PROVE Ec2Inv' /\ Ec2Contract
    <2>1. PICK code \in {"0", "1"} : exit' = [exit EXCEPT ![i] = code]
      BY <1>2 DEF E!Exits
    <2>2. /\ inst[i] = "running" /\ exit[i] = "none" /\ sub[i] # "launched"
          /\ since' = E!Ends(i)
          /\ UNCHANGED <<inst, sub, tracked, completed, poll, snap, probe, cancel, answer>>
      BY <1>2 DEF E!Exits, E!AwsKept, E!reading
    <2>3. Ec2Typed' /\ exit'[i] = code
      BY <1>0, <2>1, <2>2, Ec2EndsTyped DEF Ec2Typed
    <2>4. Remembered(i)' /\ \A p \in Polls : Probed(p, i)'
      BY <1>0, <2>1, <2>2, <2>3 DEF Remembered, Probed, Over, E!Alive
    <2>5. /\ Ec2Inv' /\ Ec2Known'
          /\ \A k \in Ec2Tasks : k # i =>
               E!job'[k] = E!job[k] /\ E!get_job_stats'[k] = E!get_job_stats[k]
      BY <1>0, <2>1, <2>2, <2>3, <2>4, Ec2Moves DEF Ec2Typed
    <2>6. E!job[i] = "live" /\ E!job'[i] \in {"succeeded", "failed", "killed"}
      BY <1>0, <2>2, <2>3, <2>5 DEF Ec2Known, E!Alive
    <2> QED
      BY <2>2, <2>5, <2>6, Ec2Stops
  <1>3. ASSUME NEW i \in Ec2Tasks, E!Dies(i) PROVE Ec2Inv' /\ Ec2Contract
    <2>1. /\ UNCHANGED <<exit, sub, tracked, completed, poll, snap, probe, cancel, answer>>
          /\ inst[i] # "none" /\ inst' = [inst EXCEPT ![i] = "shutting-down"]
          /\ since' = E!Ends(i)
      BY <1>3 DEF E!Dies, E!AwsKept, E!reading
    <2>2. /\ inst' \in [Ec2Tasks -> {"none", "pending", "running", "shutting-down", "gone"}]
          /\ Over(i)' /\ cancel' = [cancel EXCEPT ![i] = cancel[i]]
      BY <1>0, <2>1 DEF Ec2Typed, Over
    <2> QED
      BY <1>0, <2>1, <2>2, Ec2Goes DEF Ec2Typed
  <1>4. ASSUME NEW i \in Ec2Tasks, E!Forgotten(i) PROVE Ec2Inv' /\ Ec2Contract
    <2>1. /\ inst[i] = "shutting-down" /\ inst' = [inst EXCEPT ![i] = "gone"]
          /\ UNCHANGED <<exit, sub, tracked, completed, poll, snap, probe, cancel, answer, since>>
      BY <1>4 DEF E!Forgotten, E!AwsKept, E!reading
    <2>2. Ec2Typed' /\ inst'[i] = "gone"
      BY <1>0, <2>1 DEF Ec2Typed
    <2>3. Remembered(i)' /\ \A p \in Polls : Probed(p, i)'
      BY <1>0, <2>1, <2>2 DEF Remembered, Probed, Over, E!Alive
    <2>4. E!job'[i] = E!job[i] /\ E!get_job_stats'[i] = E!get_job_stats[i]
      BY <1>0, <2>1, <2>2 DEF Ec2Typed, E!job, E!get_job_stats
    <2>5. /\ Ec2Inv' /\ Ec2Known'
          /\ \A k \in Ec2Tasks : k # i =>
               E!job'[k] = E!job[k] /\ E!get_job_stats'[k] = E!get_job_stats[k]
      BY <1>0, <2>1, <2>2, <2>3, <2>4, Ec2Moves DEF Ec2Typed
    <2> QED
      BY <2>1, <2>4, <2>5, Ec2Hidden
  <1>5. ASSUME NEW i \in Ec2Tasks, NEW to \in {"asked", "refused", "answered"},
               sub' = [sub EXCEPT ![i] = to],
               to = "asked" => sub[i] = "none", to = "answered" => sub[i] = "launched",
               tracked' = tracked \/ (to = "answered" /\ tracked' = tracked \cup {i}),
               UNCHANGED <<inst, exit, completed, poll, snap, probe, cancel, answer, since>>
        PROVE  Ec2Inv' /\ Ec2Contract
    <2>1. Ec2Typed' /\ sub'[i] = to
      BY <1>0, <1>5 DEF Ec2Typed
    <2>2. Remembered(i)' /\ \A p \in Polls : Probed(p, i)'
      BY <1>0, <1>5, <2>1 DEF Remembered, Probed, Over, E!Alive, Ec2Typed
    <2>3. E!job'[i] = E!job[i] /\ E!get_job_stats'[i] = E!get_job_stats[i]
      BY <1>5, Ec2Same
    <2>4. /\ Ec2Inv' /\ Ec2Known'
          /\ \A k \in Ec2Tasks : k # i =>
               E!job'[k] = E!job[k] /\ E!get_job_stats'[k] = E!get_job_stats[k]
      BY <1>0, <1>5, <2>1, <2>2, <2>3, Ec2Moves DEF Ec2Typed
    <2> QED
      BY <1>5, <2>3, <2>4, Ec2Hidden
  <1>6. ASSUME NEW i \in Ec2Tasks, E!submit_task(i) PROVE Ec2Inv' /\ Ec2Contract
    <2>1. PICK to \in {"asked", "refused"} : sub' = [sub EXCEPT ![i] = to]
      BY <1>6 DEF E!submit_task
    <2>2. /\ sub[i] = "none"
          /\ UNCHANGED <<inst, exit, tracked, completed, poll, snap, probe, cancel, answer, since>>
      BY <1>6 DEF E!submit_task, E!aws, E!reading
    <2> QED
      BY <1>5, <2>1, <2>2
  <1>7. ASSUME NEW i \in Ec2Tasks, E!RunInstances(i) PROVE Ec2Inv' /\ Ec2Contract
    <2>1. /\ sub[i] = "asked"
          /\ UNCHANGED <<exit, tracked, completed, poll, snap, probe, cancel, answer, since>>
      BY <1>7 DEF E!RunInstances, E!reading
    <2>2. CASE sub' = [sub EXCEPT ![i] = "refused"] /\ UNCHANGED inst
      BY <1>5, <2>1, <2>2
    <2>3. CASE /\ \A p \in Polls : poll[p] # "described"
               /\ sub' = [sub EXCEPT ![i] = "launched"] /\ inst' = [inst EXCEPT ![i] = "pending"]
      <3>1. Ec2Typed' /\ sub'[i] = "launched" /\ inst'[i] = "pending"
        BY <1>0, <2>1, <2>3 DEF Ec2Typed
      <3>2. inst[i] = "none" /\ exit[i] = "none"
        BY <1>0, <2>1 DEF Remembered
      <3>3. Remembered(i)' /\ \A p \in Polls : Probed(p, i)'
        BY <1>0, <2>1, <2>3, <3>1, <3>2 DEF Remembered, Probed, Over, E!Alive
      <3>4. E!job[i] = "none"
        BY <1>0, <3>2 DEF Ec2Known
      <3>5. /\ Ec2Inv' /\ Ec2Known'
            /\ \A k \in Ec2Tasks : k # i =>
                 E!job'[k] = E!job[k] /\ E!get_job_stats'[k] = E!get_job_stats[k]
        BY <1>0, <2>1, <2>3, <3>1, <3>3, <3>4, Ec2Moves DEF Ec2Typed
      <3>6. E!job'[i] = "live"
        BY <2>1, <3>1, <3>2, <3>5 DEF Ec2Known, E!Alive
      <3> QED
        BY <2>1, <3>4, <3>5, <3>6, Ec2Changes
    <2>4. "overlap" \notin Ec2Faults
      BY Ec2Assumption
    <2> QED
      BY <1>7, <2>2, <2>3, <2>4 DEF E!RunInstances
  <1>8. ASSUME NEW i \in Ec2Tasks, E!Submitted(i) PROVE Ec2Inv' /\ Ec2Contract
    <2>1. /\ sub[i] = "launched" /\ sub' = [sub EXCEPT ![i] = "answered"]
          /\ tracked' = tracked \cup {i}
          /\ UNCHANGED <<inst, exit, completed, poll, snap, probe, cancel, answer, since>>
      BY <1>8 DEF E!Submitted, E!aws, E!reading
    <2> QED
      BY <1>5, <2>1
  <1>9. ASSUME NEW i \in Ec2Tasks, E!CancelCalls(i) PROVE Ec2Inv' /\ Ec2Contract
    <2>1. /\ sub[i] = "answered" /\ cancel' = [cancel EXCEPT ![i] = "called"]
          /\ E!terminate_instances(i)
          /\ UNCHANGED <<exit, sub, tracked, completed, poll, snap, probe, answer>>
      BY <1>9 DEF E!CancelCalls, E!reading
    <2>2. inst[i] # "none"
      BY <1>0, <2>1 DEF Remembered
    <2>3. /\ inst' \in [Ec2Tasks -> {"none", "pending", "running", "shutting-down", "gone"}]
          /\ Over(i)' /\ since' = E!Ends(i) /\ \A k \in Ec2Tasks : k # i => inst'[k] = inst[k]
      BY <1>0, <2>1, Ec2Terminates DEF Over
    <2> QED
      BY <1>0, <2>1, <2>2, <2>3, Ec2Goes DEF Ec2Typed
  <1>10. ASSUME NEW i \in Ec2Tasks, E!CancelReturns(i) PROVE Ec2Inv' /\ Ec2Contract
    <2>1. /\ cancel[i] = "called" /\ cancel' = [cancel EXCEPT ![i] = "returned"]
          /\ tracked' = tracked \ {i}
          /\ UNCHANGED <<inst, exit, sub, poll, snap, probe, answer, since>>
      BY <1>10 DEF E!CancelReturns, E!aws, E!reading
    <2>2. Over(i) /\ (i \in tracked => completed[i] \in {"none", "TERMINATED_EARLY"})
      BY <1>0, <2>1 DEF Remembered
    <2>3. completed[i] \in {"none", "SUCCEEDED", "FAILED", "TERMINATED_EARLY"}
      BY <1>0 DEF Ec2Typed
    <2>4. CASE i \in tracked
      <3>1. completed' = [completed EXCEPT ![i] = "TERMINATED_EARLY"]
        BY <1>10, <2>4 DEF E!CancelReturns, E!Finalized
      <3> QED
        BY <1>0, <2>1, <2>2, <2>4, <3>1, Ec2Finalizes DEF Ec2Typed
    <2>5. CASE i \notin tracked
      <3>1. completed' = [completed EXCEPT ![i] = completed[i]]
        BY <1>0, <1>10, <2>5 DEF E!CancelReturns, Ec2Typed
      <3> QED
        BY <1>0, <2>1, <2>3, <2>5, <3>1, Ec2Finalizes DEF Ec2Typed
    <2> QED
      BY <2>4, <2>5
  <1>11. ASSUME NEW p \in Polls, NEW i \in Ec2Tasks, NEW from \in {"check", "archive"},
                NEW to \in {"archive", "terminate", "stays"}, E!Probe(p, i, from, to),
                from = "archive" \/ to = "stays" \/ exit[i] # "none",
                UNCHANGED <<inst, exit, sub, tracked, completed, poll, snap, cancel, answer, since>>
         PROVE  Ec2Inv' /\ Ec2Contract
    <2>1. /\ probe' \in [Polls -> [Ec2Tasks ->
               {"none", "check", "archive", "terminate", "record", "stays", "done"}]]
          /\ probe[p][i] = from /\ probe'[p][i] = to
          /\ \A q \in Polls : \A k \in Ec2Tasks : k # i \/ q # p => probe'[q][k] = probe[q][k]
      BY <1>0, <1>11, Ec2ProbeStep
    <2>2. from = "archive" => exit[i] # "none"
      BY <1>0, <2>1 DEF Probed
    <2>3. Ec2Typed' /\ Remembered(i)'
      BY <1>0, <1>11, <2>1 DEF Ec2Typed, Remembered, Over
    <2>4. \A q \in Polls : Probed(q, i)'
      <3> SUFFICES ASSUME NEW q \in Polls PROVE Probed(q, i)'
        OBVIOUS
      <3>1. CASE q = p
        BY <1>0, <1>11, <2>1, <2>2, <3>1 DEF Probed, E!Alive
      <3>2. CASE q # p
        BY <1>0, <1>11, <2>1, <3>2 DEF Probed, E!Alive
      <3> QED
        BY <3>1, <3>2
    <2>5. \A q \in Polls : poll[q] = "probing" /\ i \in since'[q] =>
             probe'[q][i] \in {"check", "stays"} \/ probe'[q][i] = probe[q][i]
      <3> SUFFICES ASSUME poll[p] = "probing", i \in since[p] PROVE to = "stays"
        BY <1>11, <2>1
      <3>1. E!job[i] = "live"
        BY <1>0 DEF Ec2Reads
      <3>2. exit[i] = "none"
        BY <1>0, <3>1 DEF Ec2Known
      <3> QED
        BY <1>11, <2>2, <3>2
    <2>6. E!job'[i] = E!job[i] /\ E!get_job_stats'[i] = E!get_job_stats[i]
      BY <1>11, Ec2Same
    <2>7. /\ Ec2Inv' /\ Ec2Known'
          /\ \A k \in Ec2Tasks : k # i =>
               E!job'[k] = E!job[k] /\ E!get_job_stats'[k] = E!get_job_stats[k]
      BY <1>11, <2>1, <2>3, <2>4, <2>5, <2>6, Ec2Moves
    <2> QED
      BY <1>11, <2>6, <2>7, Ec2Hidden
  <1>12. ASSUME NEW p \in Polls, NEW i \in Ec2Tasks, E!_check_sentinel(p, i)
         PROVE  Ec2Inv' /\ Ec2Contract
    <2>1. UNCHANGED <<inst, exit, sub, tracked, completed, poll, snap, cancel, answer, since>>
      BY <1>12 DEF E!_check_sentinel, E!aws
    <2>2. CASE E!Probe(p, i, "check", "archive") /\ exit[i] # "none"
      BY <1>11, <2>1, <2>2
    <2>3. CASE E!Probe(p, i, "check", "stays")
      BY <1>11, <2>1, <2>3
    <2> QED
      BY <1>12, <2>2, <2>3 DEF E!_check_sentinel
  <1>13. ASSUME NEW p \in Polls, NEW i \in Ec2Tasks, E!_archive_log(p, i)
         PROVE  Ec2Inv' /\ Ec2Contract
    <2>1. UNCHANGED <<inst, exit, sub, tracked, completed, poll, snap, cancel, answer, since>>
      BY <1>13 DEF E!_archive_log, E!aws
    <2>2. CASE E!Probe(p, i, "archive", "terminate")
      BY <1>11, <2>1, <2>2
    <2>3. CASE E!Probe(p, i, "archive", "stays")
      BY <1>11, <2>1, <2>3
    <2> QED
      BY <1>13, <2>2, <2>3 DEF E!_archive_log
  <1>14. ASSUME NEW p \in Polls, NEW i \in Ec2Tasks, E!_terminate_instance(p, i)
         PROVE  Ec2Inv' /\ Ec2Contract
    <2>1. /\ E!Probe(p, i, "terminate", "record") /\ E!terminate_instances(i)
          /\ UNCHANGED <<exit, sub, tracked, completed, poll, snap, cancel, answer>>
      BY <1>14 DEF E!_terminate_instance
    <2>2. /\ probe' \in [Polls -> [Ec2Tasks ->
               {"none", "check", "archive", "terminate", "record", "stays", "done"}]]
          /\ probe[p][i] = "terminate"
          /\ \A q \in Polls : \A k \in Ec2Tasks : k # i \/ q # p => probe'[q][k] = probe[q][k]
      BY <1>0, <2>1, Ec2ProbeStep
    <2>3. exit[i] # "none" /\ inst[i] # "none"
      BY <1>0, <2>2 DEF Probed, Remembered
    <2>4. /\ inst' \in [Ec2Tasks -> {"none", "pending", "running", "shutting-down", "gone"}]
          /\ Over(i)' /\ since' = E!Ends(i) /\ \A k \in Ec2Tasks : k # i => inst'[k] = inst[k]
      BY <1>0, <2>1, Ec2Terminates DEF Over
    <2>5. cancel' = [cancel EXCEPT ![i] = cancel[i]]
      BY <1>0, <2>1 DEF Ec2Typed
    <2> QED
      BY <2>1, <2>2, <2>3, <2>4, <2>5, Ec2Goes
  <1>15. ASSUME NEW p \in Polls, NEW i \in Ec2Tasks, E!Record(p, i)
         PROVE  Ec2Inv' /\ Ec2Contract
    <2> DEFINE v == IF exit[i] = "0" THEN "SUCCEEDED" ELSE "FAILED"
    <2>1. /\ E!Probe(p, i, "record", "done") /\ tracked' = tracked \ {i}
          /\ completed' = [completed EXCEPT ![i] = v]
          /\ UNCHANGED <<inst, exit, sub, poll, snap, cancel, answer, since>>
      BY <1>15 DEF E!Record, E!aws, E!Finalized
    <2>2. /\ probe' \in [Polls -> [Ec2Tasks ->
               {"none", "check", "archive", "terminate", "record", "stays", "done"}]]
          /\ probe[p][i] = "record" /\ probe'[p][i] = "done"
          /\ \A q \in Polls : \A k \in Ec2Tasks : k # i \/ q # p => probe'[q][k] = probe[q][k]
      BY <1>0, <2>1, Ec2ProbeStep
    <2>3. exit[i] # "none"
      BY <1>0, <2>2 DEF Probed
    <2>4. cancel' = [cancel EXCEPT ![i] = cancel[i]]
      BY <1>0, <2>1 DEF Ec2Typed
    <2>5. v \in {"none", "SUCCEEDED", "FAILED", "TERMINATED_EARLY"}
      OBVIOUS
    <2>6. \A q \in Polls : \A k \in Ec2Tasks : probe'[q][k] # probe[q][k] =>
             k = i /\ probe'[q][k] = "done" /\ exit[i] # "none"
      BY <2>2, <2>3
    <2> QED
      BY <2>1, <2>2, <2>3, <2>4, <2>5, <2>6, Ec2Finalizes
  <1>16. ASSUME NEW p \in Polls, E!get_jobs(p) PROVE Ec2Inv' /\ Ec2Contract
    <2>1. /\ poll[p] = "idle" /\ poll' = [poll EXCEPT ![p] = "asked"]
          /\ since' = [since EXCEPT ![p] = {i \in Ec2Tasks : E!job[i] = "live"}]
          /\ answer' = [answer EXCEPT ![p] = E!Nothing]
          /\ probe' = [probe EXCEPT ![p] = [i \in Ec2Tasks |-> "none"]]
          /\ UNCHANGED <<inst, exit, sub, tracked, completed, snap, cancel>>
      BY <1>16 DEF E!get_jobs, E!At, E!aws, E!None
    <2>2. E!job' = E!job /\ E!get_job_stats' = E!get_job_stats
      BY <2>1, Ec2Same, Ec2AreFunctions, SameFunction
    <2>3. /\ Ec2Typed' /\ poll'[p] = "asked"
          /\ since'[p] = {i \in Ec2Tasks : E!job[i] = "live"}
          /\ \A i \in Ec2Tasks : probe'[p][i] = "none"
          /\ \A q \in Polls : q # p =>
               poll'[q] = poll[q] /\ since'[q] = since[q] /\ probe'[q] = probe[q]
      BY <1>0, <2>1 DEF Ec2Typed
    <2>4. \A i \in Ec2Tasks : Remembered(i)'
      BY <1>0, <2>1 DEF Remembered, Over
    <2>5. ASSUME NEW q \in Polls PROVE Ec2Reads(q)' /\ \A i \in Ec2Tasks : Probed(q, i)'
      <3>1. CASE q = p
        <4>1. \A i \in Ec2Tasks : Probed(q, i)'
          BY <1>0, <2>1, <2>3, <3>1 DEF Probed, E!Alive
        <4>2. Ec2Reads(q)'
          BY <2>2, <2>3, <3>1 DEF Ec2Reads
        <4> QED
          BY <4>1, <4>2
      <3>2. CASE q # p
        <4>1. \A i \in Ec2Tasks : Probed(q, i)'
          BY <1>0, <2>1, <2>3, <3>2 DEF Probed, E!Alive
        <4>2. Ec2Reads(q)'
          BY <1>0, <2>1, <2>2, <2>3, <3>2, Ec2ReadsKept
        <4> QED
          BY <4>1, <4>2
      <3> QED
        BY <3>1, <3>2
    <2>6. E!C!Call(p)
      BY <1>0, <2>1, <2>2 DEF Ec2Reads, E!C!Call, E!C!Live, E!C!NotReading, E!NotReading,
                              E!C!Nothing, E!Nothing
    <2> QED
      BY <2>3, <2>4, <2>5, <2>6 DEF Ec2Inv, Ec2Contract, E!C!Next
  <1>17. ASSUME NEW p \in Polls, E!DescribeInstances(p) PROVE Ec2Inv' /\ Ec2Contract
    <2>1. /\ poll[p] = "asked" /\ poll' = [poll EXCEPT ![p] = "described"]
          /\ snap' = [snap EXCEPT ![p] =
                [i \in Ec2Tasks |-> IF inst[i] = "gone" THEN "none" ELSE inst[i]]]
          /\ UNCHANGED <<inst, exit, sub, tracked, completed, probe, cancel, since, answer>>
      <3>1. "describe" \notin Ec2Faults
        BY Ec2Assumption
      <3> QED
        BY <1>17, <3>1 DEF E!DescribeInstances, E!At, E!aws
    <2>2. \A i \in Ec2Tasks : E!job'[i] = E!job[i] /\ E!get_job_stats'[i] = E!get_job_stats[i]
      BY <2>1, Ec2Same
    <2>3. /\ Ec2Typed' /\ poll'[p] = "described"
          /\ \A i \in Ec2Tasks : snap'[p][i] = IF inst[i] = "gone" THEN "none" ELSE inst[i]
          /\ \A q \in Polls : q # p => poll'[q] = poll[q] /\ snap'[q] = snap[q]
      BY <1>0, <2>1 DEF Ec2Typed
    <2>4. \A i \in Ec2Tasks : Remembered(i)'
      BY <1>0, <2>1 DEF Remembered, Over
    <2>5. ASSUME NEW q \in Polls PROVE Ec2Reads(q)' /\ \A i \in Ec2Tasks : Probed(q, i)'
      <3>1. CASE q = p
        <4>1. \A i \in Ec2Tasks : Probed(q, i)'
          BY <1>0, <2>1, <2>3, <3>1 DEF Probed, E!Alive
        <4>2. Ec2Reads(q)'
          BY <1>0, <2>1, <2>2, <2>3, <3>1 DEF Ec2Reads
        <4> QED
          BY <4>1, <4>2
      <3>2. CASE q # p
        <4>1. \A i \in Ec2Tasks : Probed(q, i)'
          BY <1>0, <2>1, <2>3, <3>2 DEF Probed, E!Alive
        <4>2. Ec2Reads(q)'
          BY <1>0, <2>1, <2>2, <2>3, <3>2, Ec2ReadsKept
        <4> QED
          BY <4>1, <4>2
      <3> QED
        BY <3>1, <3>2
    <2> QED
      BY <2>1, <2>2, <2>3, <2>4, <2>5, Ec2Hidden DEF Ec2Inv
  <1>18. ASSUME NEW p \in Polls, E!BeginProbes(p) PROVE Ec2Inv' /\ Ec2Contract
    <2> DEFINE over == {i \in E!reconcile(p) : snap[p][i] \notin E!Alive}
    <2>1. /\ poll[p] = "described" /\ poll' = [poll EXCEPT ![p] = "probing"]
          /\ completed' = [i \in Ec2Tasks |->
                IF i \in over THEN "TERMINATED_EARLY" ELSE completed[i]]
          /\ tracked' = E!reconcile(p) \ over
          /\ UNCHANGED <<inst, exit, sub, snap, cancel, since, answer>>
      BY <1>18 DEF E!BeginProbes, E!At, E!aws
    <2>2. probe' = [probe EXCEPT ![p] = [i \in Ec2Tasks |->
               CASE i \in over -> "done"
                 [] i \in E!reconcile(p) \ over -> IF snap[p][i] = "pending" THEN "stays" ELSE "check"
                 [] OTHER -> "none"]]
      BY <1>18 DEF E!BeginProbes
    <2>3. \A i \in over : i \in tracked /\ Over(i) /\ completed[i] \in {"none", "TERMINATED_EARLY"}
      <3> SUFFICES ASSUME NEW i \in over
                   PROVE  i \in tracked /\ Over(i) /\ completed[i] \in {"none", "TERMINATED_EARLY"}
        OBVIOUS
      <3>1. i \in tracked /\ snap[p][i] \notin E!Alive /\ i \in Ec2Tasks
        BY <1>0 DEF E!reconcile, Ec2Typed
      <3>2. inst[i] # "none" /\ inst[i] \notin E!Alive
        BY <1>0, <2>1, <3>1 DEF Probed, Remembered
      <3>3. Over(i)
        BY <1>0, <3>1, <3>2 DEF Ec2Typed, Over, E!Alive
      <3> QED
        BY <1>0, <3>1, <3>3 DEF Remembered
    <2>4. \A i \in tracked' : /\ i \in Ec2Tasks /\ snap[p][i] \in E!Alive /\ inst[i] # "none"
                              /\ completed[i] \in {"none", "TERMINATED_EARLY"}
      <3> SUFFICES ASSUME NEW i \in tracked'
                   PROVE  /\ i \in Ec2Tasks /\ snap[p][i] \in E!Alive /\ inst[i] # "none"
                          /\ completed[i] \in {"none", "TERMINATED_EARLY"}
        OBVIOUS
      <3>1. /\ i \in Ec2Tasks /\ snap[p][i] \in E!Alive
            /\ i \in tracked \/ completed[i] = "none"
        BY <1>0, <2>1 DEF E!reconcile, Ec2Typed
      <3>2. inst[i] # "none"
        BY <1>0, <3>1 DEF Probed
      <3> QED
        BY <1>0, <3>1, <3>2 DEF Remembered
    <2>5. /\ \A i \in Ec2Tasks : probe'[p][i] \in {"none", "check", "stays", "done"}
          /\ \A i \in tracked' : probe'[p][i] \in {"check", "stays"}
          /\ \A q \in Polls : q # p => poll'[q] = poll[q] /\ probe'[q] = probe[q]
          /\ poll'[p] = "probing"
      <3> HIDE DEF over
      <3> QED
        BY <1>0, <2>1, <2>2, <2>4 DEF Ec2Typed
    <2>6. Ec2Typed'
      <3>1. probe' \in [Polls -> [Ec2Tasks ->
               {"none", "check", "archive", "terminate", "record", "stays", "done"}]]
        <4> DEFINE G == [i \in Ec2Tasks |->
               CASE i \in over -> "done"
                 [] i \in E!reconcile(p) \ over -> IF snap[p][i] = "pending" THEN "stays" ELSE "check"
                 [] OTHER -> "none"]
        <4>1. G \in [Ec2Tasks ->
               {"none", "check", "archive", "terminate", "record", "stays", "done"}]
          <5> HIDE DEF over
          <5> QED
            OBVIOUS
        <4> HIDE DEF G
        <4> QED
          BY <1>0, <2>2, <4>1 DEF G, Ec2Typed
      <3>2. tracked' \subseteq Ec2Tasks
        BY <2>4
      <3>3. completed' \in [Ec2Tasks -> {"none", "SUCCEEDED", "FAILED", "TERMINATED_EARLY"}]
        <4> HIDE DEF over
        <4> QED
          BY <1>0, <2>1 DEF Ec2Typed
      <3> QED
        BY <1>0, <2>1, <3>1, <3>2, <3>3 DEF Ec2Typed
    <2> HIDE DEF over
    <2>7. \A i \in Ec2Tasks : Remembered(i)'
      <3> SUFFICES ASSUME NEW i \in Ec2Tasks PROVE Remembered(i)'
        OBVIOUS
      <3>1. Remembered(i)
        BY <1>0
      <3>2. CASE i \in over
        BY <2>1, <2>3, <3>1, <3>2 DEF Remembered, Over
      <3>3. CASE i \notin over
        BY <2>1, <2>4, <3>1, <3>3 DEF Remembered, Over
      <3> QED
        BY <3>2, <3>3
    <2>8. Ec2Known'
      BY <2>6, <2>7, Ec2TruthNext
    <2>9. \A i \in Ec2Tasks : E!job'[i] = E!job[i]
      BY <2>1 DEF E!job
    <2>10. \A i \in Ec2Tasks : E!get_job_stats'[i] # E!get_job_stats[i] =>
              E!get_job_stats[i] \in {"none", "lost"} /\ E!get_job_stats'[i] # "none"
      <3> SUFFICES ASSUME NEW i \in Ec2Tasks, completed'[i] # completed[i]
                   PROVE  /\ E!get_job_stats[i] \in {"none", "lost"}
                          /\ E!get_job_stats'[i] # "none"
        BY <1>0, <2>8 DEF Ec2Known
      <3>1. i \in over /\ completed'[i] = "TERMINATED_EARLY"
        BY <2>1
      <3> QED
        BY <1>0, <2>3, <2>8, <3>1 DEF Ec2Known
    <2>11. ASSUME NEW q \in Polls PROVE Ec2Reads(q)' /\ \A i \in Ec2Tasks : Probed(q, i)'
      <3>1. CASE q = p
        <4>1. \A i \in Ec2Tasks : Probed(q, i)'
          BY <1>0, <2>1, <2>5, <3>1 DEF Probed, E!Alive
        <4>2. since[p] \subseteq {i \in Ec2Tasks : E!job[i] = "live"}
          BY <1>0, <2>1 DEF Ec2Reads
        <4>3. \A i \in since[p] : i \in tracked' /\ snap[p][i] \in E!Alive
          <5> SUFFICES ASSUME NEW i \in Ec2Tasks, E!job[i] = "live"
                       PROVE  i \in tracked' /\ snap[p][i] \in E!Alive
            BY <4>2
          <5>1. completed[i] = "none" /\ inst[i] \in E!Alive
            BY <1>0 DEF Ec2Known
          <5>2. snap[p][i] \in E!Alive
            BY <1>0, <2>1, <5>1 DEF Probed
          <5> QED
            BY <2>1, <5>1, <5>2 DEF over, E!reconcile
        <4>4. Ec2Reads(q)'
          BY <2>1, <2>5, <2>9, <3>1, <4>2, <4>3 DEF Ec2Reads, E!Alive
        <4> QED
          BY <4>1, <4>4
      <3>2. CASE q # p
        <4>1. \A i \in Ec2Tasks : Probed(q, i)'
          BY <1>0, <2>1, <2>5, <3>2 DEF Probed, E!Alive
        <4>2. Ec2Reads(q)'
          BY <1>0, <2>1, <2>5, <2>9, <3>2, Ec2ReadsKept
        <4> QED
          BY <4>1, <4>2
      <3> QED
        BY <3>1, <3>2
    <2> QED
      BY <2>1, <2>6, <2>7, <2>8, <2>9, <2>10, <2>11, Ec2Judges DEF Ec2Inv
  <1>19. ASSUME NEW p \in Polls, E!Return(p) PROVE Ec2Inv' /\ Ec2Contract
    <2> DEFINE listed == {i \in Ec2Tasks : probe[p][i] = "stays" /\ snap[p][i] # "none"}
    <2>1. /\ poll[p] = "probing" /\ poll' = [poll EXCEPT ![p] = "idle"]
          /\ \A i \in Ec2Tasks : probe[p][i] \in {"none", "stays", "done"}
          /\ answer' = [answer EXCEPT ![p] = listed]
          /\ since' = [since EXCEPT ![p] = E!NotReading]
          /\ UNCHANGED <<inst, exit, sub, tracked, completed, snap, probe, cancel>>
      BY <1>19 DEF E!Return, E!At, E!Leave, E!aws
    <2>2. E!job' = E!job /\ E!get_job_stats' = E!get_job_stats
      BY <2>1, Ec2Same, Ec2AreFunctions, SameFunction
    <2>3. /\ Ec2Typed' /\ poll'[p] = "idle" /\ since'[p] = E!NotReading
          /\ \A q \in Polls : q # p => poll'[q] = poll[q] /\ since'[q] = since[q]
      BY <1>0, <2>1 DEF Ec2Typed
    <2>4. \A i \in Ec2Tasks : Remembered(i)'
      BY <1>0, <2>1 DEF Remembered, Over
    <2>5. ASSUME NEW q \in Polls PROVE Ec2Reads(q)' /\ \A i \in Ec2Tasks : Probed(q, i)'
      <3>1. \A i \in Ec2Tasks : Probed(q, i)'
        <4>1. poll'[q] \in {poll[q], "idle"}
          BY <2>3
        <4> QED
          BY <1>0, <2>1, <4>1 DEF Probed, E!Alive
      <3>2. CASE q = p
        BY <2>3, <3>2, <3>1 DEF Ec2Reads, E!NotReading
      <3>3. CASE q # p
        BY <1>0, <2>1, <2>2, <2>3, <3>1, <3>3, Ec2ReadsKept
      <3> QED
        BY <3>2, <3>3
    <2>6. since[p] \subseteq listed /\ since[p] # E!NotReading
      <3>1. since[p] \subseteq Ec2Tasks
        BY <1>0, <2>1 DEF Ec2Reads
      <3>2. \A i \in since[p] : probe[p][i] \in {"check", "stays"} /\ snap[p][i] \in E!Alive
        BY <1>0, <2>1 DEF Ec2Reads
      <3> QED
        BY <2>1, <3>1, <3>2, TasksAssumption DEF E!NotReading, E!Alive
    <2>7. E!C!Return(p)
      <3>1. listed \in SUBSET Ec2Tasks
        OBVIOUS
      <3> HIDE DEF listed
      <3> QED
        BY <2>1, <2>2, <2>6, <3>1 DEF E!C!Return, E!C!NotReading, E!NotReading
    <2> QED
      BY <2>3, <2>4, <2>5, <2>7 DEF Ec2Inv, Ec2Contract, E!C!Next
  <1>20. CASE E!Crash
    <2>1. /\ UNCHANGED <<inst, exit>> /\ tracked' = {}
          /\ sub' = [i \in Ec2Tasks |-> IF sub[i] \in {"asked", "launched"} THEN "lost" ELSE sub[i]]
          /\ completed' = [i \in Ec2Tasks |-> "none"]
          /\ poll' = [p \in Polls |-> "idle"]
          /\ snap' = [p \in Polls |-> [i \in Ec2Tasks |-> "none"]]
          /\ probe' = [p \in Polls |-> [i \in Ec2Tasks |-> "none"]]
          /\ since' = [p \in Polls |-> E!NotReading]
          /\ answer' = [p \in Polls |-> E!Nothing]
          /\ cancel' = [i \in Ec2Tasks |-> IF cancel[i] = "called" THEN "none" ELSE cancel[i]]
      BY <1>20 DEF E!Crash, E!aws, E!None, E!Everywhere
    <2>2. Ec2Typed'
      BY <1>0, <2>1 DEF Ec2Typed
    <2>3. \A i \in Ec2Tasks : Remembered(i)'
      BY <1>0, <2>1 DEF Remembered, Over
    <2>4. \A p \in Polls : Ec2Reads(p)' /\ \A i \in Ec2Tasks : Probed(p, i)'
      BY <2>1 DEF Ec2Reads, Probed, E!Alive, E!NotReading
    <2>5. E!job' = E!job
      <3>1. \A i \in Ec2Tasks : E!job'[i] = E!job[i]
        BY <2>1 DEF E!job
      <3> QED
        BY <3>1, Ec2AreFunctions, SameFunction
    <2>6. \E S \in SUBSET Ec2Tasks : E!get_job_stats' =
             [j \in Ec2Tasks |-> IF j \in S THEN "none" ELSE E!get_job_stats[j]]
      <3> WITNESS Ec2Tasks \in SUBSET Ec2Tasks
      <3>1. \A i \in Ec2Tasks : E!get_job_stats'[i] = "none"
        BY <2>1 DEF E!get_job_stats
      <3> QED
        BY <3>1, Ec2AreFunctions
    <2>7. E!C!Restart
      BY <2>1, <2>5, <2>6 DEF E!C!Restart, E!C!NotReading, E!NotReading, E!C!Nothing, E!Nothing
    <2> QED
      BY <2>2, <2>3, <2>4, <2>7 DEF Ec2Inv, Ec2Contract, E!C!Next
  <1> QED
    BY <1>1, <1>2, <1>3, <1>4, <1>6, <1>7, <1>8, <1>9, <1>10, <1>12, <1>13, <1>14, <1>15,
       <1>16, <1>17, <1>18, <1>19, <1>20 DEF E!Next, E!World, E!Step, E!Reading

LEMMA Ec2Begin == E!Init => Ec2Inv /\ E!C!Init
  <1> SUFFICES ASSUME E!Init PROVE Ec2Inv /\ E!C!Init
    OBVIOUS
  <1>1. /\ inst = [i \in Ec2Tasks |-> "none"] /\ exit = inst /\ sub = inst /\ completed = inst
        /\ tracked = {} /\ poll = [p \in Polls |-> "idle"]
        /\ snap = [p \in Polls |-> [i \in Ec2Tasks |-> "none"]] /\ probe = snap
        /\ since = [p \in Polls |-> E!NotReading] /\ answer = [p \in Polls |-> E!Nothing]
        /\ cancel = [i \in Ec2Tasks |-> "none"]
    BY DEF E!Init, E!None, E!Everywhere
  <1>2. Ec2Typed
    BY <1>1 DEF Ec2Typed
  <1>3. \A i \in Ec2Tasks : Remembered(i)
    BY <1>1 DEF Remembered
  <1>4. \A p \in Polls : Ec2Reads(p) /\ \A i \in Ec2Tasks : Probed(p, i)
    BY <1>1 DEF Ec2Reads, Probed, E!Alive, E!NotReading
  <1>5. /\ E!job = [i \in Ec2Tasks |-> "none"]
        /\ E!get_job_stats = [i \in Ec2Tasks |-> "none"]
    BY <1>1 DEF E!job, E!get_job_stats
  <1> QED
    BY <1>1, <1>2, <1>3, <1>4, <1>5
       DEF Ec2Inv, E!C!Init, E!C!NotReading, E!NotReading, E!C!Nothing, E!Nothing

-----------------------------------------------------------------------------
(* The four together; the part that moves keeps its invariant.              *)

BackendsInv ==
    /\ part = "ec2" => Ec2Inv
    /\ part = "local" => LocalInv
    /\ part = "batch" => BatchInv
    /\ part = "cluster" => ClusterInv

BackendsStep ==
    /\ part = "ec2" => E!C!Next \/ UNCHANGED E!C!vars
    /\ part = "local" => L!C!Next \/ UNCHANGED L!C!vars
    /\ part = "batch" => B!C!Next \/ UNCHANGED B!C!vars
    /\ part = "cluster" => K!C!Next \/ UNCHANGED K!C!vars

LEMMA BackendsBegin ==
    Init => /\ BackendsInv
            /\ part = "ec2" => E!C!Init
            /\ part = "local" => L!C!Init
            /\ part = "batch" => B!C!Init
            /\ part = "cluster" => K!C!Init
  BY Ec2Begin, LocalBegin, BatchBegin, ClusterBegin DEF Init, BackendsInv

(* Nothing happens to a backend that does not move.                         *)
LEMMA Ec2Stays == Ec2Inv /\ UNCHANGED Ec2Vars => Ec2Inv'
  <1> SUFFICES ASSUME Ec2Inv, UNCHANGED Ec2Vars PROVE Ec2Inv'
    OBVIOUS
  <1>1. UNCHANGED <<inst, exit, sub, tracked, completed, poll, snap, probe, cancel, since>>
    BY DEF Ec2Vars
  <1>2. \A i \in Ec2Tasks : E!job'[i] = E!job[i]
    BY <1>1, Ec2Same
  <1>3. Ec2Typed' /\ \A i \in Ec2Tasks : Remembered(i)'
    BY <1>1 DEF Ec2Inv, Ec2Typed, Remembered, Over
  <1>4. \A p \in Polls : Ec2Reads(p)'
    BY <1>1, <1>2, Ec2ReadsKept DEF Ec2Inv
  <1>5. \A p \in Polls : \A i \in Ec2Tasks : Probed(p, i)'
    BY <1>1 DEF Ec2Inv, Probed, E!Alive
  <1> QED
    BY <1>3, <1>4, <1>5 DEF Ec2Inv

LEMMA LocalStays == LocalInv /\ UNCHANGED LocalVars => LocalInv'
  <1> SUFFICES ASSUME LocalInv, UNCHANGED LocalVars PROVE LocalInv'
    OBVIOUS
  <1>1. UNCHANGED <<proc, pid, local_exit, launch, meta, rc, look, local_since, local_answer>>
    BY DEF LocalVars
  <1>2. LocalTyped' /\ (\A i \in LocalTasks : FilesBehind(i)') /\ OwnPids'
    BY <1>1 DEF LocalInv, LocalTyped, FilesBehind, OwnPids, L!Running
  <1> QED
    BY <1>1, <1>2, LocalIdle DEF LocalInv, LocalReads

LEMMA BatchStays == BatchInv /\ UNCHANGED BatchVars => BatchInv'
  <1> SUFFICES ASSUME BatchInv, UNCHANGED BatchVars PROVE BatchInv'
    OBVIOUS
  <1>1. UNCHANGED <<mode, want, status, queue, ran, defs, batch_sub, template, _jd_template,
                    cache, batch_at, ids, batch_since>>
    BY DEF BatchVars
  <1>2. \A i \in BatchTasks : B!job'[i] = B!job[i]
    BY <1>1, BatchSame
  <1>3. BatchTyped' /\ BatchDefs' /\ \A i \in BatchTasks : BatchSubmitted(i)'
    BY <1>1 DEF BatchInv, BatchTyped, BatchDefs, HasImage, BatchSubmitted
  <1>4. BatchReads'
    BY <1>1, <1>2 DEF BatchInv, BatchReads, B!NotReading
  <1> QED
    BY <1>3, <1>4 DEF BatchInv

LEMMA ClusterStays == ClusterInv /\ UNCHANGED ClusterVars => ClusterInv'
  <1> SUFFICES ASSUME ClusterInv, UNCHANGED ClusterVars PROVE ClusterInv'
    OBVIOUS
  <1>1. UNCHANGED <<kind, cluster_sub, phase, ending, rows, cluster_at, cluster_since>>
    BY DEF ClusterVars
  <1>2. \A i \in ClusterTasks : K!job'[i] = K!job[i] /\ RowsBehind(i)'
    BY <1>1, ClusterSame DEF ClusterInv
  <1>3. ClusterTyped'
    BY <1>1 DEF ClusterInv, ClusterTyped
  <1>4. ClusterReads'
    BY <1>1, <1>2 DEF ClusterInv, ClusterReads, K!NotReading
  <1> QED
    BY <1>2, <1>3, <1>4 DEF ClusterInv

LEMMA BackendsKept == BackendsInv /\ [Next]_vars => BackendsInv' /\ (vars' # vars => BackendsStep)
  <1> SUFFICES ASSUME BackendsInv, [Next]_vars
               PROVE  BackendsInv' /\ (vars' # vars => BackendsStep)
    OBVIOUS
  <1>1. CASE part = "ec2" /\ E!Next /\ UNCHANGED part
    BY <1>1, Ec2Step DEF BackendsInv, BackendsStep, Ec2Contract
  <1>2. CASE part = "local" /\ L!Next /\ UNCHANGED part
    BY <1>2, LocalStep DEF BackendsInv, BackendsStep, LocalContract
  <1>3. CASE part = "batch" /\ B!Next /\ UNCHANGED part
    BY <1>3, BatchStep DEF BackendsInv, BackendsStep, BatchContract
  <1>4. CASE part = "cluster" /\ K!Next /\ UNCHANGED part
    BY <1>4, ClusterStep DEF BackendsInv, BackendsStep, ClusterContract
  <1>5. CASE UNCHANGED vars
    <2>1. UNCHANGED <<part, Ec2Vars, LocalVars, BatchVars, ClusterVars>>
      BY <1>5 DEF vars
    <2> QED
      BY <1>5, <2>1, Ec2Stays, LocalStays, BatchStays, ClusterStays DEF BackendsInv
  <1> QED
    BY <1>1, <1>2, <1>3, <1>4, <1>5 DEF Next

(* Every backend is what the poller takes it for, whatever fails, crashes   *)
(* or overlaps: get_jobs lists a job that lives all the time it takes, and  *)
(* get_job_stats gives a verdict only after the end, a true one, that no    *)
(* later poll of the same server takes back (backends/base.py).             *)
THEOREM BackendsKeepContract == Spec => Contract
  <1>1. Init => BackendsInv
    BY BackendsBegin
  <1>2. BackendsInv /\ [Next]_vars => BackendsInv'
    BY BackendsKept
  <1>3. BackendsInv /\ [Next]_vars => [BackendsStep]_vars
    BY BackendsKept
  <1>4. Init => /\ part = "ec2" => E!C!Init
                /\ part = "local" => L!C!Init
                /\ part = "batch" => B!C!Init
                /\ part = "cluster" => K!C!Init
    BY BackendsBegin
  <1> QED
    BY <1>1, <1>2, <1>3, <1>4, PTL DEF Spec, Contract, BackendsStep

(* A Batch job runs the image its task asked for, whatever definitions were *)
(* registered or described meanwhile (_jd_revision_for_image).              *)
THEOREM ImageIsTasks == Spec => []RightImage
  <1>1. Init => BackendsInv
    BY BackendsBegin
  <1>2. BackendsInv /\ [Next]_vars => BackendsInv'
    BY BackendsKept
  <1>3. BackendsInv => RightImage
    BY DEF BackendsInv, RightImage, B!RightImage, BatchInv, BatchDefs
  <1> QED
    BY <1>1, <1>2, <1>3, PTL DEF Spec

=============================================================================
