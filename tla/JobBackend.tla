----------------------------- MODULE JobBackend -----------------------------
(****************************************************************************)
(* What the poller relies on, of any backend (backends/base.py): get_jobs   *)
(* lists the jobs that are alive, and get_job_stats gives a verdict that is *)
(* true and that stands.  The backends' modules are shown to implement it.  *)
(* A restart of the server may cost what a backend keeps in memory.         *)
(****************************************************************************)

CONSTANTS Jobs, Polls   \* calls of get_jobs that may overlap

VARIABLES
    job,      \* what is true of a job
    verdict,  \* what get_job_stats would say of it now
    since,    \* per running get_jobs: the jobs alive since it was called
    answer    \* what each returned, until it is called again

vars == <<job, verdict, since, answer>>

Ended == {"succeeded", "failed", "killed"}
NotReading == {"not reading"}
Nothing == {"nothing"}       \* get_jobs has not returned yet
Live == {j \in Jobs : job[j] = "live"}

Init ==
    /\ job = [j \in Jobs |-> "none"] /\ verdict = [j \in Jobs |-> "none"]
    /\ since = [p \in Polls |-> NotReading] /\ answer = [p \in Polls |-> Nothing]

(* What may be said of a job once it is over: how it ended, or nothing.     *)
True(e, v) ==
    /\ e \in Ended
    /\ v \in {"lost", e} \/ (v = "failed" /\ e = "killed")

(* A job's verdict may be there as soon as it ends.                         *)
Becomes(j, e) ==
    /\ job' = [job EXCEPT ![j] = e]
    /\ \E v \in {"none", "succeeded", "failed", "lost"} :
          /\ v # "none" => True(e, v)
          /\ verdict' = [verdict EXCEPT ![j] = v]

(* When its id is known a job may be over.                                  *)
Start(j) ==
    /\ job[j] = "none" /\ \E e \in {"live"} \cup Ended : Becomes(j, e)
    /\ UNCHANGED <<since, answer>>

Without(j) == [p \in Polls |-> IF since[p] = NotReading THEN NotReading ELSE since[p] \ {j}]

End(j) ==
    /\ job[j] = "live" /\ \E e \in Ended : Becomes(j, e)
    /\ since' = Without(j)
    /\ UNCHANGED answer

(* It stands; only one that says nothing may still be replaced.             *)
Judge ==
    /\ verdict' \in [Jobs -> {"none", "succeeded", "failed", "lost"}]
    /\ \A j \in Jobs : verdict'[j] # verdict[j] =>
           verdict[j] \in {"none", "lost"} /\ True(job[j], verdict'[j])
    /\ UNCHANGED <<job, since, answer>>

Call(p) ==
    /\ since[p] = NotReading /\ since' = [since EXCEPT ![p] = Live]
    /\ answer' = [answer EXCEPT ![p] = Nothing]
    /\ UNCHANGED <<job, verdict>>

(* get_jobs may list too much, but lists what was alive all the time.       *)
Return(p) ==
    /\ since[p] # NotReading /\ since' = [since EXCEPT ![p] = NotReading]
    /\ \E S \in SUBSET Jobs : since[p] \subseteq S /\ answer' = [answer EXCEPT ![p] = S]
    /\ UNCHANGED <<job, verdict>>

Restart ==
    /\ \E S \in SUBSET Jobs :
          verdict' = [j \in Jobs |-> IF j \in S THEN "none" ELSE verdict[j]]
    /\ since' = [p \in Polls |-> NotReading] /\ answer' = [p \in Polls |-> Nothing]
    /\ UNCHANGED job

Next ==
    \/ \E j \in Jobs : Start(j) \/ End(j)
    \/ \E p \in Polls : Call(p) \/ Return(p)
    \/ Judge \/ Restart

Spec == Init /\ [][Next]_vars

=============================================================================
