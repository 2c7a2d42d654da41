---------------------------- MODULE BatchBackend ----------------------------
(****************************************************************************)
(* backends/batch.py: jobs of AWS Batch.  submit_task first finds the job   *)
(* definition that carries the task's image, and get_jobs asks for one      *)
(* status after the other; each call of AWS is an await.                    *)
(****************************************************************************)
EXTENDS Naturals, Sequences, FiniteSets

CONSTANTS
    Tasks,
    Images,      \* Base among them
    Base,        \* of the configured definition
    Modes,       \* "revisions", or "auto": no definition is configured
    Pinned,      \* the configuration names a revision
    Faults,      \* what may go wrong
    MaxCrashes   \* bound on the crashes of the server

VARIABLES
    mode, want,      \* the configuration, and the image of each task
    status,          \* AWS: per job, 1 .. 5 for SUBMITTED .. RUNNING, or how it ended
    queue, ran,      \* AWS: the job's queue and image
    defs,            \* AWS: the images of the registered definitions, in order
    sub, template,   \* submit_task, and the definition it has found
    _jd_template, cache,  \* _revision_cache or _job_def_cache: image -> definition
    at, ids,         \* get_jobs: the status it asks for, the jobs found
    since, answer, crashes

aws == <<status, queue, ran, defs>>
submission == <<sub, template, _jd_template, cache>>
reading == <<at, ids, since, answer>>
vars == <<mode, want, aws, submission, reading, crashes>>

NotReading == {"not reading"}
Nothing == {"nothing"}
Idle == 0
NoDef == 0      \* no definition yet, and in a submission: the bare name
Running == 5
Describing == 6
SUCCEEDED == 7
FAILED == 8
Killed == 9     \* FAILED by a cancellation or the timeout
Gone == {SUCCEEDED, FAILED, Killed}

(* In the words of JobBackend; the id is known when submit_job answers.     *)
job == [i \in Tasks |->
    CASE sub[i] # "answered" -> "none"
      [] sub[i] = "answered" /\ status[i] \in 1 .. Running -> "live"
      [] sub[i] = "answered" /\ status[i] = SUCCEEDED -> "succeeded"
      [] sub[i] = "answered" /\ status[i] = FAILED -> "failed"
      [] OTHER -> "killed"]

(* DescribeJobs, of terminal states only.                                   *)
get_job_stats == [i \in Tasks |->
    IF sub[i] # "answered" \/ status[i] \notin Gone THEN "none"
    ELSE IF status[i] = SUCCEEDED THEN "succeeded" ELSE "failed"]

TypeOK ==
    /\ mode \in Modes /\ want \in [Tasks -> Images]
    /\ status \in [Tasks -> 0 .. Killed]
    /\ queue \in [Tasks -> {"own", "other"}]
    /\ ran \in [Tasks -> Images \cup {"none"}] /\ defs \in Seq(Images)
    /\ sub \in [Tasks -> {"none", "describe", "register", "submit", "answered", "refused", "lost"}]
    /\ template \in [Tasks -> 0 .. Len(defs)] /\ cache \in [Images -> 0 .. Len(defs)]
    /\ _jd_template \in 0 .. Len(defs)
    /\ at \in Idle .. Describing /\ ids \subseteq Tasks

NoCache == [m \in Images |-> NoDef]

Init ==
    /\ mode \in Modes /\ want \in [Tasks -> Images]
    /\ status = [i \in Tasks |-> 0] /\ queue = [i \in Tasks |-> "own"]
    /\ ran = [i \in Tasks |-> "none"]
    /\ defs = IF mode = "revisions" THEN <<Base>> ELSE <<>>
    /\ sub = [i \in Tasks |-> "none"] /\ template = [i \in Tasks |-> NoDef]
    /\ _jd_template = NoDef /\ cache = NoCache
    /\ at = Idle /\ ids = {} /\ since = NotReading /\ answer = Nothing /\ crashes = 0

-----------------------------------------------------------------------------
(* AWS.                                                                     *)

Without(i) == IF since = NotReading THEN since ELSE since \ {i}
AwsKept == UNCHANGED <<mode, want, queue, ran, defs, submission, at, ids, answer, crashes>>

Moves(i) ==
    /\ status[i] \in 1 .. Running - 1
    /\ status' = [status EXCEPT ![i] = @ + 1]
    /\ AwsKept /\ UNCHANGED since

(* A further attempt goes back to RUNNABLE.                                 *)
Retried(i) ==
    /\ "retry" \in Faults /\ status[i] = Running
    /\ status' = [status EXCEPT ![i] = 3]
    /\ AwsKept /\ UNCHANGED since

Ends(i) ==
    /\ status[i] = Running
    /\ \E s \in {SUCCEEDED, FAILED, Killed} : status' = [status EXCEPT ![i] = s]
    /\ since' = Without(i) /\ AwsKept

cancel_job(i) ==
    /\ sub[i] = "answered" /\ status[i] \in 1 .. Running
    /\ status' = [status EXCEPT ![i] = Killed]
    /\ since' = Without(i) /\ AwsKept

-----------------------------------------------------------------------------
(* submit_task                                                              *)

SubmitKept == UNCHANGED <<mode, want, reading, crashes>>

(* With the image known the definition is looked up in the cache.           *)
Looked(i, jd) ==
    IF cache[want[i]] # NoDef
    THEN /\ sub' = [sub EXCEPT ![i] = "submit"]
         /\ template' = [template EXCEPT ![i] = cache[want[i]]]
    ELSE /\ sub' = [sub EXCEPT ![i] = "register"]
         /\ UNCHANGED template

(* Mutant: the configured definition, whatever image it has.                *)
_jd_revision_for_image_any(i, jd) ==
    /\ sub' = [sub EXCEPT ![i] = "submit"]
    /\ template' = [template EXCEPT ![i] = IF Pinned THEN 1 ELSE NoDef]

(* The template's own image needs no revision: the configured value it is.  *)
_jd_revision_for_image(i, jd) ==
    IF want[i] = defs[jd]
    THEN /\ sub' = [sub EXCEPT ![i] = "submit"]
         /\ template' = [template EXCEPT ![i] = IF Pinned THEN 1 ELSE NoDef]
    ELSE Looked(i, jd)

submit_task(i) ==
    /\ sub[i] = "none"
    /\ \/ /\ mode = "revisions" /\ _jd_template = NoDef
          /\ sub' = [sub EXCEPT ![i] = "describe"] /\ UNCHANGED template
       \/ mode = "revisions" /\ _jd_template # NoDef /\ _jd_revision_for_image(i, _jd_template)
       \/ mode = "auto" /\ Looked(i, NoDef)
    /\ UNCHANGED <<aws, _jd_template, cache>> /\ SubmitKept

(* A bare name describes all revisions, of which the latest is taken.       *)
_get_jd_template(i) ==
    LET latest == IF Pinned THEN 1 ELSE Len(defs)
    IN  /\ sub[i] = "describe"
        /\ _jd_template' = latest
        /\ _jd_revision_for_image(i, latest)
        /\ UNCHANGED <<aws, cache>> /\ SubmitKept

RegisterJobDefinition(i) ==
    /\ sub[i] = "register"
    /\ defs' = Append(defs, want[i])
    /\ cache' = [cache EXCEPT ![want[i]] = Len(defs')]
    /\ template' = [template EXCEPT ![i] = Len(defs')]
    /\ sub' = [sub EXCEPT ![i] = "submit"]
    /\ UNCHANGED <<status, queue, ran, _jd_template>> /\ SubmitKept

(* A bare name runs the latest revision there is.                           *)
SubmitJob(i) ==
    LET jd == IF template[i] = NoDef THEN Len(defs) ELSE template[i]
    IN  /\ sub[i] = "submit"
        /\ sub' = [sub EXCEPT ![i] = "answered"]
        /\ status' = [status EXCEPT ![i] = 1]
        /\ ran' = [ran EXCEPT ![i] = defs[jd]]
        /\ \E q \in {"own"} \cup (IF "partition" \in Faults THEN {"other"} ELSE {}) :
              queue' = [queue EXCEPT ![i] = q]
        /\ UNCHANGED <<defs, template, _jd_template, cache>> /\ SubmitKept

(* Any of its calls fails.                                                  *)
SubmitFails(i) ==
    /\ sub[i] \in {"describe", "register", "submit"}
    /\ sub' = [sub EXCEPT ![i] = "refused"]
    /\ UNCHANGED <<aws, template, _jd_template, cache>> /\ SubmitKept

-----------------------------------------------------------------------------
(* get_jobs                                                                 *)

ReadKept == UNCHANGED <<mode, want, aws, submission, crashes>>

get_jobs ==
    /\ at = Idle /\ at' = 1 /\ ids' = {}
    /\ since' = {i \in Tasks : job[i] = "live"} /\ answer' = Nothing
    /\ ReadKept

(* Mutant: the statuses in the opposite order.                              *)
Asked_backwards == Running + 1 - at

Asked == at

Listed(s) == {i \in Tasks : queue[i] = "own" /\ status[i] = s}

(* A call that fails leaves its status out, or the jobs it was asked about. *)
ListJobs ==
    /\ at \in 1 .. Running /\ at' = at + 1
    /\ \/ ids' = ids \cup Listed(Asked)
       \/ "list" \in Faults /\ UNCHANGED ids
    /\ UNCHANGED <<since, answer>> /\ ReadKept

DescribeJobs ==
    /\ at = Describing /\ at' = Idle /\ ids' = {}
    /\ answer' \in {ids} \cup (IF "list" \in Faults THEN {{}} ELSE {})
    /\ since' = NotReading
    /\ ReadKept

Crash ==
    /\ crashes < MaxCrashes /\ crashes' = crashes + 1
    /\ sub' = [i \in Tasks |-> IF sub[i] \in {"describe", "register", "submit"} THEN "lost" ELSE sub[i]]
    /\ _jd_template' = NoDef /\ cache' = NoCache
    /\ at' = Idle /\ ids' = {} /\ since' = NotReading /\ answer' = Nothing
    /\ UNCHANGED <<mode, want, aws, template>>

Next ==
    \/ \E i \in Tasks :
          \/ Moves(i) \/ Retried(i) \/ Ends(i) \/ cancel_job(i)
          \/ submit_task(i) \/ _get_jd_template(i) \/ RegisterJobDefinition(i)
          \/ SubmitJob(i) \/ SubmitFails(i)
    \/ get_jobs \/ ListJobs \/ DescribeJobs \/ Crash

Spec == Init /\ [][Next]_vars

-----------------------------------------------------------------------------

One == {"poll"}
C == INSTANCE JobBackend WITH
        Jobs <- Tasks, Polls <- One, verdict <- get_job_stats,
        since <- [p \in One |-> since], answer <- [p \in One |-> answer]

(* No job that lives is missing from a listing that takes five calls, while *)
(* jobs move on; the verdict is the state DescribeJobs ends in.             *)
Contract == C!Spec

(* A job runs the image its task asked for, whatever definitions were       *)
(* registered or described meanwhile (the docstring of                      *)
(* _jd_revision_for_image, batch.py:453).                                   *)
RightImage == \A i \in Tasks : ran[i] \in {"none", want[i]}

=============================================================================
