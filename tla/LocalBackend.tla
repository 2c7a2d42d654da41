---------------------------- MODULE LocalBackend ----------------------------
(****************************************************************************)
(* backends/local.py: a supervisor shell per job, which runs the script and *)
(* then records its exit code.  What is alive is told by the record and the *)
(* supervisor's pid, so that jobs outlive the server; get_jobs never awaits *)
(* but processes go on while it looks at one file after the other.          *)
(****************************************************************************)
EXTENDS Naturals, FiniteSets

CONSTANTS
    Tasks,
    Pids,        \* the system's process ids, which it uses again
    MaxCrashes   \* bound on the crashes of the server

NoPid == 0
NotReading == {"not reading"}
Nothing == {"nothing"}

VARIABLES
    proc,     \* the supervisor: not started, runs the script, has its exit code, gone
    pid,      \* its pid
    exit,     \* how the script ended
    others,   \* pids held by processes of nobody here
    launch,   \* _launch
    meta,     \* the pid in the job's metadata file
    rc,       \* the exit code's file
    look,     \* get_jobs: per job, how far it is
    since, answer, crashes

files == <<meta, rc>>
system == <<proc, pid, exit, others>>
reading == <<look, since, answer>>
vars == <<system, launch, files, reading, crashes>>

(* What is true of a job, in the words of JobBackend; without metadata the  *)
(* server gave it no id.                                                    *)
job == [i \in Tasks |->
    CASE meta[i] = NoPid -> "none"
      [] meta[i] # NoPid /\ exit[i] = "0" -> "succeeded"
      [] meta[i] # NoPid /\ exit[i] = "1" -> "failed"
      [] meta[i] # NoPid /\ exit[i] = "none" /\ proc[i] = "gone" -> "killed"
      [] OTHER -> "live"]

TypeOK ==
    /\ proc \in [Tasks -> {"none", "script", "record", "gone"}]
    /\ pid \in [Tasks -> Pids \cup {NoPid}] /\ meta \in [Tasks -> Pids \cup {NoPid}]
    /\ others \subseteq Pids
    /\ launch \in [Tasks -> {"none", "spawned", "answered", "lost"}]
    /\ exit \in [Tasks -> {"none", "0", "1"}] /\ rc \in [Tasks -> {"none", "0", "1"}]
    /\ look \in [Tasks -> {"idle", "record", "pid", "listed", "passed"}]

Idle == [i \in Tasks |-> "idle"]
Served == look = Idle   \* the event loop is not inside get_jobs

Init ==
    /\ proc = [i \in Tasks |-> "none"] /\ pid = [i \in Tasks |-> NoPid]
    /\ exit = [i \in Tasks |-> "none"] /\ others = {}
    /\ launch = [i \in Tasks |-> "none"]
    /\ meta = [i \in Tasks |-> NoPid] /\ rc = [i \in Tasks |-> "none"]
    /\ look = Idle /\ since = NotReading /\ answer = Nothing /\ crashes = 0

Running(i) == proc[i] \in {"script", "record"}
Taken == others \cup {pid[i] : i \in {k \in Tasks : Running(k)}}
Without(E) == IF since = NotReading THEN since ELSE since \ E

-----------------------------------------------------------------------------
(* Processes.                                                               *)

ScriptExits(i) ==
    /\ proc[i] = "script" /\ proc' = [proc EXCEPT ![i] = "record"]
    /\ \E code \in {"0", "1"} : exit' = [exit EXCEPT ![i] = code]
    /\ since' = Without({i})
    /\ UNCHANGED <<pid, others, launch, files, look, answer, crashes>>

(* The temporary file is moved into its place, and the supervisor ends.     *)
RecordMoved(i) ==
    /\ proc[i] = "record"
    /\ rc' = [rc EXCEPT ![i] = exit[i]]
    /\ proc' = [proc EXCEPT ![i] = "gone"]
    /\ UNCHANGED <<pid, exit, others, launch, meta, reading, crashes>>

Kill(G) ==
    /\ proc' = [k \in Tasks |-> IF k \in G THEN "gone" ELSE proc[k]]
    /\ since' = Without(G)

KilledOutside(i) ==
    /\ Running(i) /\ Kill({i})
    /\ UNCHANGED <<pid, exit, others, launch, files, look, answer, crashes>>

OtherStarts(p) ==
    /\ p \notin Taken /\ others' = others \cup {p}
    /\ UNCHANGED <<proc, pid, exit, launch, files, reading, crashes>>

OtherEnds(p) ==
    /\ p \in others /\ others' = others \ {p}
    /\ UNCHANGED <<proc, pid, exit, launch, files, reading, crashes>>

-----------------------------------------------------------------------------
(* _launch: the process, an await, then the metadata.                       *)

Spawned(i) ==
    /\ Served /\ launch[i] = "none"
    /\ \E p \in Pids \ Taken : pid' = [pid EXCEPT ![i] = p]
    /\ launch' = [launch EXCEPT ![i] = "spawned"] /\ proc' = [proc EXCEPT ![i] = "script"]
    /\ UNCHANGED <<exit, others, files, reading, crashes>>

_launch(i) ==
    /\ Served /\ launch[i] = "spawned"
    /\ launch' = [launch EXCEPT ![i] = "answered"]
    /\ meta' = [meta EXCEPT ![i] = pid[i]]
    /\ UNCHANGED <<system, rc, reading, crashes>>

(* killpg: the group of that pid, whoever has it now.                       *)
cancel_job(i) ==
    /\ Served /\ meta[i] # NoPid
    /\ Kill({k \in Tasks : Running(k) /\ pid[k] = meta[i]})
    /\ others' = others \ {meta[i]}
    /\ UNCHANGED <<pid, exit, launch, files, look, answer, crashes>>

-----------------------------------------------------------------------------
(* get_jobs: for each metadata file, the record first and then the pid.     *)

get_jobs ==
    /\ Served /\ since = NotReading
    /\ since' = {i \in Tasks : job[i] = "live"} /\ answer' = Nothing
    /\ look' = [i \in Tasks |-> IF meta[i] = NoPid THEN "passed" ELSE "record"]
    /\ UNCHANGED <<system, launch, files, crashes>>

Sees(i, from, to) == look[i] = from /\ look' = [look EXCEPT ![i] = to]

(* A record is listed for a quarter of an hour.                              *)
rc_exists(i) ==
    /\ \/ rc[i] # "none" /\ \E to \in {"listed", "passed"} : Sees(i, "record", to)
       \/ rc[i] = "none" /\ Sees(i, "record", "pid")
    /\ UNCHANGED <<system, launch, files, since, answer, crashes>>

(* Mutant: asks the handle of this process instead of the system.           *)
_pid_alive_by_handle(i) == meta[i] \in Taken /\ crashes = 0

_pid_alive(i) == meta[i] \in Taken

Pid(i) ==
    /\ Sees(i, "pid", IF _pid_alive(i) THEN "listed" ELSE "passed")
    /\ UNCHANGED <<system, launch, files, since, answer, crashes>>

Return ==
    /\ ~Served /\ \A i \in Tasks : look[i] \in {"listed", "passed"}
    /\ answer' = {i \in Tasks : look[i] = "listed"}
    /\ since' = NotReading /\ look' = Idle
    /\ UNCHANGED <<system, launch, files, crashes>>

(* Mutant: a job that is gone without a record has failed.                  *)
get_job_stats_guess == [i \in Tasks |->
    IF rc[i] = "none" /\ meta[i] # NoPid /\ proc[i] = "gone" THEN "failed"
    ELSE IF rc[i] = "0" THEN "succeeded" ELSE IF rc[i] = "1" THEN "failed" ELSE "none"]

get_job_stats == [i \in Tasks |->
    CASE meta[i] # NoPid /\ rc[i] = "0" -> "succeeded"
      [] meta[i] # NoPid /\ rc[i] = "1" -> "failed"
      [] OTHER -> "none"]

Crash ==
    /\ crashes < MaxCrashes /\ crashes' = crashes + 1
    /\ launch' = [i \in Tasks |-> IF launch[i] = "spawned" THEN "lost" ELSE launch[i]]
    /\ look' = Idle /\ since' = NotReading /\ answer' = Nothing
    /\ UNCHANGED <<system, files>>

Next ==
    \/ \E i \in Tasks :
          \/ ScriptExits(i) \/ RecordMoved(i) \/ KilledOutside(i)
          \/ Spawned(i) \/ _launch(i) \/ cancel_job(i)
          \/ rc_exists(i) \/ Pid(i)
    \/ \E p \in Pids : OtherStarts(p) \/ OtherEnds(p)
    \/ get_jobs \/ Return \/ Crash

Spec == Init /\ [][Next]_vars

-----------------------------------------------------------------------------

One == {"poll"}
C == INSTANCE JobBackend WITH
        Jobs <- Tasks, Polls <- One, verdict <- get_job_stats,
        since <- [p \in One |-> since], answer <- [p \in One |-> answer]

(* A job that runs is listed by every get_jobs, whatever the server forgot  *)
(* in between, and its exit code is not known before it has ended, is the   *)
(* script's, and stays.                                                     *)
Contract == C!Spec

(* cancel_job ends the processes of its own job and no other (the docstring *)
(* of cancel_job, local.py:367); a pid that is in use again breaks it.      *)
CancelsOwnJob ==
    [][\A i \in Tasks : cancel_job(i) =>
         /\ others' = others
         /\ \A k \in Tasks \ {i} : proc'[k] = proc[k]]_vars

=============================================================================
