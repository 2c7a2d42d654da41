-------------------------------- MODULE Shared --------------------------------
(* What outlives a run or is shared by several, side by side: the run files *)
(* and the usage ledger, the result cache, the clones that runs are created *)
(* from, the daemon's pidfile, the stacks.  They share no variable; in a    *)
(* behaviour one of them moves.                                             *)
EXTENDS Naturals, FiniteSets

CONSTANTS
    FileRuns, MaxStamp,                                     \* Storage
    CacheRuns, DirOf, CommitOf, Scope, Patterns, Optional,  \* ResultCache
    Versions, CacheFaults, MaxEdits, MaxReruns,
    Requests, Branches, Main, Kinds, Keyed, HasPostclone,   \* RunCreation
    MaxPush,
    Pids, Starters, Stoppers, MaxAccidents,                 \* Daemon
    BySsh, ByTask, Hashes, Steps                            \* Stacks

VARIABLES part,
          up, mem, dirty, files, stamps, aged, jobs, ledger, glued, known,
          lost, trouble, deleted,
          inputs, outs, spoiled, ac, cas, item, job, edits, reruns,
          tip, pushed, past, clone, cached, dirs, keys, failed, req, runs,
          proc, port, pidfile, cmd, told, accidents,
          dir, current, inst

F == INSTANCE Storage WITH
        Runs <- FileRuns

C == INSTANCE ResultCache WITH
        Runs <- CacheRuns, Faults <- CacheFaults, Quiet <- TRUE

K == INSTANCE RunCreation

P == INSTANCE Daemon WITH
        Overlap <- FALSE

S == INSTANCE Stacks WITH
        Overlap <- FALSE, Unreliable <- FALSE

-----------------------------------------------------------------------------
(* What the proofs assume of the constants.                                 *)

ASSUME FilesAssumption == MaxStamp \in Nat

(* Runs that share a directory are of one commit: the clone is named by it, *)
(* and a path source has none.  The task has an input that must be there;   *)
(* hash_inputs does not fail, and accounting answers for a job.             *)
ASSUME CacheAssumption ==
    /\ \A r, x \in CacheRuns : DirOf[r] = DirOf[x] => CommitOf[r] = CommitOf[x]
    /\ Patterns \ Optional # {}
    /\ {"hash", "unconfirmed"} \cap CacheFaults = {}

ASSUME ClonesAssumption ==
    /\ IsFiniteSet(Branches) /\ Main \in Branches
    /\ Kinds \subseteq K!AllKinds /\ MaxPush \in Nat

ASSUME DaemonAssumption ==
    /\ Pids \subseteq Nat \ {0}
    /\ Starters \cap Stoppers = {}

ASSUME StacksAssumption == Hashes # {} /\ Steps \in Nat

-----------------------------------------------------------------------------
(* What stands still starts in one state only.                              *)
Init ==
    /\ part \in {"files", "cache", "clones", "daemon", "stacks"}
    /\ part = "cache" \/ inputs = CHOOSE m \in [C!Dirs -> C!InputMaps] : TRUE
    /\ part = "stacks" \/ current = CHOOSE h \in Hashes : TRUE
    /\ F!Init
    /\ C!Init
    /\ K!Init
    /\ P!Init
    /\ S!Init

FilesVars ==
    <<up, mem, dirty, files, stamps, aged, jobs, ledger, glued, known, lost,
      trouble, deleted>>

CacheVars ==
    <<inputs, outs, spoiled, ac, cas, item, job, edits, reruns>>

ClonesVars ==
    <<tip, pushed, past, clone, cached, dirs, keys, failed, req, runs>>

DaemonVars ==
    <<proc, port, pidfile, cmd, told, accidents>>

StacksVars ==
    <<dir, current, inst>>

Next ==
    \/ /\ part = "files" /\ F!Next
       /\ UNCHANGED <<part, CacheVars, ClonesVars, DaemonVars, StacksVars>>
    \/ /\ part = "cache" /\ C!Next
       /\ UNCHANGED <<part, FilesVars, ClonesVars, DaemonVars, StacksVars>>
    \/ /\ part = "clones" /\ K!Next
       /\ UNCHANGED <<part, FilesVars, CacheVars, DaemonVars, StacksVars>>
    \/ /\ part = "daemon" /\ P!Next
       /\ UNCHANGED <<part, FilesVars, CacheVars, ClonesVars, StacksVars>>
    \/ /\ part = "stacks" /\ S!Next
       /\ UNCHANGED <<part, FilesVars, CacheVars, ClonesVars, DaemonVars>>

vars == <<part, FilesVars, CacheVars, ClonesVars, DaemonVars, StacksVars>>

Spec == Init /\ [][Next]_vars

-----------------------------------------------------------------------------
(* A submission of a run has at most one job, across crashes and restarts.  *)
SubmittedOnce == part = "files" => F!SubmittedOnce

(* A run's file is not removed before its usage is in the ledger.           *)
UsageKept == F!UsageKept

(* A result from the cache is what the job would have computed, unless it   *)
(* was stored while another run was overwriting it.                         *)
HitIsTrue == C!HitIsTrue

(* No deploy key is left on the backend.                                    *)
KeysRemoved == part = "clones" => K!KeysRemoved

(* "daemon stop" finds the server that was reported to run.                 *)
PidfileNamesServer == part = "daemon" => P!PidfileNamesServer

(* A stack that says it is ready holds all of its steps.                    *)
ReadyIsWhole == part = "stacks" => S!ReadyIsWhole
=============================================================================
