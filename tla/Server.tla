------------------------------- MODULE Server -------------------------------
(* Components of the running server that share no state with one another,   *)
(* side by side: the dispatch of small runs, the announcements and pages,   *)
(* the SSH connection, the disk service, the bins of external jobs.  In a   *)
(* behaviour one of them moves.                                             *)
EXTENDS DiskRules

CONSTANTS
    Run, NumItems, RunOf, Deps, Coro, NoRun, BackendMax, RunMax, \* Dispatch
    DispatchRequests, Cached, Faults, Lossy, MaxLost,
    PageRuns, Tasks, ListPages, RunPages,                        \* Events
    Callers, Terminals, Conns, MaxSessions, MaxRefusals,         \* Connection
    Reqs, DiskRuns, RunShape, Dirs, Edits, Configs, Home,        \* Disk
    PathLists, MaxWorld,
    Jobs, Managed, Weeks, WeekOf, MaxCrashes                     \* ExternalJobs

VARIABLES part,
          phase, st, unsure, mine, lost, co, cycle,
          items, creating, _run_status, _notified_failures, seen, done,
          failed, page, fresh,
          conn, current, lock, at, on, host, wait, delay, refused,
          files, ready, git, late, mem, stored, config, results, report, task,
          callbacks, req, bg, last, world,
          queue, owned, filtered, week, cache, store, dirty, view, poll,
          cancels, crashes

D == INSTANCE Dispatch WITH
        Requests <- DispatchRequests, poll <- cycle

V == INSTANCE Events WITH
        Runs <- PageRuns, Interleaved <- FALSE, ApiReruns <- FALSE

N == INSTANCE Connection

U == INSTANCE Disk WITH
        Runs <- DiskRuns, Prompt <- TRUE

X == INSTANCE ExternalJobs

-----------------------------------------------------------------------------
(* What the proofs assume of the constants.                                 *)

(* create_run refuses a workflow without tasks.                             *)
ASSUME PagesAssumption == Tasks # {}

ASSUME ConnectionAssumption ==
    /\ IsFiniteSet(Conns) /\ Conns \subseteq Nat \ {0} /\ 1 \in Conns
    /\ "free" \notin Callers \cup Terminals

(* No request is called like the empty slot.  Agent workspaces are named as *)
(* such, and the roots of no configuration nest so that one of them could   *)
(* pass for a stack or a log: _safety_reason goes by depth and name only.   *)
ASSUME DiskAssumption ==
    /\ "none" \notin Reqs
    /\ \A p \in Edits : U!LastName(p) \in AgentNames
    /\ \A p \in Edits, c \in Configs, kind \in {"stack", "log"} :
          ~U!Safe([path |-> p, kind |-> kind], U!Spec4(c), Home)

(* Where runs work: a recorded commit is a hash, the clone roots of a       *)
(* configuration do not nest, and nothing of a run lies in what could pass  *)
(* for a stack, nor anything but logs in what could pass for a log.         *)
ASSUME RunsAssumption ==
    /\ Home \in Seq(STRING) /\ Dirs \subseteq Seq(STRING)
    /\ "none" \notin HashNames \cup AgentNames
    /\ \A r \in DiskRuns :
          /\ RunShape[r].commit \in HashNames \cup {"none"}
          /\ RunShape[r].log \in Seq(STRING)
          /\ \A w \in RunShape[r].wds : w \in Seq(STRING) /\ w # <<>>
    /\ \A c \in Configs : c.clone \in Seq(Seq(STRING))
    /\ \A c \in Configs : \A a, b \in U!ToSet(U!Roots(c.clone, Home)) :
          a \in Seq(STRING) /\ ~U!IsStrictPrefix(a, b)
    /\ \A c \in Configs, r \in DiskRuns, d \in Dirs :
          /\ U!Safe([path |-> d, kind |-> "stack"], U!Spec4(c), Home) => ~U!UsedBy(r, d)
          /\ U!Safe([path |-> d, kind |-> "log"], U!Spec4(c), Home) /\ U!UsedBy(r, d) =>
                /\ RunShape[r].log # NoPath
                /\ U!IsPrefix(d, U!normalize_remote_path(RunShape[r].log, Home))

(* No root of a configuration lies inside one whose entries are deleted:    *)
(* nothing in config_schema.py demands it.                                  *)
RootsSeparate ==
    \A c \in Configs :
        LET spec    == U!Spec4(c)
            cleaned == spec.clone \o spec.stack \o spec.log
            RootsIn(dirs) == U!ToSet(U!Roots(dirs, Home))
        IN  /\ {spec.clone, spec.stack, spec.log, spec.cache} \subseteq Seq(Seq(STRING))
            /\ RootsIn(cleaned \o spec.cache) \subseteq Seq(STRING)
            /\ \A a \in RootsIn(cleaned), b \in RootsIn(cleaned \o spec.cache) :
                  ~U!IsStrictPrefix(a, b)

-----------------------------------------------------------------------------
Init ==
    /\ part \in {"runs", "pages", "ssh", "disk", "external"}
    /\ part = "ssh" \/ (current = 0 /\ host = "down")
    /\ part = "disk" \/ (config = CHOOSE c \in Configs : TRUE)
    /\ D!Init
    /\ V!Init
    /\ N!Init
    /\ U!Init
    /\ X!Init

RunsVars ==
    <<phase, st, unsure, mine, lost, co, cycle>>

PagesVars ==
    <<items, creating, _run_status, _notified_failures, seen, done, failed,
      page, fresh>>

SshVars ==
    <<conn, current, lock, at, on, host, wait, delay, refused>>

DiskVars ==
    <<files, ready, git, late, mem, stored, config, results, report, task,
      callbacks, req, bg, last, world>>

ExternalVars ==
    <<queue, owned, filtered, week, cache, store, dirty, view, poll,
      cancels, crashes>>

Next ==
    \/ /\ part = "runs" /\ D!Next
       /\ UNCHANGED <<part, PagesVars, SshVars, DiskVars, ExternalVars>>
    \/ /\ part = "pages" /\ V!Next
       /\ UNCHANGED <<part, RunsVars, SshVars, DiskVars, ExternalVars>>
    \/ /\ part = "ssh" /\ N!Next
       /\ UNCHANGED <<part, RunsVars, PagesVars, DiskVars, ExternalVars>>
    \/ /\ part = "disk" /\ U!Next
       /\ UNCHANGED <<part, RunsVars, PagesVars, SshVars, ExternalVars>>
    \/ /\ part = "external" /\ X!Next
       /\ UNCHANGED <<part, RunsVars, PagesVars, SshVars, DiskVars>>

vars == <<part, RunsVars, PagesVars, SshVars, DiskVars, ExternalVars>>

Spec == Init /\ [][Next]_vars

-----------------------------------------------------------------------------
(* Every run that was created finishes, also one that waits for a slot      *)
(* another run holds.                                                       *)
EveryRunFinishes == part = "runs" /\ D!Fairness => D!EveryRunFinishes

(* An end is announced exactly once, a task's failure at most once.         *)
AnnouncedOnce == part = "pages" => V!AnnouncedOnce

(* A page of a list shows the present state again and again.                *)
ListCatchesUp == part = "pages" /\ V!Fairness => V!ListCatchesUp

(* One open connection, and one more for each refused channel.              *)
OneMorePerRefusal == part = "ssh" => N!OneMorePerRefusal

(* A backend whose server stays up is connected again and again.            *)
Reconnects == part = "ssh" /\ N!Fairness => N!Reconnects

(* One background task at a time.                                           *)
SingleFlight == part = "disk" => U!SingleFlight

(* What active runs work in is planned for no deletion.                     *)
PlanSparesActive == U!PlanSparesActive

(* Agent workspaces whose work was there for the git check survive.         *)
DirtyWorkSurvives == U!DirtyWorkSurvives

(* A bin's running job that has left the queue is recorded as ended.        *)
RunningSettles == part = "external" /\ X!Fairness => X!RunningSettles
=============================================================================
