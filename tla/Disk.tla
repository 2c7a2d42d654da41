-------------------------------- MODULE Disk --------------------------------
(****************************************************************************)
(* The disk service of one backend: the HTTP handlers that start a scan or  *)
(* a cleanup, the background task each of them may create, and the last     *)
(* result and report the pages show.  (disk/service.py with its routes in   *)
(* api.py and main.py)                                                      *)
(*                                                                          *)
(* The server is one asyncio loop, so a step is the code between two        *)
(* awaits.  A handler waits for the project files and for the stored runs;  *)
(* a task waits for its SSH commands.  Everything may change in between:    *)
(* runs, the remote directories, the configuration, the other handlers.     *)
(****************************************************************************)
EXTENDS DiskRules

CONSTANTS
    Reqs,       \* the requests that arrive, each handled once
    Runs,       \* the runs of the server
    RunShape,   \* run -> [commit, wds, log], fixed when it is created
    Dirs,       \* the remote directories that may exist
    Edits,      \* the agent workspaces among them that people edit
    Configs,    \* the configurations a reload switches between
    Home,       \* the remote home directory
    PathLists,  \* what a cleanup request may name (Bulk or sets of paths)
    MaxWorld,   \* bound: how often the world around the service changes
    Prompt      \* a task's done callback runs before any handler goes on

VARIABLES
    files, ready, git,  \* remote: directories, stacks with .ready, git state
    late,               \* edits a deletion's git check was too early for (history)
    mem, stored,        \* runs in memory and in the run files
    config,             \* state.config
    results, report,    \* _results[backend], _cleanups[backend]
    task, callbacks,    \* _tasks[backend]; tasks whose done callback is due
    req, bg,            \* the handlers and the background tasks
    last,               \* the task created last (history)
    world               \* changes of the world so far (bounded by MaxWorld)

remote == <<files, ready, git, late>>
runs   == <<mem, stored>>
cache  == <<results, report>>
vars   == <<remote, runs, config, cache, task, callbacks, req, bg, last, world>>

NoTask   == "none"
NoResult == [by |-> NoTask]
Idle     == [pc |-> "none"]

\* "unreadable": a repository in which git status and git log fail.
GitStates == {"clean", "dirty", "unpushed", "nogit", "unreadable"}

\* The roots and the declared stacks of a configuration: a handler computes
\* them from the copy it was called with.
Spec4(c) == build_scan_spec(c.clone, c.stacks, "b", c.logs, c.caches)
DeclaredBy(c) == {<<c.stacks[i].name, c.stacks[i].hash>> : i \in DOMAIN c.stacks}

\* The run files win over memory.
gather_all_runs_disk_wins ==
    LET st(r) == IF stored[r] # "absent" THEN stored[r] ELSE mem[r]
    IN  {[id |-> r, active |-> st(r) = "active", commit |-> RunShape[r].commit,
          wds |-> RunShape[r].wds, log |-> RunShape[r].log] :
            r \in {x \in Runs : st(x) # "absent"}}

\* Union of the stored runs and of those in memory, memory winning.
gather_all_runs ==
    LET st(r) == IF mem[r] # "absent" THEN mem[r] ELSE stored[r]
    IN  {[id |-> r, active |-> st(r) = "active", commit |-> RunShape[r].commit,
          wds |-> RunShape[r].wds, log |-> RunShape[r].log] :
            r \in {x \in Runs : st(x) # "absent"}}

Busy == task # NoTask /\ bg[task].pc # "done"

Init ==
    /\ files = {} /\ ready = {} /\ git = [p \in Edits |-> "clean"] /\ late = {}
    /\ mem = [r \in Runs |-> "absent"] /\ stored = mem
    /\ config \in Configs
    /\ results = NoResult /\ report = NoResult
    /\ task = NoTask /\ callbacks = {} /\ last = NoTask /\ world = 0
    /\ req = [q \in Reqs |-> Idle] /\ bg = [q \in Reqs |-> Idle]

-----------------------------------------------------------------------------
(* The handlers.  A handler that looks at the task slot may run between the *)
(* end of a task and its done callback only when Prompt does not hold.      *)

MayHandle == Prompt => callbacks = {}
Answer(q, a) == req' = [req EXCEPT ![q] = [pc |-> a]]
Others == UNCHANGED <<remote, runs, config>>

NoSsh(q) == Answer(q, "no_ssh") /\ UNCHANGED <<bg, task, last>>

\* start_scan_for_backend up to its first await.
BeginScan(q) ==
    /\ IF Busy THEN Answer(q, "already_running")
       ELSE req' = [req EXCEPT ![q] = [pc |-> "scan_gather", config |-> config]]
    /\ UNCHANGED <<bg, task, last>>

\* POST /api/v1/disk/scan.
scan_disk_v1(q) ==
    /\ req[q] = Idle /\ MayHandle
    /\ NoSsh(q) \/ BeginScan(q)
    /\ Others /\ UNCHANGED <<cache, callbacks>>

\* start_clean_for_backend up to its first await: no task may be running and
\* a scan must be cached, and that scan is the one planned from.
BeginClean(q, paths, allow) ==
    /\ IF Busy THEN Answer(q, "already_running")
       ELSE IF results = NoResult THEN Answer(q, "no_scan")
       ELSE req' = [req EXCEPT ![q] = [pc |-> "plan", config |-> config, scan |-> results,
                                       paths |-> paths, allow |-> allow]]
    /\ UNCHANGED <<bg, task, last>>

\* POST /api/v1/disk/clean, bulk or with explicit paths (a dry run changes
\* nothing).
clean_disk_v1(q) ==
    /\ req[q] = Idle /\ MayHandle
    /\ \/ NoSsh(q)
       \/ \E paths \in PathLists :
             \E allow \in IF paths = Bulk THEN {{}} ELSE {{}, paths} :
                 BeginClean(q, paths, allow)
    /\ Others /\ UNCHANGED <<cache, callbacks>>

\* _start without looking at the slot.
StartTask_unguarded(q, body) ==
    /\ Answer(q, "started")
    /\ bg' = [bg EXCEPT ![q] = body]
    /\ task' = q /\ last' = q

\* _start: refused while a task runs; otherwise the task takes the slot.
StartTask(q, body) ==
    IF Busy THEN Answer(q, "already_running") /\ UNCHANGED <<bg, task, last>>
    ELSE /\ Answer(q, "started")
         /\ bg' = [bg EXCEPT ![q] = body]
         /\ task' = q /\ last' = q

\* start_scan_for_backend after its awaits.
start_scan_for_backend(q) ==
    /\ req[q].pc = "scan_gather" /\ MayHandle
    /\ StartTask(q, [pc |-> "scan", kind |-> "scan", config |-> req[q].config,
                     runs |-> gather_all_runs])
    /\ Others /\ UNCHANGED <<cache, callbacks>>

\* plan_cleanup_for_backend after its awaits: the cached scan of the request
\* against the runs of now.
plan_cleanup_for_backend(q) ==
    /\ req[q].pc = "plan"
    /\ LET c    == req[q].config
           spec == Spec4(c)
           refs == build_run_references(gather_all_runs, spec, req[q].scan.home)
           plan == plan_cleanup(req[q].scan, refs, DeclaredBy(c), spec,
                                req[q].paths, req[q].allow)
       IN  IF plan.errors THEN Answer(q, "invalid")
           ELSE IF to_delete(plan) = {} THEN Answer(q, "nothing_to_clean")
           ELSE req' = [req EXCEPT ![q] = [pc |-> "launch", config |-> c, plan |-> plan]]
    /\ Others /\ UNCHANGED <<cache, callbacks, bg, task, last>>

\* start_clean_for_backend after its last await.
start_clean_for_backend(q) ==
    /\ req[q].pc = "launch" /\ MayHandle
    /\ StartTask(q, [pc |-> IF req[q].plan.check # {} THEN "check" ELSE "delete",
                     kind |-> "clean", config |-> req[q].config, plan |-> req[q].plan,
                     targets |-> {e.path : e \in req[q].plan.delete}])
    /\ Others /\ UNCHANGED <<cache, callbacks>>

-----------------------------------------------------------------------------
(* The background tasks.                                                    *)

Paths(es) == {e.path : e \in es}

\* The task ends and its result is cached by its done callback.
Finish_late(q, result) ==
    /\ results' = results
    /\ bg' = [bg EXCEPT ![q] = [pc |-> "done", kind |-> bg[q].kind]]
    /\ callbacks' = callbacks \cup {q}

\* _run_and_store: the result is cached in the step that ends the task.
Finish(q, result) ==
    /\ results' = result
    /\ bg' = [bg EXCEPT ![q] = [pc |-> "done", kind |-> bg[q].kind]]
    /\ callbacks' = callbacks \cup {q}

\* scan_backend: one SSH round trip, which may fail (a result with errors
\* only) or break off after some of the lines.
scan_backend(q) ==
    /\ bg[q].pc = "scan"
    /\ LET spec  == Spec4(bg[q].config)
           lines == ScanLines(files, ready, spec, Home)
           refs  == build_run_references(bg[q].runs, spec, Home)
           Res(ls, err) == [by |-> q, home |-> Home, errors |-> err,
                            entries |-> classify_entries(raw_to_entries(ls), refs,
                                                         DeclaredBy(bg[q].config))]
       IN  \/ Finish(q, Res(lines, FALSE))
           \/ \E l \in lines : Finish(q, Res(lines \ {l}, TRUE))
           \/ Finish(q, [by |-> q, home |-> NoHome, errors |-> TRUE, entries |-> {}])
    /\ UNCHANGED <<remote, runs, config, report, task, req, last>>

\* The outcome of every entry of the plan is in the report when it is cached,
\* which is before the rescan begins.
Report(q, gone, failed) ==
    LET p == bg[q].plan
    IN  [by |-> q, deleted |-> gone, failed |-> failed,
         skipped |-> Paths(p.skip) \cup (Paths(p.check) \ (gone \cup failed))]

\* The agent check lets through every workspace that is a repository.
agent_check_any(q) ==
    /\ bg[q].pc = "check"
    /\ bg' = [bg EXCEPT ![q].pc = "delete",
                        ![q].targets = @ \cup {p \in Paths(bg[q].plan.check) \cap files :
                                                    git[p] # "nogit"}]
    /\ Others /\ UNCHANGED <<cache, task, callbacks, req, last>>

\* What check_agent reports as clean: it reads the output of git status and
\* git log, and these print nothing when they fail.
SaysClean(p) == git[p] \in {"clean", "unreadable"}

\* execute_cleanup, the agent check: only a workspace found clean joins the
\* deletion; with no answer none does.
agent_check(q) ==
    /\ bg[q].pc = "check"
    /\ \E ok \in BOOLEAN :
         LET agents  == Paths(bg[q].plan.check)
             clean   == IF ok THEN {p \in agents \cap files : SaysClean(p)} ELSE {}
             targets == bg[q].targets \cup clean
         IN  IF targets = {}
             THEN /\ report' = Report(q, {}, {})
                  /\ bg' = [bg EXCEPT ![q] = [pc |-> "regather", kind |-> "clean",
                                              config |-> bg[q].config]]
             ELSE /\ bg' = [bg EXCEPT ![q].pc = "delete", ![q].targets = targets]
                  /\ UNCHANGED report
    /\ Others /\ UNCHANGED <<results, task, callbacks, req, last>>

\* The deletion trusts the exit code of the whole script.
execute_cleanup_trusting(q) ==
    /\ bg[q].pc = "delete"
    /\ \E gone \in SUBSET bg[q].targets :
         /\ files' = files \ gone
         /\ ready' = ready \ gone
         /\ report' = Report(q, bg[q].targets, {})
    /\ bg' = [bg EXCEPT ![q] = [pc |-> "regather", kind |-> "clean", config |-> bg[q].config]]
    /\ UNCHANGED <<git, late, runs, config, results, task, callbacks, req, last>>

\* execute_cleanup, the deletion: each path is removed or not; only a path
\* the script answered OK for is reported deleted, and OK means it is gone.
execute_cleanup(q) ==
    /\ bg[q].pc = "delete"
    /\ \E gone \in SUBSET bg[q].targets : \E answered \in BOOLEAN :
         LET ok == IF answered THEN gone ELSE {}
         IN  /\ files' = files \ gone
             /\ ready' = ready \ gone
             /\ report' = Report(q, ok, bg[q].targets \ ok)
    /\ bg' = [bg EXCEPT ![q] = [pc |-> "regather", kind |-> "clean", config |-> bg[q].config]]
    /\ UNCHANGED <<git, late, runs, config, results, task, callbacks, req, last>>

\* clean_backend after execute_cleanup: runs and project stacks are gathered
\* again for the rescan.
clean_backend(q) ==
    /\ bg[q].pc = "regather"
    /\ bg' = [bg EXCEPT ![q] = [pc |-> "scan", kind |-> "clean", config |-> bg[q].config,
                                runs |-> gather_all_runs]]
    /\ Others /\ UNCHANGED <<cache, task, callbacks, req, last>>

\* The done callback empties the slot, whoever holds it.
done(q) ==
    /\ q \in callbacks
    /\ task' = NoTask
    /\ callbacks' = callbacks \ {q}
    /\ Others /\ UNCHANGED <<cache, req, bg, last>>

-----------------------------------------------------------------------------
(* The rest of the world: runs begin, end, are run again and are saved; the *)
(* remote directories come with their runs; people edit workspaces; stacks  *)
(* get built; the configuration is reloaded.                                *)

Touches(r) ==
    {d \in Dirs : \/ LastName(d) = RunShape[r].commit
                  \/ \E p \in RunShape[r].wds : IsPrefix(d, normalize_remote_path(p, Home))}

service == <<cache, task, callbacks, req, bg, last>>

RunBegins(r) ==
    /\ mem[r] # "active" /\ mem' = [mem EXCEPT ![r] = "active"]
    /\ stored' = [stored EXCEPT ![r] = IF @ = "absent" THEN "active" ELSE @]
    /\ files' = files \cup Touches(r)
    /\ UNCHANGED <<ready, git, late, config, service>>

RunEnds(r) ==
    /\ mem[r] = "active" /\ mem' = [mem EXCEPT ![r] = "ended"]
    /\ UNCHANGED <<stored, remote, config, service>>

RunSaved(r) ==
    /\ mem[r] # "absent" /\ stored[r] # mem[r]
    /\ stored' = [stored EXCEPT ![r] = mem[r]]
    /\ UNCHANGED <<mem, remote, config, service>>

\* A workspace changes at any time, also between its git check and the rm -rf
\* of the same cleanup, which are two SSH commands.
Edit(p) ==
    /\ p \in files
    /\ \E state \in GitStates \ {git[p]} : git' = [git EXCEPT ![p] = state]
    /\ late' = late \cup {<<q, p>> : q \in {x \in Reqs : bg[x].pc = "delete" /\ p \in bg[x].targets}}
    /\ UNCHANGED <<files, ready, runs, config, service>>

\* A stack directory appears half-built and later gets its .ready mark.
Install(p) ==
    /\ \E c \in Configs : Len(p) > 2 /\ <<p[Len(p) - 1], LastName(p)>> \in DeclaredBy(c)
    /\ IF p \in files THEN p \notin ready /\ ready' = ready \cup {p} /\ UNCHANGED files
       ELSE files' = files \cup {p} /\ UNCHANGED ready
    /\ UNCHANGED <<git, late, runs, config, service>>

Reload ==
    /\ \E c \in Configs \ {config} : config' = c
    /\ UNCHANGED <<remote, runs, service>>

-----------------------------------------------------------------------------
Handler(q) == \/ scan_disk_v1(q) \/ clean_disk_v1(q)
              \/ start_scan_for_backend(q)
              \/ plan_cleanup_for_backend(q)
              \/ start_clean_for_backend(q)
TaskStep(q) == \/ scan_backend(q) \/ agent_check(q) \/ execute_cleanup(q)
               \/ clean_backend(q) \/ done(q)

World == /\ world < MaxWorld /\ world' = world + 1
         /\ \/ \E r \in Runs : RunBegins(r) \/ RunEnds(r) \/ RunSaved(r)
            \/ \E p \in Edits : Edit(p)
            \/ \E p \in Dirs : Install(p)
            \/ Reload

Next == \/ \E q \in Reqs : (Handler(q) \/ TaskStep(q)) /\ UNCHANGED world
        \/ World

\* Every SSH command carries a timeout and the loop runs what is ready, so a
\* task that exists goes on.
Fairness == \A q \in Reqs : WF_vars(TaskStep(q) /\ UNCHANGED world)
Spec == Init /\ [][Next]_vars /\ Fairness

-----------------------------------------------------------------------------
(* Properties.                                                              *)

TypeOK ==
    /\ files \subseteq Dirs /\ ready \subseteq files
    /\ git \in [Edits -> GitStates] /\ late \subseteq Reqs \X Edits
    /\ mem \in [Runs -> {"absent", "active", "ended"}]
    /\ stored \in [Runs -> {"absent", "active", "ended"}]
    /\ config \in Configs
    /\ task \in Reqs \cup {NoTask} /\ last \in Reqs \cup {NoTask}
    /\ callbacks \subseteq Reqs
    /\ DOMAIN req = Reqs /\ DOMAIN bg = Reqs

Working == {q \in Reqs : bg[q].pc \notin {"none", "done"}}

\* One background task per backend, whether scanning or cleaning: two handlers
\* that both found the slot free, or a callback that empties the slot of a
\* later task, would let a scan and an rm -rf run side by side.
SingleFlight == Cardinality(Working) <= 1

\* A page that sees no task running sees the result of the newest task, and
\* after a cleanup its report: results are cached before the task ends.
IdleShowsNewest ==
    ~Busy /\ last # NoTask =>
        /\ results.by = last
        /\ bg[last].kind = "clean" => report.by = last

\* Where a run of the server works: the clone of its commit, the directory its
\* items run in, and where its log lies.
UsedBy(r, p) ==
    \/ p = Append(Home \o <<"clones">>, RunShape[r].commit)
    \/ \E w \in RunShape[r].wds \cup ({RunShape[r].log} \ {NoPath}) :
            IsPrefix(p, normalize_remote_path(w, Home))

\* Nothing that a run active in memory works in is planned for deletion, even
\* if the scan is old, the run file says the run ended, or the request names
\* the path and allows it.
PlanSparesActive ==
    [][\A q \in Reqs :
          req[q].pc = "plan" /\ req'[q].pc = "launch" =>
              \A e \in to_delete(req'[q].plan) : \A r \in Runs :
                  mem[r] = "active" => ~UsedBy(r, e.path)]_vars

\* What rm -rf is given was seen by a scan, lies strictly below a root of the
\* configuration the request read, is no root itself and contains none.
OnlyBelowRoots ==
    \A q \in Reqs : bg[q].pc = "delete" =>
        LET spec  == Spec4(bg[q].config)
            roots == ToSet(Roots(spec.clone \o spec.stack \o spec.log \o spec.cache, Home))
        IN  \A p \in bg[q].targets :
                /\ p \in Paths(to_delete(bg[q].plan))
                /\ \E r \in roots : IsStrictPrefix(r, p)
                /\ ~\E r \in roots : IsPrefix(p, r)

\* An agent workspace with uncommitted or unpushed work survives every cleanup
\* if that work was there when the cleanup looked: what is lost was begun
\* between the check and the rm, or lay in a repository git could not read.
DirtyWorkSurvives ==
    [][\A p \in Edits : p \in files /\ p \notin files' =>
          SaysClean(p) \/ \E q \in Reqs : bg[q].pc = "delete" /\ <<q, p>> \in late]_vars

\* The report accounts for the whole plan, and never says deleted of a
\* directory that is still there.
ReportIsHonest ==
    [][\A q \in Reqs :
          report # report' /\ report'.by = q =>
              /\ report'.deleted \cap files' = {}
              /\ report'.deleted \cup report'.failed \cup report'.skipped
                    = Paths(to_delete(bg[q].plan) \cup bg[q].plan.skip)]_vars

\* A cleanup planned from an old scan selects nothing that one planned from a
\* scan taken now would spare (Clean up now: bulk).
FreshPlan(q) ==
    LET spec == Spec4(req[q].config)
        refs == build_run_references(gather_all_runs, spec, Home)
        decl == DeclaredBy(req[q].config)
        scan == [home |-> Home,
                 entries |-> classify_entries(
                     raw_to_entries(ScanLines(files, ready, spec, Home)), refs, decl)]
    IN  plan_cleanup(scan, refs, decl, spec, Bulk, {})

ShrinksFor(kinds) ==
    \A q \in Reqs :
        req[q].pc = "plan" /\ req'[q].pc = "launch" /\ req[q].paths = Bulk =>
            {p \in files : \E e \in to_delete(req'[q].plan) : e.path = p /\ e.kind \in kinds}
                \subseteq Paths(to_delete(FreshPlan(q)))

\* A stale scan can only shrink what gets deleted: what disk/cleanup.py says
\* of every entry.
StaleScanOnlyShrinks == [][ShrinksFor(Kinds)]_vars

\* The same for clones, agent workspaces and logs, which are judged by the
\* runs of now and by nothing the scan recorded.
RunFilesOnlyShrink == [][ShrinksFor({"clone", "agent", "log"})]_vars

\* A running scan or cleanup ends and frees the backend.
TaskEnds == Busy ~> ~Busy
=============================================================================
