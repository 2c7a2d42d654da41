# scripthut in TLA+

scripthut runs workflows (DAGs of tasks) on Slurm, PBS, AWS Batch, EC2 and the local
machine. A server process holds the runs in memory, submits the items of a run when
their dependencies have completed and the concurrency caps allow it, polls the
schedulers, and derives the status of every item from what the queue and the accounting
database say. This directory holds TLA+ modules of that code, the TLC configurations that
check them, and TLAPS proofs about them. Paths below are relative to `src/scripthut/`
in the repository.

## 1. The system

| component | state it keeps | operations | what makes it correct |
|---|---|---|---|
| **Run and item data model** `runs/models.py` | items of a run, their status, job id, timestamps, error, accounting state | run status from the items, slot count, dependency checks, `uncascade_dep_failures` | status is a function of the items; cascade and its inverse undo each other |
| **Run manager, scheduling** `runs/manager.py` | `runs` (dictionary), versions and events per run | `_build_run`, `process_run`, `submit_task`, `cancel_run`, `rerun_in_place`, `delete_run`, `update_all_runs` | caps hold, one job per item, dependencies first, no slot left idle, every run finishes |
| **Polling and verdicts** `main.py` `poll_backend`, `runs/manager.py` `update_run_status` | per backend: last list of jobs, back-off; per item: status, `scheduler_state`, `error` | queue, accounting, two timeouts, corrections | a verdict rests on evidence, agrees with accounting, comes eventually, does not flip |
| **Polling task** `main.py` `poll_jobs` | the asyncio task, the iteration over the runs | cycle: poll every backend, update every run, notify, save, clean up once an hour, sleep | survives what requests do meanwhile |
| **Workflow building** `runs/manager.py` | none | wildcard dependencies, `_validate_dependencies`, `generates_source` | the items of a run can be ordered |
| **Run storage** `runs/storage.py`, `runs/usage.py` | one JSON file per run, dirty set, usage ledger, weekly bins of external jobs | `mark_dirty`, `save_if_dirty`, load, append to the ledger, cleanup after retention | a restart resumes and submits nothing twice; usage outlives the run; bins settle |
| **Result cache** `runs/cache.py` | a remote store: manifests by key, blobs by content | key, look up, restore, hash outputs, store | a hit restores what the same inputs produced |
| **Slurm and PBS backends** | none (commands over SSH) | submit and verify, list, cancel, statistics | the contract of `backends/base.py`: live jobs are listed, verdicts are true and stand |
| **AWS Batch backend** | caches of job definitions | find or register a definition, submit, list by status | the contract; a job runs the image its task asked for |
| **EC2 backend** | instances, what they ran, how they ended (in memory) | launch, probe the sentinel, archive, terminate, cancel | the contract; an exit is collected while its instance lives |
| **Local backend** | a directory per job: pid, exit file | launch a supervisor, list, cancel | the contract |
| **SSH client** `ssh/client.py` | one connection per backend, a lock | `run_command`, reconnect, terminals; the poll's back-off | one connection, back again when the host is |
| **Event bus, notifications** | an `asyncio.Event` and a version per run and for polls; the hub's memory | `notify_run`, `notify_poll`, waits of pages, announcements | a page catches up; an end is announced once |
| **Disk service** `disk/` | one task per backend, last scan, last report | scan, classify, plan, execute | one task at a time; nothing in use and no unsaved work is deleted |
| **Daemon** `daemon.py` | a pid file | start, stop, status | the pid file names the server |
| **Environment resolution** `runs/env.py` | none | layers, groups, guards, protected keys | later layers win; cycles are refused, and nothing else |
| **Sources and run creation** `sources/git.py`, `main.py`, `runs/manager.py` | the server's clone, clones on the backend, deploy keys | refresh, fetch a branch, read the document, clone on the backend, register | a run is of the branch and commit it says; no key is left behind |
| **Stacks** `stacks/manager.py` | a directory per hash, with `.ready` | check, install by SSH or by a task, delete | ready means whole |
| **Web API and pages** | none of their own | requests that change runs or start disk tasks; reading | requests respect the status of the run |
| **Configuration, command line, terminal, pricing, activity, AWS setup, agent skill** | none | reading, rendering, validating | see section 7 |

**How they interact.** Everything in the server runs on one asyncio event loop. A web request calls the
run manager, which calls a backend (an await: SSH or an AWS call). The polling task calls
`poll_backend` for each backend (queue, then accounting, several awaits apart), then
`update_all_runs` with the list of jobs of each backend, then saves the runs marked
dirty, tells the notification hub and wakes the pages. All of them share `RunManager.runs` and the
items in it, and none takes a lock: between two awaits a coroutine is alone, across an await whatever it had
read may be stale. What lies outside the process is shared with others: the working
directories and clones on a backend, the result store, the stack directories, the pid file.

**What is hard.** Two coroutines in `process_run` of the same run; requests between
two passes of a poll cycle; an iteration over `runs` in which somebody creates a run;
queue and accounting read at different times, either of them lagging, failing
or silently empty; timeouts racing late rows; a run that waits only for a slot
another run holds; a restart with the backend out of reach, or between a submission and the save; a listing made of several calls
while jobs move; a plan for deletion made before runs begin; requests that share a
clone, a connection or a page's event. `PROJECT.json` lists these
hazards one by one, with the line where each bites and the property that covers it.

## 2. The modules

| module | models | key state |
|---|---|---|
| `RunModel` | `runs/models.py`: statuses, `Run.status`, dependencies, cascade and its inverse, as operators over a function from items to statuses | none |
| `CascadeLoops` | the two `while changed` loops, statement by statement, against the fixpoints of `RunModel` | list position, `changed`, statuses |
| `DepGraph` | wildcards, the three-colour search of `_validate_dependencies`, `_build_run`, what `generates_source` appends | the document, the search's colours and its calls under way, the items |
| `Env` | layers, groups, the calls of `flatten` with their `_seen` sets and guards, the rules applied in order, the seed's protected keys | the calls under way, the list expanded so far, the environment |
| `Dispatch` | the run manager and the polling task: who submits what, and when | `phase` of each run, `st` of each item, `mine`/`lost` jobs in the scheduler, `co` (coroutines), `poll` (the cycle) |
| `Poller` | the verdict on one job: `poll_backend` and `update_run_status` | `item`, its copy in the file, two ages, the job, its accounting row, the cycle |
| `JobBackend` | the contract: what `backends/base.py` promises the poller | what is true of each job, its verdict, the listings under way |
| `ClusterBackend` | Slurm and PBS: submit and verify, queue, rows of accounting that open and close one by one, states | scheduler phase, rows |
| `BatchBackend` | AWS Batch: definitions and revisions, one call per status, terminal states | AWS's jobs and definitions, the two caches |
| `EC2Backend` | one instance per task, sentinel, archive, terminate, overlapping polls, cancel | instances, exit files, the tables in memory, a probe per poll and task |
| `LocalBackend` | launch, supervisor, exit file, pids that are given out again | processes, files |
| `Storage` | run files, dirty set, failing writes, crashes in the middle of a save or an append, retention, ledger | memory, files by stamp, ledger, jobs per submission |
| `ExternalJobs` | weekly bins of jobs outside runs, cache and files, the poll that records them, three requests | queue, cache, store |
| `ResultCache` | key, lookup, restore, completion hooks, store in two uploads | inputs and outputs per directory, the store, each item's progress |
| `RunCreation` | from a request to a registered run, await by await | branches, the server's clone, clones and keys on the backend |
| `Connection` | the connection, its lock, refused channels, terminals, the back-off | connections, who is where |
| `Events` | pages, their waits, the hub, the announcement after creation | items, the hub's memory, pages |
| `DiskRules` | `scan.py`, `classify.py`, `cleanup.py` as operators over paths | none |
| `Disk` | the service on top of them: handlers, background tasks, done callbacks, and the world around | files, git state, runs in memory and stored, tasks |
| `Daemon` | `start_daemon`, `stop_daemon`, the server's bind and exit | process table, port, pid file |
| `Stacks` | the hash directories under installs that are interrupted, repeated and rebuilt | directories, definition, installs |
| `Algorithms`, `Backends`, `Server`, `Shared` | components side by side, with the properties and assumptions that are about them | `part` and the variables of the components |
| `MCDispatch`, `MCVerdict`, `MCAlgorithms`, `MCBackends`, `MCServer`, `MCShared` | instances for TLC | |
| `DispatchProofs`, `SerialProofs` | theorems about `Dispatch` | |
| `AlgorithmProofs` | theorems about `Algorithms` | |
| `PollerProofs` | theorems about `Poller` | |
| `BackendProofs`, `ServerProofs`, `StoreProofs`, `HostProofs` | theorems about `Backends`, `Server` and `Shared` | |

An action is, in all of them, the code from one suspension to the next; a history
variable, where a property needs one, is marked so in its declaration.

**RunModel.** Items have numbers in the order of `Run.items`; `RunOf` and `Deps` say
which run an item belongs to and what it depends on. The two loops that spread
dependency failures are given by what they compute: `Doomed` is a least fixpoint,
`StillDoomed` a greatest one. `CascadeLoops` runs the loops themselves and ends in the
same, from any status, cycles included.

**DepGraph, Env.** Both are recursive functions in the code, and state machines here: `path` is the stack of calls of
`dfs` with `left` the rest of each call's loop, `frames` the stack of calls of `flatten` with the rule and the name each
is at. So the order in which nodes turn grey and black, or rules join the list, is the code's, and the properties compare its outcome with
a definition that has no order: `Orderable` (no set of tasks waits for itself), `Closure` (the least set of groups that is closed under inclusion).
The document, or the configuration, is chosen in the initial state.

**Dispatch.** `co[p]` is what is
left of a suspended call: `process_run` in its submit loop (`todo` is the rest of
`to_submit`, computed before the first await and not looked at again), the same call in
the completion hooks of items that the cache completed, `cancel_run` at the item whose `cancel_job`
it awaits, or the polling task between two runs. `Create`, `Rerun`, `Delete` and `Cancel`
are the requests; `Rerun` and `Delete` accept a run by its computed status, as the code does. A refused
submission fails whatever is PENDING in the run; a cancel fails its item whether `cancel_job` has worked or not (`Lossy`); any other exception leaves `process_run`
and ends a request, the pass of `poll_backend`, or the polling task (`SubmitRaises`), according to who called.
A cycle of the polling task is four passes over runs: `resolve` (accounting), `update`
(queue), `fair` and `greedy` (who gets the free slots). The first two iterate over the
dictionary itself, so a change of its size raises at the next step; the other two iterate
over a sorted copy. Which verdict an item gets is left open here, provided that its job
has left the scheduler: `mine[i]` says whether the scheduler holds the job that
`job_id` names, `lost[i]` how many jobs of `i` it holds that no item names. `unsure` holds the items that a timeout has taken
for COMPLETED (`scheduler_state` None): `poll_backend` asks about them again, and a late row may turn one to FAILED.
QUEUED and RUNNING are one status, since no step of this module tells them apart.

**Poller.** One job, with its queue entry, accounting row and clock. `PollQueue` is
`get_jobs`, `PollAsk` the three phases that collect ids for accounting, `PollStats` the
query, `PollResolve` what the answer (or its absence and a timeout) does to
the item, `PollUpdate` is `update_run_status` with the queue as it was when the cycle
began, `PollSave` is `save_dirty`. `Restart` resumes from the file. A backend is a choice of constants: which
states are terminal, which are failures, what accounting may say, whether the queue lists
ended jobs for a while or not, and which faults
occur: `queue_down` (a command that fails and is taken for an empty queue,
`slurm.py:363`), `queue_raises`, `stats_down`, `dropped` (an id was given for a job that is then
forgotten). Ages are kept as far as the code tells them apart: `submitAge` 0, 1 (past the
60 s grace), 2 (past the 300 s no-record timeout); `settleAge` 0 or 1 (past 600 s).

**Backends.** `JobBackend` is an abstract specification of four actions: a job comes, it
ends with its verdict there or not yet, the verdict arrives, a listing begins and
returns. A listing may leave out what ended, never what has been alive since it began;
a verdict comes after the end, is true, and stands (a restart may lose what the
backend keeps in memory). Each backend's module names `job` and `get_job_stats` in
its own terms and has `Contract == C!Spec`, checked as a property: a refinement per
backend. `Poller` starts from the same contract; what it does when the contract is
broken is its faults.

How the modules meet: `Dispatch` leaves open which verdict comes, `Poller` determines it, and
needs from the backend what `JobBackend` states; `Dispatch` in turn needs from `Poller` that an
item is decided only after its job has left (`CompletedMeansEnded`, `NoRecordMeansNotQueued`).
`Storage` takes the item with its submission and end and adds the disk; `ResultCache`
refines what `Cached` is in `Dispatch`; `Disk` EXTENDS `DiskRules`; `Connection`'s
failures are the faults of the others.

**The MC modules.** `MCDispatch` gives `Dispatch` its instances, `MCVerdict` runs
`Poller` under two schedulers. `Algorithms`, `Backends`, `Server` and `Shared` put components that
share no variable side by side, each an `INSTANCE` with its own constants: `part` is chosen in the initial state and says
which component moves, and a property of a component is the component's own formula under its `part`. So one
run checks several components, each over its own complete state space and with
the component's own `Next`; they are not interleaved with each other, since they have nothing to interleave about.
`Algorithms` EXTENDS `CascadeLoops` and has `DepGraph` and `Env` as instances.
`MCAlgorithms`, `MCBackends`, `MCServer` and `MCShared` give the constants values that a configuration file cannot write. The theorems are
about `Algorithms`, `Backends`, `Server` and `Shared`, for any values.

## 3. What is checked

| run | module | properties | what it shows |
|---|---|---|---|
| `Algorithms` | `MCAlgorithms` | `LoopIsFixpoint`, `UncascadeUndoesCascade` | the loops compute the fixpoints, from every status over every graph of three items |
| | | `EveryAlgorithmEnds` | the loops stop writing, the search leaves every task, every include is expanded |
| | | `AcceptsExactlyTheOrderable` | a document is accepted exactly if its names exist and its tasks can be ordered: diamonds pass, no cycle does |
| | | `RaisesExactlyOnCycles`, `TaskHasLastWord` | inclusion of groups fails on cycles and unknown stacks only; neither seed nor task is overruled |
| `Serial` | `MCDispatch` | `TypeOK`, `BackendCap`, `RunCap`, `NoJobForgotten`, `TakesSlotFromPending`, `DepsFirst`, `VerdictStands`, `NoSlotLeftIdle` | what scheduling promises while requests and cycles do not overlap: caps, order, no slot idle; a job is forgotten only by a command that fails unnoticed; a verdict is taken back only by a late row about an item that accounting had not confirmed |
| `Overlap` | `MCDispatch` | `BoundedOvershoot` | two overlapping coroutines exceed the cap by one cap at most |
| `Verdict` | `MCVerdict` | `TypeOK`, `NoRecordMeansNotQueued`, `CompletedMeansEnded`, `ConfirmedAgrees`, `VerdictStands`, `FairTruthPrevails`, `FairSettlingResolves` | verdicts are sound and come, with accounting that lags or fails, queues of two kinds, exceptions, dropped jobs, a restart |
| `Backends` | `MCBackends` | `Contract` | EC2, local, Batch and cluster backends each implement `JobBackend`, with overlapping polls and a crash |
| | | `ExitIsCollected`, `RightImage` | a container that exits gets its verdict while its instance lives; a job runs its image if the configuration pins a revision |
| `Server` | `MCServer` | `EveryRunFinishes` | every created run finishes |
| | | `AnnouncedOnce`, `ListCatchesUp` | ends and failures are announced once over reruns; list pages show the present state again and again |
| | | `OneMorePerRefusal`, `Reconnects` | one connection, whatever interleaves; it comes back |
| | | `SingleFlight`, `PlanSparesActive`, `DirtyWorkSurvives` | one disk task at a time; a plan names nothing an active run works in; a workspace survives that git reported dirty, unpushed or unknown when the cleanup asked |
| | | `RunningSettles` | an external job last seen running is recorded as ended, also after a restart in a later week |
| `Shared` | `MCShared` | `SubmittedOnce`, `UsageKept` | across crashes no submission is made twice unless its record never reached the disk; usage outlives the run's file |
| | | `HitIsTrue` | a hit restores what the job would have written from the inputs of its key, between runs of one directory and commit, unless another run was overwriting the outputs when they were stored |
| | | `KeysRemoved` | a deploy key stays only while its request is under way |
| | | `PidfileNamesServer`, `ReadyIsWhole` | once commands have ended the pid file names the server some start reported; a ready directory is of one complete install, unless an rm of it has stopped half way |
| `DoubleSubmit` | `MCDispatch` | `EveryJobTracked` | **violated**: `to_submit` is chosen before the awaits and the status is not read again, so two calls submit an item twice |
| `PollDies` | `MCDispatch` | `PollingGoesOn` | **violated**: a run created while `update_all_runs` awaits inside its loop makes the loop raise, and nobody catches it |
| `Succeeded` | `Poller` | `SettlingResolves` | **violated** for AWS Batch and EC2, whose success state is `SUCCEEDED`; only `COMPLETED` is looked for |
| `RightImage` | `BatchBackend` | `RightImage` | **violated** when the configuration names a definition without revision: the bare name means the latest one, by then another task's |
| `FetchedIsOfBranch` | `RunCreation` | `FetchedIsOfBranch` | **violated**: `FETCH_HEAD` belongs to the clone, which all requests share |

The `findings` of `PROJECT.json` quote, for each violated run, the sentence of the
repository that says otherwise.

**Bounds.** Each is a named constant, and each is in a guard.

* `Serial`: two runs, of three items (the third depends on the
  first, which may be in the cache) and of two (one at a time by its own cap), under a
  backend cap of 2. Three items may want a slot at once, so that both caps bind, the fair share
  of two contenders (1) differs from the free slots, and a run can hold back another; a cache hit or
  a refusal leaves a share unused, which is what the greedy pass is for. With one coroutine, requests
  come between any two cycles, but not within one. `Overlap` has two coroutines, two runs, three items, cap 1: any two steps of
  the two can be put in any order, and the theorem covers any number. `MaxLost` bounds the jobs of one item that no item
  names (1 is enough to tell that there is one), `Lossy` the items whose sbatch or scancel may fail unnoticed: one in `Serial` and
  `Server`, all in `Overlap`.
* `Poller` needs none but `MaxRestarts`: one restart loses what was not saved, and a second one has
  no more to lose. `FailureStates`, `TerminalStates`: one state of
  each kind that the code distinguishes, of Slurm's list (`slurm.py:39-53`).
* `Algorithms`: all graphs of three items (`NumItems`, loops); documents of up to three tasks with direct
  and wildcard references, unknown names and repeated ids, which has every cycle and diamond three tasks can make; `MaxItems` (a run generates
  at most once). Configurations have at most one rule in the backend's, the document's and the task's list and two groups in three
  layers, of which one may shadow another: a group included twice, a group that reaches itself at once or through the other,
  a cycle nobody reaches and a guarded one are among them.
* `Backends`: `MaxCrashes` 1; EC2 with one task but the two callers of `get_jobs` (the
  loop and a page's toggle, `main.py`) and `max_instances` 1; local with two tasks on two pids, so that a pid is given out
  again while its old job is still listed; Batch with two tasks and two images, enough for one image to come between the other's
  description and submission; clusters with one task, since no step of theirs relates two.
* `Disk`: two requests of any kind, one run, `MaxWorld` 4 changes of the world (a run begins, ends,
  begins again and is saved; or a reload and an edit in between), with a root below another,
  an agent workspace and a stack. The workspace changes at any time, also between the git check and the rm of one cleanup. `Prompt` says that a task's done callback runs before a
  handler goes on, which is how asyncio schedules it unless both become ready in one round.
* `ExternalJobs`: two weeks and one job, one crash. `Events`: one run of two tasks, reruns under the same id.
  `Connection`: two clients and the poll, three connections, `MaxSessions` channels and one refusal (`MaxRefusals`) that is followed.
* `Storage`: `MaxStamp` 2, one rerun, so that a run has two directories. `ResultCache`: two runs of one
  commit in the directory they share (`manager.py:624`, `:1038-1046`), since these are the runs whose keys are equal under the default scope and who
  disturb each other; two input patterns of which one may be missing, two edits (`MaxEdits`), one rerun (`MaxReruns`), so that a hit comes after the
  inputs have changed and changed back. `Quiet`: nobody edits the inputs while an item of the directory is busy. Hits between
  directories are left to the theorem, which is about any `DirOf` (three runs have too many states). `RunCreation`: two requests of any of four kinds,
  two branches, `MaxPush` 1. `Daemon`: two starts and a stop on three pids, `MaxAccidents` 2 (crashes, recycled pids, foreign servers);
  `Stacks`: two installers, one of each kind, two definitions, prep scripts of two steps.

Deadlock is not checked: in every instance everything may be finished, or a bound reached.
Symmetry is used in `Overlap` only (the coroutines), which checks no liveness.

**What the model also shows.** The same modules, with other constants or a property
that is defined beside the others but checked by no run, exhibit these as well. Each can be reproduced with a cfg of
the module itself.

| module | instance | what fails | code |
|---|---|---|---|
| `Dispatch` | two coroutines, `create` and `cancel` | `TerminalItemStays`: `submit_task` writes SUBMITTED over the FAILED of a cancel when the scheduler answers | `manager.py:2243` |
| | the same | `BackendCap`: the free slots are counted before the awaits | `manager.py:1881` |
| | the same with `rerun` | `DepsFirst`: an item chosen before a cancel and a rerun is submitted although its dependency is PENDING again | `manager.py:1881` |
| | a chain of three, `FairSpec` | `FailureReachesAll`: the no-record timeout does not call `process_run`; in a chain nothing else does | `main.py:461` |
| | one coroutine, as in `Serial` | `EveryJobTracked`: a cancel marks the item FAILED although scancel or qdel exited with an error, Batch refused or no backend was there, and a submission that took effect may be reported refused; the job goes on and nobody polls it | `manager.py:2240-2249`, `slurm.py:1078-1080`, `pbs.py:843`, `batch.py:645-652`, `slurm.py:1002` |
| | the same | `VerdictStands` without its last disjunct: a run that is COMPLETED by the accounting timeout turns FAILED when the row comes | `main.py:321-334`, `:495` |
| `Poller` | `queue_raises`, `MaxRestarts` 1 | `CompletedMeansEnded`: after a restart with the backend out of reach the empty list of jobs is taken as evidence | `main.py:605` |
| | `queue_down` | `CompletedMeansEnded`, `NoRecordMeansNotQueued`: neither timeout looks at the queue again | `main.py:458`, `:490` |
| | `BOOT_FAIL` among the outcomes | `SettlingResolves`: the state is terminal but no failure, and no branch decides on it | `main.py:491` |
| | `QueueShowsEnd`, accounting that never answers | `SettlingResolves`: no `finished_at` is set, which the timeout requires | `manager.py:2117` |
| `DepGraph` | as in `Algorithms` | `GeneratedOrderable`: tasks that `generates_source` appends may wait for each other (docs/task-json/index.md:258) | `manager.py:332` |
| | | `AcceptedCanRun`: of two tasks with one id the search sees the last, the run the first (docs/task-json/index.md:245) | `manager.py:219` |
| `Env` | as in `Algorithms` | `GroupsAreScoped`: an include in an earlier layer means the group as a later layer redefines it (docs/configuration/environments.md:97 leaves open which) | `env.py:206` |
| `Storage` | as in `Shared` | `DeletedStaysDeleted`: an older directory of a run that was rerun comes back at the next start | `manager.py:1470`, `:2257` |
| `ExternalJobs` | as in `Server` | `QueuedSettles`: only jobs last seen running are reconciled | `storage.py:425` |
| | | `OwnJobsStayOut`: a poll between the scheduler's answer and `item.job_id` records the run's own job | `main.py:513` |
| `ResultCache` | an input that is optional and the only one | `HitIsTrue`: a declared input that is missing is left out of the key (README.md:433) | `manager.py:1457` |
| | `unconfirmed` | `HitIsTrue`: the result of a job whose end was only assumed is stored | `main.py:495` |
| | `Quiet` FALSE | `HitIsTrue`: inputs edited between key and job | `manager.py:1716` |
| | as in `Shared` | `HitIsTrue` without `spoiled`: two runs of one commit share their directory, so one stores the outputs while the other's job overwrites them, and a third submission restores the mixture | `manager.py:624`, `:1038-1046`, `:1716` |
| | as in `Shared` | `HashesAgree`: an item that is rerun keeps its hashes (docs/task-json/manifests.md:35) | `manager.py:1457` |
| `RunCreation` | as in `Shared` | `NeverStale`: a refresh that fails leaves the documents of before | `main.py:1720` |
| | | `CloneIsItsCommit`: the clone takes the branch's head, the directory the commit asked for before | `manager.py:979` |
| | | `RunHasWholeClone`: a second request takes a directory that is still being filled | `manager.py:625` |
| `LocalBackend` | as in `Backends` | `CancelsOwnJob`: a pid that is in use again is signalled | `local.py:367` |
| `EC2Backend` | `overlap`; `describe`; `terminate` | `Contract`: an instance launched during a listing is not in it and taken for gone; a failed call is an empty list; a terminate that fails is not noticed | `ec2.py` |
| | two tasks, `max_instances` 1 | `InstanceCap`: the number is checked before the await and counted after it | `ec2.py:158` |
| `BatchBackend` | `retry`; `list`; `partition` | `Contract`: a job that is retried moves back past the listing; a failed call leaves its status out; a queue other than the configured one is not listed | `batch.py` |
| `ClusterBackend` | `queue`; `filter`; `walltime`; `no_status` | `Contract`: a failed command is an empty queue; a list of another account; a job over its limit is called ended before it is; a job without exit status is called completed | `slurm.py:363`, `pbs.py` |
| `Daemon` | `Overlap` TRUE | `PidfileNamesServer`: a stop removes the file of the server another start has just written | `daemon.py:349` |
| | as in `Shared` | `KillsOnlyServers`: the check by command line takes any process with the name in it for the server | `daemon.py:339` |
| `Stacks` | `Overlap` TRUE | `ReadyIsWhole`: an install that is under way looks like a half-built one and is removed | `stacks/manager.py:222` |
| | as in `Shared` | `ReadyIsWhole` without `cut`: an rm -rf that reaches its timeout of 60 s, or whose task is cancelled, may have removed built files and not yet `.ready`; the next check says READY | `stacks/manager.py:222`, `:305` |
| | `Unreliable` TRUE | `ReadyIsWhole`: a check that exits with an error counts as not ready, and a ready directory is built into | `stacks/manager.py:137` |
| `Connection` | as in `Server` | a connection whose channel was refused is forgotten while open: one is left behind per refusal | `ssh/client.py:159` |
| `Events` | `Interleaved` TRUE | `AnnouncedOnce`: a poll during a run's first submissions announces before the creation does | `notifications.py:134` |
| | `ApiReruns` TRUE | `AnnouncedOnce`: the API's rerun does not reset the hub's memory | `api.py:644` |
| | as in `Server` | `RunPageCatchesUp`: a notification between rendering and waiting is lost until the timeout | `manager.py:1995`, `main.py:2675` |
| `Disk` | as in `Server` | `StaleScanOnlyShrinks`: a stack's ready flag is the scan's (disk/cleanup.py:8-9 says a stale scan can only shrink) | `disk/classify.py:231` |
| | as in `Server` | `DirtyWorkSurvives` without `late`: the git check and the rm are two SSH commands, and what is edited between them is removed | `disk/service.py:319`, `:342` |
| | as in `Server` | `DirtyWorkSurvives` with `git[p] = "clean"` for `SaysClean(p)`: git status and git log that fail print nothing, which reads as clean | `disk/cleanup.py:358-365` |
| | three requests, `Prompt` FALSE | `SingleFlight`: the callback of an ended task empties the slot of the next one | `disk/service.py:147` |

Further, without a property of its own: the item given up for want of a record keeps its message and FAILED when a late row says COMPLETED
(`main.py:401` corrects the legacy marker only), the unconfirmed marker stays on an item that
accounting has confirmed since (`main.py:315`), and the re-drive at `manager.py:2158` hands a freed
slot to the run whose job ended, before the fair pass asks the least-loaded one. The correction at `main.py:321` does not call `process_run` either,
so that a chain of three may be stuck behind it as behind the no-record timeout.
`PlanSparesActive` judges the plan: a run that begins between the plan and the rm (`disk/service.py:566-600`) is not spared. An rm on
the backend that goes on after its SSH command has timed out is not modelled; it is an overlap of installs.

Properties that hold in the same instances and are kept beside the others without a run: the
type invariants of the other modules, `TaskEnds` (`Disk`), and those that section 5 proves: `UnsavedIsKnown`, `CountedOnce`
(`Storage`), `CacheIsSaved` (`ExternalJobs`), `ManifestHasBlob` (`ResultCache`), `DepsExist` (`DepGraph`), `FreshUnlessFault`,
`CachedIsConfigured` (`RunCreation`), `IdleShowsNewest`, `OnlyBelowRoots`, `ReportIsHonest`, `RunFilesOnlyShrink` (`Disk`),
`DepFailedHasReason` and `CapInv` (`Dispatch`).

## 4. Fairness

In the composed runs the liveness properties carry their component's fairness as an
antecedent (`D!Fairness => D!EveryRunFinishes`), since it must not bind the components that do not move.

* `EveryRunFinishes`: the event loop resumes a coroutine whose await is over (weak
  fairness of `SubmitAccepted` and `HooksReturn`), the polling task goes on within a cycle
  and starts cycles for ever (`poll_jobs` is `while True` around a sleep), the scheduler
  ends its jobs, and evidence about a job that has left is found again and again, hence
  once (strong fairness of `Noticed` and `Resolved`; weak would not do, since a cycle that is at
  another run disables them). No request but `create` is made there, and submissions may be refused but do
  not raise; no chain is longer than two (see `FailureReachesAll` above).
* `FairSettlingResolves`, `FairTruthPrevails`: the cycle goes on, the queue and accounting answer
  infinitely often if they are asked infinitely often (strong fairness of a successful
  `PollQueue` and `PollStats`), time passes, a listed job ends, leaves, and a row that
  was opened is closed. Nothing is assumed about a row appearing at all: `SettlingResolves` is
  about the timeout that stands in for it, and is claimed for the queue that drops ended jobs.
* `ExitIsCollected`: the loop's `get_jobs` goes on, AWS answers it, sessions work and logs can be written infinitely
  often; nothing about the page's poll.
* `ListCatchesUp`: polls come round (strong, since a cycle may be cut), first submissions return, streams are served.
* `Reconnects`: attempts and polls end (they carry timeouts of 15 and 30 s), the poll loop comes round, the clock
  runs, and `asyncio.Lock` is first come, first served, which strong fairness of the poll's `connect` stands for.
* `RunningSettles`: the poll reads and saves (weak), and its remote commands succeed infinitely often (strong).
* `EveryAlgorithmEnds` has the next statement of the algorithm weakly fair: it runs without an await.

## 5. What is proved

48 theorems, checked by TLAPS for every value of the constants that the named assumptions allow. Each has an inductive
invariant of its own or one it shares with its neighbours (`Init => Inv`, `Inv /\ [Next]_vars => Inv'`, one step per action).
The property of a theorem is one that a run checks; where it is one of those that section 3 keeps without a run, the
property's name is in *italics* below.

### Scheduling (`Dispatch`)

For any number of runs, items and coroutines, every dependency graph, every cap, set of requests and set
of faults (`RunModelAssumption`, `DispatchAssumption`):

| theorem | says | argument |
|---|---|---|
| `DispatchProofs!TypeCorrect` | `TypeOK` | one step per action; lemmas on the record constructors, on slots and on the orders of a pass |
| `DispatchProofs!OvershootBounded`, `ClaimsBounded` | `BoundedOvershoot`, `CapInv` | `BoundedOvershoot` is not inductive: a suspended call spends its slots later. `CapInv` counts the items it is going to submit (`Claimed`) as if they had theirs, and bounds each call's `todo` by the cap. `ProcessRun` adds at most what its own count left free; every other step shrinks the union or leaves it |
| `SerialBackendCap`, `SerialRunCap` | with a single coroutine the caps hold exactly | the same invariant with the union of held and claimed items under the cap itself (and per run under `RunMax`); needs that a suspended call is the only one |

With a single coroutine (`Cardinality(Coro) = 1`: requests and poll cycles follow each other, which is how the server behaves as long
as no request arrives during an await), `SerialProofs` has the rest. With two coroutines these are false (section 3), so the hypothesis is
what the theorems are about: it says that all of them fail by overlap only.

| theorem | says | argument |
|---|---|---|
| `NothingGoesStale` | `SerialInv` | what was read before an await still holds after it: the items left in `todo` are PENDING with COMPLETED dependencies, the run that is worked for is there and so are the runs queued in the pass, a cancel's item still holds the slot it had. A job that an item names is counted by it, unless a cancel failed unnoticed. Each step changes an item's status as `Moves` (with `Corrected`, the late row) or `Restarts` allows |
| `SerialNoJobForgotten` | `NoJobForgotten` | each step that changes a status `Keeps` the jobs that are tracked; `OwnJobs` in `SerialInv`: the job an item names is tracked, or the item is FAILED by a cancel that did not work. Needs `todo` to be PENDING, or a submission would hide the job before it; for any commands that fail unnoticed (`Lossy`) |
| `SerialTakesSlotFromPending`, `SerialDepsFirst` | `TakesSlotFromPending`, `DepsFirst` | from `Fresh` and `Moves` |
| `SerialVerdictStands` | `VerdictStands` | a run with a verdict is quiet (`TerminalIsQuiet`): no item of it can be submitted, so only PENDING items may change, and they fail, which leaves the verdict (`VerdictKept`), and items in `unsure`, which fail a COMPLETED run (`FailedVerdict`) |
| `SerialNoSlotLeftIdle` | `NoSlotLeftIdle` | the property is about the last step of a cycle; `GreedyInv` says at every step of the greedy pass which runs have been served: every run neither queued nor worked for has no work it may submit or a cap that is used up, and what the call at work still has in `todo` fills its slots or is all there is. A cache hit breaks the last part, and is why `process_run` is called again; a run served earlier stays so, since slots only shrink for it until the pass ends |
| `SerialDepFailedHasReason` | *`DepFailedHasReason`* | an item becomes DEP_FAILED by the cascade only, and an item of the least closed set that had no failed or marked dependency could be left out of it (`CascadeReason`); a failed item stays failed unless its whole run begins anew. Needs no acyclic graph |

### The algorithms on graphs (`Algorithms`)

For graphs and lists of any size. None of these proofs is an induction over a graph, which is out of the prover's reach: each invariant compares
what has been done so far with every set that is closed in the same way.

| theorem | says | argument |
|---|---|---|
| `AlgorithmProofs!LoopsAreFixpoints` | `LoopIsFixpoint` | `LoopInv`: what has been written lies in the fixpoint, since it lies in every closed set; what a pass has visited without a change needs no write. So a pass without changes ends with a closed set, which contains the least one. For any dependencies, cycles included, and any statuses |
| `LoopsNeverOvershoot` | no pass writes what a later one takes back | the first half of `LoopInv` |
| `UncascadeIsInverse` | `UncascadeUndoesCascade` | in a graph without cycles, what stays DEP_FAILED once nothing is FAILED would be a set of items that each depend on another of it |
| `CheckIsExact` | `AcceptsExactlyTheOrderable` | `SearchInv`: the grey nodes are the path, each reached from the one before (`PathInv`), and what a call has looked at is black or the call it has made. A grey dependency closes the path to a set of tasks that each wait for one of it (`SomeCycle`). Every set of black nodes has a node that waits for none of it (`BlackInv`): a node turns black after all it waits for. For any document whose ids differ; `DocsAssumption`: a document is a list, a generated one too |
| `ResolvingIsExact` | `RaisesExactlyOnCycles` | `FlattenInv`: `Expandable` is the least set of groups that holds each whose rules include only groups of the set and known stacks; what lies before the place of a call is expandable, and each group in `_seen` reaches what the call includes. So a name that is met again reaches itself, and an expansion that comes to its end has found everything it reaches expandable, where no group reaches itself (`ExpandableHasNoCycle`) |
| `TaskHasTheLastWord` | `TaskHasLastWord` | `LastInv`: when the outer call has just passed a rule, that rule, without further guards, is the last of the list, whatever its includes put before it; and the rule applied last has its way in the environment |
| `DependenciesExist` | *`DepsExist`* | `ItemsInv`: an accepted document names only its own ids, and what `generates_source` appends is checked against the ids of the run and of the appended tasks |

`CascadeLoops` has its own `Spec`; `LoopsOfAll` shows that the composition implements it. `ConfigsAssumption`
says what a configuration is: lists of rules, each a record of its fields, over the environment's keys.

### Verdicts (`Poller`)

For any states, outcomes, faults and restarts (`PollerAssumption`):

| theorem | says | argument |
|---|---|---|
| `PollerTypeCorrect` | `TypeOK` | |
| `Confirmed` | `ConfirmedAgrees`, whatever fails, if accounting ends in states the code decides on (`Decisive`) | `RecordInv`: what is recorded comes with the decision, the cycle's answer is one of accounting's outcomes, and the file satisfies the same |
| `VerdictsStand` | `VerdictStands`, same condition | from `RecordInv`: a COMPLETED item that is not the timeout's has its state recorded and is not asked about |
| `CompletedAfterEnd` | `CompletedMeansEnded` if the queue can be trusted (`Trusted`: it never fails silently, and either it never raises or there is no restart) | `EvidenceInv`: a SETTLING item, an answer that decides, a list without the job that has been seen, each imply that the job is out of the queue, and jobs do not come back |
| `NoRecordAfterQueue` | `NoRecordMeansNotQueued` without `queue_down` | `QueueInv`: a job that is old enough and missing from the list has left the queue |

The conditions are the findings' other side: a restart with the backend out of reach is an instance without
`Trusted`, `Succeeded` one without `Decisive`.

### The backends implement the contract (`Backends`)

`BackendProofs!BackendsKeepContract`: `Spec => Contract`, the refinement of `JobBackend` by each of the four backends, for any number of
tasks, of `get_jobs` that overlap and of crashes. Per backend an invariant, one lemma per step that takes it to one of the contract's
actions or to a stutter, and one lemma that says what the invariant gives of `job` and `get_job_stats` in the backend's own terms.

| backend | invariant | why the contract alone is not enough |
|---|---|---|
| Slurm, PBS | `ClusterInv` | a verdict is composed of several rows that appear one by one; `RowsBehind` says what may be open or closed at each phase of the job, `ClusterReads` that a job alive since a listing began has not been passed over |
| local | `LocalInv` | a pid is given out again; `OwnPids` says that no two running jobs have one pid, `FilesBehind` what the pid file, the exit file and the process say of each other at each moment of a launch and of a crash |
| Batch | `BatchInv` | a listing is a call per status; `BatchReads` says that a job which lived all the time has been found or is in a status still to be asked for, which holds because a job moves forward only |
| EC2 | `Ec2Inv` | two `get_jobs` work on one table; `Probed` relates what each of them has seen of an instance to the instance, `Remembered` the tables in memory to the instances, across a restart that empties them |

Assumed (`Ec2Assumption`, `BatchAssumption`, `TasksAssumption`): the calls of AWS take effect and an instance that was launched is in the
next description (SSH and the disk may fail); Batch jobs are not retried and their listing succeeds; no task has the name that stands
for "no listing under way". The instances of section 3 under `EC2Backend`, `BatchBackend` and
`ClusterBackend` are what happens without.

`ImageIsTasks`: `RightImage` when the configuration pins a revision. `BatchDefs` follows every number of a
definition from where it is registered or described, through the two caches and a suspended submission, to the job.

### The server's components (`Server`)

| theorem | says | argument |
|---|---|---|
| `ServerProofs!EndsAnnouncedOnce` | `AnnouncedOnce` | `PagesInv`: what was announced is what the hub remembers, except during a creation, of which nothing has been announced; the end that was announced is the present one, with all its failures. For polls that do not fall between a creation and its announcement; `PagesAssumption`: a workflow has a task, which `create_run` requires (`manager.py:700`) |
| `OneConnectionPerRefusal` | `OneMorePerRefusal` | `SshInv`: who dials holds the lock and the current connection is not open, so a new one never hides one that is; the open connections that are not current number at most the refused channels |
| `OneTaskAtATime` | `SingleFlight` | `DiskInv`: only the task in the slot works, and none does while a done callback is due. With `Prompt` |
| `UnsavedWorkSurvives` | `DirtyWorkSurvives` | also `DiskInv`: what any plan deletes unchecked is no agent workspace, and what is checked goes to deletion only if git called it clean and, if it has changed since, is `late`. `DiskAssumption`: the roots of a configuration do not nest so that an agent workspace lies where a stack or a log would, since `_safety_reason` goes by depth and name; with such roots the property is false |
| `ActiveRunsSpared` | `PlanSparesActive` | a plan classifies the scan's entries afresh, against the runs of that moment. `PlanSparesUsed` takes one path used by an active run: being safe, it is the child of the first clone directory it lies below, and since roots do not nest the same child is found from the run's working directory (`ChildIsEntry`), so the references name the run and the entry is active. A scan holds only typed entries, and none if the home directory is unknown (`ScanOk` in `DiskInv`) |
| `IdlePageIsNewest` | *`IdleShowsNewest`* | `CleanInv`: the newest task works or its result is the one shown, and once it has deleted its report is; the slot is never empty before both are stored |
| `OnlySafePathsRemoved` | every path given to `rm -rf` is in the plan and has passed `_safety_reason` under the configuration the request has read | also `CleanInv`: what is planned is safe (`PlanIsSafe`), and the targets of a task lie between the unchecked and all of its plan, whatever is reloaded meanwhile |
| `RootsSurvive` | *`OnlyBelowRoots`*, if `RootsSeparate` | what is safe lies below a root that is cleaned; a root below it would lie inside that one. `_safety_reason` does not look below a path and nothing demands separate roots, so this is a condition on a deployment (it holds for the run's instance, where TLC evaluates it) |
| `ReportsAreHonest` | *`ReportIsHonest`* | from `CleanInv`, for every subset of the targets that gets removed and with or without an answer |
| `OldScanShrinksRunFiles` | *`RunFilesOnlyShrink`* | place and name of an entry are checked again and its runs looked up again, so a scan of now holds an entry of the same path and kind, which gets the same class (`OldScanSelectsNoMore`). The part of "a stale scan can only shrink what gets deleted" that is true: stacks are the other part, see section 3 |
| `BinsAreSaved` | *`CacheIsSaved`* | `BinsInv` is the property with the types of the bins; each step either marks the bin it changes, writes it, or changes both copies alike |

`RunsAssumption` types paths and configurations and says of them: a run's commit is a hash, the clone directories of a configuration do not
nest, and no run works where something could pass for a stack, or for a log that is not its own. The last two are conditions on a deployment: the code
does not check them, and never calls a stack active.

### Files, clones, pid file, stacks (`Shared`)

| theorem | says | argument |
|---|---|---|
| `StoreProofs!OneJobPerSubmission` | `SubmittedOnce` | `FilesInv`: a state that memory or a file calls pending or ended has no job, except a stale pending in the file of a run still marked dirty; so whatever a restart loads, it submits nothing that has a job. For any crashes, reruns and shutdowns; runs with a state that never reached the disk (`lost`) are excepted by the property |
| `UsageIsKept` | `UsageKept` | `LedgerInv`: what the server takes for recorded has a readable line; an append loses no line |
| `UsageIsCountedOnce` | *`CountedOnce`* | `CountInv`: unless an append has failed and been forgotten, a readable line is known to the server or will be read again before anything is appended; a line that was cut off counts for nothing |
| `UnsavedIsMarked` | *`UnsavedIsKnown`* | `UnsavedInv`: a run whose file lags behind memory is dirty, unless a write of it has failed before or the cleanup has removed the file of an ended run |
| `ManifestsHaveBlobs` | *`ManifestHasBlob`* | `BlobsInv`: the content goes up before the manifest, and a failed upload ends the storing before it; the store itself is taken to lose nothing |
| `HitsAreTrue` | `HitIsTrue` | `CacheInv`: an entry of the store is what its key stands for, or was stored `spoiled` (`StoreTrue`), and so is what every item on its way carries (`ItemTrue`) and every job reads (`JobTrue`). What the runs of one directory write belongs to one key, so a run's outputs are its own or marked (`OutsStay`). For any number of runs, with directories of their own or shared. `CacheAssumption`: runs of one directory are of one commit, an input that must be there, hashing does not fail and accounting answers; with `Quiet`. Each is a row of section 3 when it is dropped |
| `HostProofs!KeysAreRemoved` | `KeysRemoved` | `ClonesInv`, the types and the property, over any number of requests of any kind |
| `RefreshedIsFresh` | *`FreshUnlessFault`* | `FreshInv`: while a request is under way the head of now is one it has seen, and whoever turns the shared clone turns it to that head or removes it; so what a request whose refresh succeeded then reads is a head it has seen, or nothing, which ends it |
| `ListedIsConfigured` | *`CachedIsConfigured`* | also `FreshInv`: a fetch of another branch leaves the tree alone |
| `PidfileIsOfServer` | `PidfileNamesServer` | `DaemonInv`: the server reported last holds the port and is in the pidfile (`ToldIsFound`), and what a command has read of either is still so when it acts (`Watches`), although starts race, pids are given out again and others take the port. Without a stop during a start (`Overlap` FALSE) |
| `ReadyStacksAreWhole` | `ReadyIsWhole` | `StacksInv`: the directory an installation is filling is not ready and holds the steps its script has done, unless an rm of it was cut (`RemainsTyped`). For any number of installers, stacks and steps, when installations do not overlap |

### Model-checked only

* Liveness and what depends on ENABLED: `EveryRunFinishes`, `FairSettlingResolves`, `FairTruthPrevails`, `ExitIsCollected`, `ListCatchesUp`,
  `Reconnects`, `RunningSettles`, `EveryAlgorithmEnds`. TLAPS does not handle liveness under fairness here.

Every invariant and every step property that a passing run checks is stated by a theorem.
`TaskEnds` and the type invariants that no run lists have no theorem of their own; where a proof needs the types they are part of
its invariant.

## 6. Plan

What is left, in this order.

1. `Dispatch` with overlap: the run `DoubleSubmit` shows that creations alone break the serial properties, so what could be
   proved is a model with a lock per run, if the code gets one.
2. `Poller` over `JobBackend` instead of its own queue and accounting, for several jobs.

## 7. What is not modelled

* `cli.py` and `cli_cmd/`-style rendering, apart from the daemon commands: arguments in, an HTTP call, text out; no state and no
  order of steps. It is a sixth of the implementation by lines.
* `config.py`, `config_schema.py`: validation of fields and a merge of dictionaries at start.
* Pages, templates, logging, the terminal bridge (two sockets and a pipe between them), pricing tables, activity
  figures, the AWS setup wizard, SSM sessions, the agent skill's text.
* In `manager.py` and `backends/`: generating scripts and parsing columns of `squeue`, `sacct`, `qstat`, cluster
  and quota figures. What the parsers decide (states, exit codes, missing rows) is in `ClusterBackend`.
* Git and shell commands are external: `RunCreation` models what they do to a clone.
* In `Dispatch` there is one backend: slots and shares are computed per backend and runs of different
  backends share nothing but the order of the passes. The hooks that may append or store
  only suspend there; what they do is in `DepGraph` and `ResultCache`. Dispatch restores nothing
  from disk: restarts are in `Poller` (the item), `Storage` (the run) and the backends.
* The text of `init:` and `${...}` in the values of environment rules; Python's limit on nested calls, which a chain of about a thousand
  dependencies or included groups would meet.
* The legacy formats of run files, the cache of scan results on disk, cloning a source anew and removing one,
  and how a task's script loads a stack.
