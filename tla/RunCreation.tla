----------------------------- MODULE RunCreation -----------------------------
(* How a request becomes a run: the server's own clone of a git source is       *)
(* refreshed or a branch is fetched into it and the workflow document read      *)
(* (sources/git.py, main.py, api.py), then the repository is cloned on the      *)
(* backend with a temporary deploy key, the repository's scripthut.yaml is read *)
(* at the commit and the run is registered (runs/manager.py).  Each await is a  *)
(* step, so requests interleave everywhere; the branches move meanwhile.        *)
(* A commit is a number, 0 is "none"; a document is named by its commit.        *)
EXTENDS Naturals, FiniteSets

CONSTANTS Requests,    \* the requests that may come
          Branches,    \* the branches of the repository
          Main,        \* the branch the source is configured with
          Kinds,       \* the kinds of request that come: a subset of AllKinds
          Keyed,       \* the source has a deploy key
          HasPostclone,\* the source has a postclone command
          MaxPush      \* bound: how often a branch moves

AllKinds == {"source", "branch", "agent", "sync"}

VARIABLES tip,      \* the head commit of each branch at the remote
          pushed,   \* the commits made so far
          past,     \* past[b]: every commit that was the head of b
          clone,    \* the server's clone: status.cloned, the directory and what it holds
          cached,   \* state.source_workflows: the commit its documents come from
          dirs,     \* the clones on the backend, by the commit that names them
          keys,     \* requests whose temporary key file is on the backend
          failed,   \* requests of which an upload or removal of a key did not go through
          req,      \* the requests
          runs      \* requests whose run is registered

remote == <<tip, pushed, past>>
server == <<clone, cached>>
backend == <<dirs, keys, failed>>
vars == <<remote, server, backend, req, runs>>

Commits == 0 .. Cardinality(Branches) + MaxPush
Absent == [state |-> "absent", holds |-> 0]
Idle == [pc |-> "idle", kind |-> "sync", branch |-> Main, doc |-> 0, hash |-> 0,
         overlay |-> 0, fault |-> FALSE, since |-> {}]
SteadyPcs == {"idle", "run", "refused"}

TypeOK ==
  /\ tip \in [Branches -> Commits] /\ pushed \in Commits
  /\ past \in [Branches -> SUBSET Commits]
  /\ clone \in [cloned : BOOLEAN, exists : BOOLEAN, tree : Commits, fetch_head : Commits,
                objects : SUBSET Commits]
  /\ cached \in Commits
  /\ dirs \in [Commits -> [state : {"absent", "partial", "cloned", "ready"}, holds : Commits]]
  /\ keys \subseteq Requests /\ failed \subseteq Requests /\ runs \subseteq Requests
  /\ \A r \in Requests : req[r].doc \in Commits /\ req[r].hash \in Commits /\ req[r].kind \in AllKinds

Init ==
  /\ \E number \in [Branches -> 1 .. Cardinality(Branches)] :
       /\ number[Main] = 1 /\ \A a, b \in Branches : a # b => number[a] # number[b]
       /\ tip = number
  /\ pushed = Cardinality(Branches)
  /\ past = [b \in Branches |-> {tip[b]}]
  /\ clone = [cloned |-> FALSE, exists |-> FALSE, tree |-> 0, fetch_head |-> 0, objects |-> {}]
  /\ cached = 0
  /\ dirs = [c \in Commits |-> Absent]
  /\ keys = {} /\ failed = {} /\ runs = {}
  /\ req = [r \in Requests |-> Idle]

(* A push; the requests under way note that their branch moved.                *)
Push ==
  /\ pushed < Cardinality(Branches) + MaxPush
  /\ \E b \in Branches :
       /\ tip' = [tip EXCEPT ![b] = pushed + 1]
       /\ past' = [past EXCEPT ![b] = @ \cup {pushed + 1}]
       /\ req' = [r \in Requests |->
                    IF req[r].branch = b /\ req[r].pc \notin SteadyPcs
                    THEN [req[r] EXCEPT !.since = @ \cup {pushed + 1}] ELSE req[r]]
  /\ pushed' = pushed + 1
  /\ UNCHANGED <<server, backend, runs>>

At(r, pc) == req[r].pc = pc
Goto(r, pc) == req' = [req EXCEPT ![r].pc = pc]
Ready == clone.cloned /\ clone.exists

(* --- the server's clone ------------------------------------------------------ *)

(* clone_source removes the directory before the first await.                  *)
Removed == [clone EXCEPT !.exists = FALSE, !.tree = 0, !.fetch_head = 0, !.objects = {}]

(* A request comes.  sync_source pulls a clone it has and otherwise clones;    *)
(* fetch_branch clones first when it has to; an agent run needs neither.       *)
Begin(r, kind, branch) ==
  /\ At(r, "idle")
  /\ req' = [req EXCEPT ![r] = [@ EXCEPT !.kind = kind, !.branch = branch, !.since = {tip[branch]},
               !.pc = CASE kind = "agent" -> "key"
                        [] kind = "branch" /\ Ready -> "fetch"
                        [] kind \in {"sync", "source"} /\ Ready -> "pull"
                        [] kind # "agent" /\ ~Ready -> "clone"]]
  /\ clone' = IF kind = "agent" \/ Ready THEN clone ELSE Removed
  /\ UNCHANGED <<remote, cached, backend, runs>>

Arrive(r) == \E kind \in Kinds, b \in Branches :
               (kind = "branch" <=> b # Main) /\ Begin(r, kind, b)

Holding(c) == [clone EXCEPT !.exists = TRUE, !.tree = c, !.objects = @ \cup {c}]

(* clone_source: a clone that another one's removal ran into may fail although *)
(* the other succeeds, and git takes the directory with it.                     *)
clone_source(r) ==
  /\ At(r, "clone")
  /\ \/ /\ clone' = [Holding(tip[Main]) EXCEPT !.cloned = TRUE]
        /\ Goto(r, IF req[r].kind = "branch" THEN "fetch" ELSE "discover")
     \/ /\ \E left \in BOOLEAN : clone' = [clone EXCEPT !.cloned = FALSE, !.exists = left /\ @]
        /\ req' = [req EXCEPT ![r].fault = TRUE,
                              ![r].pc = IF req[r].kind = "branch" THEN "refused" ELSE "discover"]
  /\ UNCHANGED <<remote, cached, backend, runs>>

pull_source_skips(r) ==
  /\ At(r, "pull")
  /\ Goto(r, "discover")
  /\ UNCHANGED <<remote, server, backend, runs>>

(* A pull that fails is noted in the status and nowhere else.                   *)
pull_source(r) ==
  /\ At(r, "pull")
  /\ \/ /\ clone.exists
        /\ clone' = [Holding(tip[Main]) EXCEPT !.fetch_head = tip[Main]]
        /\ Goto(r, "discover")
     \/ /\ req' = [req EXCEPT ![r].fault = TRUE, ![r].pc = "discover"]
        /\ UNCHANGED clone
  /\ UNCHANGED <<remote, cached, backend, runs>>

(* discover_workflows reads the working tree; no document, no run.              *)
discover_workflows(r) ==
  /\ At(r, "discover")
  /\ LET found == IF Ready THEN clone.tree ELSE 0
     IN  /\ cached' = found
         /\ req' = [req EXCEPT ![r].doc = found,
                      ![r].pc = IF req[r].kind = "sync" \/ found = 0 THEN "refused" ELSE "key"]
  /\ UNCHANGED <<remote, clone, backend, runs>>

(* sync_source raises (the directory cannot be removed): the request goes on    *)
(* with the documents found before.                                              *)
SyncRaises(r) ==
  /\ At(r, "clone") /\ req[r].kind \in {"source", "sync"}
  /\ req' = [req EXCEPT ![r].doc = cached, ![r].fault = TRUE,
               ![r].pc = IF req[r].kind = "sync" \/ cached = 0 THEN "refused" ELSE "key"]
  /\ UNCHANGED <<remote, server, backend, runs>>

fetch_branch_checks_out(r) ==
  /\ At(r, "fetch") /\ clone.exists
  /\ clone' = [Holding(tip[req[r].branch]) EXCEPT !.fetch_head = tip[req[r].branch]]
  /\ Goto(r, "rev-parse")
  /\ UNCHANGED <<remote, cached, backend, runs>>

(* fetch_branch: the fetch, then a second command that asks what it fetched.    *)
fetch_branch(r) ==
  /\ At(r, "fetch")
  /\ \/ /\ clone.exists
        /\ clone' = [clone EXCEPT !.fetch_head = tip[req[r].branch],
                                  !.objects = @ \cup {tip[req[r].branch]}]
        /\ Goto(r, "rev-parse")
     \/ Goto(r, "refused") /\ UNCHANGED clone
  /\ UNCHANGED <<remote, cached, backend, runs>>

RevParse(r) ==
  /\ At(r, "rev-parse")
  /\ req' = [req EXCEPT ![r].doc = clone.fetch_head,
                        ![r].pc = IF clone.fetch_head = 0 THEN "refused" ELSE "show"]
  /\ UNCHANGED <<remote, server, backend, runs>>

discover_workflows_at(r) ==
  /\ At(r, "show")
  /\ Goto(r, IF Ready /\ req[r].doc \in clone.objects THEN "key" ELSE "refused")
  /\ UNCHANGED <<remote, server, backend, runs>>

(* --- the backend -------------------------------------------------------------- *)

(* _upload_deploy_key: a command that fails, or whose answer is lost, may have  *)
(* made the file; the caller then knows no name to remove.                       *)
_upload_deploy_key(r) ==
  /\ At(r, "key")
  /\ \/ ~Keyed /\ Goto(r, "ls-remote") /\ UNCHANGED <<keys, failed>>
     \/ Keyed /\ Goto(r, "ls-remote") /\ keys' = keys \cup {r} /\ UNCHANGED failed
     \/ Keyed /\ Goto(r, "refused") /\ failed' = failed \cup {r} /\ keys' \in {keys, keys \cup {r}}
  /\ UNCHANGED <<remote, server, dirs, runs>>

Leave_without_finally(r, good) == Goto(r, IF good THEN "unkey" ELSE "refused")

(* Whatever ends the clone, the finally clause removes the key.                  *)
Leave(r, good) == req' = [req EXCEPT ![r].pc = IF good THEN "unkey" ELSE "unkey, refuse"]

_ls_remote(r) ==
  /\ At(r, "ls-remote")
  /\ \/ req' = [req EXCEPT ![r].hash = tip[req[r].branch],
                           ![r].pc = IF req[r].kind = "agent" THEN "workspace" ELSE "test"]
     \/ Leave(r, FALSE)
  /\ UNCHANGED <<remote, server, backend, runs>>

(* test -d: a directory that is there is taken as it is.                         *)
TestDir(r) ==
  /\ At(r, "test")
  /\ IF dirs[req[r].hash].state # "absent" THEN Leave(r, TRUE) ELSE Goto(r, "git clone")
  /\ UNCHANGED <<remote, server, backend, runs>>

(* git refuses a directory that has come meanwhile.                              *)
CloneBegins(r) ==
  /\ At(r, "git clone")
  /\ LET h == req[r].hash
     IN  IF dirs[h].state = "absent"
         THEN dirs' = [dirs EXCEPT ![h].state = "partial"] /\ Goto(r, "cloning")
         ELSE Leave(r, FALSE) /\ UNCHANGED dirs
  /\ UNCHANGED <<remote, server, keys, failed, runs>>

(* git clone --branch takes the head of now.  A failed clone removes its         *)
(* directory, one that is cut off leaves it.                                      *)
CloneEnds(r) ==
  /\ At(r, "cloning")
  /\ LET h == req[r].hash
     IN  \/ /\ dirs' = [dirs EXCEPT ![h] = [state |-> IF HasPostclone THEN "cloned" ELSE "ready",
                                            holds |-> tip[req[r].branch]]]
            /\ IF HasPostclone THEN Goto(r, "postclone") ELSE Leave(r, TRUE)
         \/ /\ \E left \in {Absent, dirs[h]} : dirs' = [dirs EXCEPT ![h] = left]
            /\ Leave(r, FALSE)
  /\ UNCHANGED <<remote, server, keys, failed, runs>>

Postclone(r) ==
  /\ At(r, "postclone")
  /\ \/ dirs' = [dirs EXCEPT ![req[r].hash].state = "ready"] /\ Leave(r, TRUE)
     \/ Leave(r, FALSE) /\ UNCHANGED dirs
  /\ UNCHANGED <<remote, server, keys, failed, runs>>

(* _clone_agent_workspace: a directory of its own under a fresh name.             *)
_clone_agent_workspace(r) ==
  /\ At(r, "workspace")
  /\ \E good \in BOOLEAN : Leave(r, good)
  /\ UNCHANGED <<remote, server, backend, runs>>

(* The exit code of rm is not looked at; a connection that fails raises.          *)
_cleanup_deploy_key(r) ==
  /\ At(r, "unkey") \/ At(r, "unkey, refuse")
  /\ \/ /\ keys' = keys \ {r}
        /\ Goto(r, IF At(r, "unkey") THEN "build" ELSE "refused")
        /\ UNCHANGED failed
     \/ /\ Keyed /\ failed' = failed \cup {r}
        /\ \E raised \in BOOLEAN : Goto(r, IF At(r, "unkey") /\ ~raised THEN "build" ELSE "refused")
        /\ UNCHANGED keys
  /\ UNCHANGED <<remote, server, dirs, runs>>

(* load_source_project_config: the overlay is read from the server's clone at   *)
(* the backend's commit; a commit the server has not fetched counts as a        *)
(* repository without an overlay.  _build_run then checks the document.          *)
load_source_project_config(r) ==
  /\ At(r, "build")
  /\ \E good \in BOOLEAN :
       req' = [req EXCEPT ![r].pc = IF good THEN "git root" ELSE "refused",
                 ![r].overlay = IF req[r].kind # "agent" /\ clone.exists /\ req[r].hash \in clone.objects
                                THEN req[r].hash ELSE 0]
  /\ UNCHANGED <<remote, server, backend, runs>>

(* _build_run after its one await: the run is registered, saved and driven.      *)
_build_run(r) ==
  /\ At(r, "git root")
  /\ runs' = runs \cup {r}
  /\ Goto(r, "run")
  /\ UNCHANGED <<remote, server, backend>>

Step(r) ==
  \/ clone_source(r) \/ pull_source(r) \/ discover_workflows(r) \/ SyncRaises(r)
  \/ fetch_branch(r) \/ RevParse(r) \/ discover_workflows_at(r)
  \/ _upload_deploy_key(r) \/ _ls_remote(r) \/ TestDir(r) \/ CloneBegins(r) \/ CloneEnds(r)
  \/ Postclone(r) \/ _clone_agent_workspace(r) \/ _cleanup_deploy_key(r)
  \/ load_source_project_config(r) \/ _build_run(r)

Next == \/ Push
        \/ \E r \in Requests : Arrive(r)
        \/ \E r \in Requests : Step(r)

Spec == Init /\ [][Next]_vars

------------------------------------------------------------------------------
(* A temporary key stays on the backend only while its request is under way, or *)
(* when the command that was to make or to remove it failed (the finally clause *)
(* of _clone_git_repo and _clone_agent_workspace).                               *)
KeysRemoved ==
  \A r \in keys \ failed :
    req[r].pc \in {"ls-remote", "test", "git clone", "cloning", "postclone", "workspace",
                   "unkey", "unkey, refuse"}

(* "so we never use stale cached tasks_json" (_refresh_source_workflow, main.py): *)
(* a run of the configured branch whose refresh met no fault uses a document     *)
(* that was the branch's head at some time of the request.                        *)
FreshUnlessFault ==
  \A r \in runs : req[r].kind = "source" /\ ~req[r].fault => req[r].doc \in req[r].since

NeverStale ==
  \A r \in runs : req[r].kind = "source" => req[r].doc \in req[r].since

(* "Does NOT mutate the cached status/workflows -- those always reflect the      *)
(* configured branch" (discover_workflows_at): whatever other branches are       *)
(* fetched into the clone, what is listed comes from the configured one.          *)
CachedIsConfigured == cached \in past[Main] \cup {0} /\ clone.tree \in past[Main] \cup {0}

(* "The full commit hash of the branch tip" (fetch_branch): a request for a      *)
(* branch uses a document of that branch.                                          *)
FetchedIsOfBranch ==
  \A r \in runs : req[r].kind = "branch" => req[r].doc \in past[req[r].branch]

(* (violated) README.md: "Clone into <clone_dir>/<commit_hash>/ (skipped if     *)
(* already present)": a run begins in a clone that is complete.                  *)
RunHasWholeClone ==
  \A r \in runs : req[r].kind # "agent" => dirs[req[r].hash].state = "ready"

(* "content-addressed by commit" (_clone_agent_workspace on _clone_source_repo). *)
CloneIsItsCommit ==
  \A c \in Commits : dirs[c].state = "ready" => dirs[c].holds = c
==============================================================================
