----------------------------- MODULE HostProofs -----------------------------
(* Proofs about what several requests or commands share on a host: the      *)
(* clones with their deploy keys, the daemon's pidfile, the stacks. Each    *)
(* part has an inductive invariant of its own; in the composition the other *)
(* parts stand still.                                                       *)
EXTENDS Shared, FiniteSetTheorems, TLAPS

-----------------------------------------------------------------------------
(* The deploy keys.                                                         *)

Pcs == K!SteadyPcs \cup
       {"clone", "pull", "fetch", "rev-parse", "show", "discover", "key", "ls-remote", "test",
        "git clone", "cloning", "postclone", "workspace", "unkey", "unkey, refuse", "build",
        "git root"}

Request == [pc : Pcs, kind : K!AllKinds, branch : Branches, doc : K!Commits, hash : K!Commits,
            overlay : K!Commits, fault : BOOLEAN, since : SUBSET K!Commits]

ServerClone == [cloned : BOOLEAN, exists : BOOLEAN, tree : K!Commits, fetch_head : K!Commits,
                objects : SUBSET K!Commits]

ClonesTyped ==
    /\ tip \in [Branches -> K!Commits]
    /\ pushed \in K!Commits
    /\ clone \in ServerClone
    /\ cached \in K!Commits
    /\ req \in [Requests -> Request]

(* Where the key of a request is on the backend.                            *)
Holding == {"ls-remote", "test", "git clone", "cloning", "postclone", "workspace",
            "unkey", "unkey, refuse"}

ClonesInv == keys \subseteq Requests /\ ClonesTyped /\ K!KeysRemoved

(* Commits are an interval of numbers.                                      *)
LEMMA CommitsNat == /\ K!Cardinality(Branches) \in Nat
                    /\ K!Commits = 0 .. K!Cardinality(Branches) + MaxPush
  <1>1. K!Cardinality(Branches) = Cardinality(Branches)
    BY Zenon DEF K!Cardinality, Cardinality, K!IsFiniteSet, IsFiniteSet
  <1>2. Cardinality(Branches) \in Nat
    BY ClonesAssumption, FS_CardinalityType, Zenon
  <1> QED
    BY <1>1, <1>2 DEF K!Commits

(* "No commit" is one of them.                                              *)
LEMMA ZeroIsCommit == 0 \in K!Commits
  BY ClonesAssumption, CommitsNat

(* Before the first request there is no key.                                *)
LEMMA ClonesBegin == K!Init => ClonesInv
  <1> SUFFICES ASSUME K!Init PROVE ClonesInv
    OBVIOUS
  <1>1. K!Idle \in Request
    BY ClonesAssumption, CommitsNat DEF K!Idle, Request, Pcs, K!AllKinds, K!SteadyPcs
  <1>2. tip \in [Branches -> K!Commits] /\ pushed \in K!Commits
    <2>1. PICK number \in [Branches -> 1 .. K!Cardinality(Branches)] : tip = number
      BY DEF K!Init
    <2>2. tip \in [Branches -> K!Commits]
      BY <2>1, ClonesAssumption, CommitsNat
    <2>3. K!Cardinality(Branches) \in K!Commits
      BY ClonesAssumption, CommitsNat
    <2> QED
      BY <2>2, <2>3 DEF K!Init
  <1>3. clone \in ServerClone /\ cached \in K!Commits
    BY ClonesAssumption, CommitsNat DEF K!Init, ServerClone
  <1>4. req \in [Requests -> Request] /\ keys = {}
    BY <1>1 DEF K!Init
  <1> QED
    BY <1>2, <1>3, <1>4 DEF ClonesInv, ClonesTyped, K!KeysRemoved

(* How a step may change a request and the keys.                            *)
LEMMA ClonesMove ==
    ASSUME ClonesInv, NEW r \in Requests, NEW q \in Request,
           req' = [req EXCEPT ![r] = q],
           tip' \in [Branches -> K!Commits], pushed' \in K!Commits,
           clone' \in ServerClone, cached' \in K!Commits,
           failed \subseteq failed', keys' \subseteq keys \cup {r},
           r \in keys' \ failed' => q.pc \in Holding
    PROVE  ClonesInv'
  <1>1. req' \in [Requests -> Request] /\ req'[r] = q /\ \A x \in Requests : x # r => req'[x] = req[x]
    BY DEF ClonesInv, ClonesTyped
  <1>2. K!KeysRemoved'
    <2> SUFFICES ASSUME NEW x \in keys', x \notin failed'
                 PROVE  req'[x].pc \in Holding
      BY DEF K!KeysRemoved, Holding
    <2>1. x = r \/ (x # r /\ x \in Requests /\ x \in keys \ failed)
      BY DEF ClonesInv
    <2> QED
      BY <1>1, <2>1 DEF K!KeysRemoved, ClonesInv, Holding
  <1> QED
    BY <1>1, <1>2 DEF ClonesInv, ClonesTyped

(* A step that takes a request on and changes nothing else of it.           *)
LEMMA ClonesGoto ==
    ASSUME ClonesInv, NEW r \in Requests, NEW pc \in Pcs, K!Goto(r, pc),
           tip' \in [Branches -> K!Commits], pushed' \in K!Commits,
           clone' \in ServerClone, cached' \in K!Commits,
           failed \subseteq failed', keys' \subseteq keys \cup {r},
           r \in keys' \ failed' => pc \in Holding
    PROVE  ClonesInv'
  <1> DEFINE q == [req[r] EXCEPT !.pc = pc]
  <1>1. q \in Request /\ q.pc = pc
    BY DEF ClonesInv, ClonesTyped, Request
  <1>2. req' = [req EXCEPT ![r] = q]
    BY DEF K!Goto
  <1> HIDE DEF q
  <1> QED
    BY <1>1, <1>2, ClonesMove

(* The fields a step may set keep a request typed.                          *)
LEMMA RequestSet ==
    ASSUME NEW q \in Request, NEW pc \in Pcs, NEW c \in K!Commits
    PROVE  /\ [q EXCEPT !.fault = TRUE, !.pc = pc] \in Request
           /\ [q EXCEPT !.doc = c, !.pc = pc] \in Request
           /\ [q EXCEPT !.doc = c, !.fault = TRUE, !.pc = pc] \in Request
           /\ [q EXCEPT !.hash = c, !.pc = pc] \in Request
           /\ [q EXCEPT !.pc = pc, !.overlay = c] \in Request
           /\ [q EXCEPT !.hash = c, !.pc = pc].pc = pc
  BY DEF Request

(* What a request that is not at the backend yet leaves alone.              *)
LEMMA NoKeyYet ==
    ASSUME ClonesInv, NEW r \in Requests, req[r].pc \notin Holding
    PROVE  r \notin keys \ failed
  BY DEF ClonesInv, K!KeysRemoved, Holding

(* What a fetch or a clone makes of the server's clone is typed.            *)
LEMMA HeldClone ==
    ASSUME ClonesInv, NEW b \in Branches
    PROVE  /\ tip[b] \in K!Commits
           /\ K!Holding(tip[b]) \in ServerClone
           /\ [K!Holding(tip[b]) EXCEPT !.cloned = TRUE] \in ServerClone
           /\ [K!Holding(tip[b]) EXCEPT !.fetch_head = tip[b]] \in ServerClone
           /\ [clone EXCEPT !.fetch_head = tip[b], !.objects = @ \cup {tip[b]}] \in ServerClone
  BY DEF ClonesInv, ClonesTyped, ServerClone, K!Holding

(* Every step keeps the invariant: one step per action.                     *)
LEMMA ClonesStep == ClonesInv /\ K!Next => ClonesInv'
  <1> SUFFICES ASSUME ClonesInv, K!Next PROVE ClonesInv'
    OBVIOUS
  <1> USE ClonesAssumption, CommitsNat
  <1>1. CASE K!Push
    <2>1. PICK b \in Branches :
              /\ tip' = [tip EXCEPT ![b] = pushed + 1]
              /\ req' = [r \in Requests |->
                           IF req[r].branch = b /\ req[r].pc \notin K!SteadyPcs
                           THEN [req[r] EXCEPT !.since = @ \cup {pushed + 1}] ELSE req[r]]
      BY <1>1 DEF K!Push
    <2>2. pushed + 1 \in K!Commits
      BY <1>1 DEF K!Push, ClonesInv, ClonesTyped
    <2>3. \A r \in Requests : req'[r] \in Request /\ req'[r].pc = req[r].pc
      BY <2>1, <2>2 DEF ClonesInv, ClonesTyped, Request
    <2>4. req' \in [Requests -> Request]
      BY <2>1, <2>3
    <2>5. tip' \in [Branches -> K!Commits] /\ pushed' \in K!Commits
      BY <1>1, <2>1, <2>2 DEF K!Push, ClonesInv, ClonesTyped
    <2> QED
      BY <1>1, <2>3, <2>4, <2>5 DEF K!Push, K!server, K!backend, ClonesInv, ClonesTyped, K!KeysRemoved
  <1>2. ASSUME NEW r \in Requests, K!Arrive(r) PROVE ClonesInv'
    <2>1. PICK kind \in Kinds, b \in Branches : K!Begin(r, kind, b)
      BY <1>2 DEF K!Arrive
    <2> DEFINE pc == CASE kind = "agent" -> "key"
                       [] kind = "branch" /\ K!Ready -> "fetch"
                       [] kind \in {"sync", "source"} /\ K!Ready -> "pull"
                       [] kind # "agent" /\ ~K!Ready -> "clone"
               q == [req[r] EXCEPT !.kind = kind, !.branch = b, !.since = {tip[b]}, !.pc = pc]
    <2>2. pc \in Pcs
      <3>1. kind \in K!AllKinds
        OBVIOUS
      <3> QED
        BY <3>1 DEF K!AllKinds, Pcs
    <2> HIDE DEF pc
    <2>3. q \in Request
      <3>1. {tip[b]} \in SUBSET K!Commits /\ kind \in K!AllKinds /\ req[r] \in Request
        BY DEF ClonesInv, ClonesTyped
      <3> QED
        BY <2>2, <3>1 DEF Request
    <2>4. req' = [req EXCEPT ![r] = q]
      BY <2>1 DEF K!Begin, pc
    <2>5. r \notin keys \ failed
      BY <2>1 DEF K!Begin, K!At, ClonesInv, K!KeysRemoved
    <2>6. clone' \in ServerClone
      <3>1. K!Removed \in ServerClone
        BY ZeroIsCommit DEF ClonesInv, ClonesTyped, ServerClone, K!Removed
      <3> QED
        BY <2>1, <3>1 DEF K!Begin, ClonesInv, ClonesTyped
    <2> HIDE DEF q
    <2> QED
      BY <2>1, <2>3, <2>4, <2>5, <2>6, ClonesMove DEF K!Begin, K!remote, K!backend, ClonesInv, ClonesTyped
  <1>3. ASSUME NEW r \in Requests, K!clone_source(r) PROVE ClonesInv'
    <2>1. r \notin keys \ failed
      BY <1>3, NoKeyYet DEF K!clone_source, K!At, Holding
    <2>2. CASE /\ clone' = [K!Holding(tip[Main]) EXCEPT !.cloned = TRUE]
               /\ K!Goto(r, IF req[r].kind = "branch" THEN "fetch" ELSE "discover")
      <3>1. (IF req[r].kind = "branch" THEN "fetch" ELSE "discover") \in Pcs
        BY DEF Pcs
      <3> QED
        BY <1>3, <2>1, <2>2, <3>1, HeldClone, ClonesGoto
        DEF K!clone_source, K!remote, K!backend, ClonesInv, ClonesTyped
    <2>3. ASSUME NEW left \in BOOLEAN,
                 clone' = [clone EXCEPT !.cloned = FALSE, !.exists = left /\ @],
                 req' = [req EXCEPT ![r].fault = TRUE,
                                    ![r].pc = IF req[r].kind = "branch" THEN "refused" ELSE "discover"]
          PROVE  ClonesInv'
      <3> DEFINE q == [req[r] EXCEPT !.fault = TRUE,
                         !.pc = IF req[r].kind = "branch" THEN "refused" ELSE "discover"]
      <3>0. (IF req[r].kind = "branch" THEN "refused" ELSE "discover") \in Pcs
        BY DEF Pcs, K!SteadyPcs
      <3>1. q \in Request
        BY <3>0, ZeroIsCommit, RequestSet DEF ClonesInv, ClonesTyped
      <3>2. req' = [req EXCEPT ![r] = q]
        BY <2>3 DEF ClonesInv, ClonesTyped
      <3>3. clone' \in ServerClone
        BY <2>3 DEF ClonesInv, ClonesTyped, ServerClone
      <3> HIDE DEF q
      <3> QED
        BY <1>3, <2>1, <3>1, <3>2, <3>3, ClonesMove
        DEF K!clone_source, K!remote, K!backend, ClonesInv, ClonesTyped
    <2> QED
      BY <1>3, <2>2, <2>3 DEF K!clone_source
  <1>4. ASSUME NEW r \in Requests, K!pull_source(r) PROVE ClonesInv'
    <2>1. r \notin keys \ failed
      BY <1>4, NoKeyYet DEF K!pull_source, K!At, Holding
    <2>2. CASE K!Goto(r, "discover")
      <3>1. "discover" \in Pcs
        BY DEF Pcs
      <3>2. clone' \in ServerClone
        BY <1>4, HeldClone, ClonesAssumption DEF K!pull_source, ClonesInv, ClonesTyped
      <3> QED
        BY <1>4, <2>1, <2>2, <3>1, <3>2, ClonesGoto DEF K!pull_source, K!remote, K!backend, ClonesInv, ClonesTyped
    <2>3. CASE req' = [req EXCEPT ![r].fault = TRUE, ![r].pc = "discover"]
      <3> DEFINE q == [req[r] EXCEPT !.fault = TRUE, !.pc = "discover"]
      <3>1. "discover" \in Pcs
        BY DEF Pcs
      <3>2. q \in Request /\ req' = [req EXCEPT ![r] = q]
        BY <2>3, <3>1, ZeroIsCommit, RequestSet DEF ClonesInv, ClonesTyped
      <3>3. clone' \in ServerClone
        BY <1>4, HeldClone, ClonesAssumption DEF K!pull_source, ClonesInv, ClonesTyped
      <3> HIDE DEF q
      <3> QED
        BY <1>4, <2>1, <3>2, <3>3, ClonesMove DEF K!pull_source, K!remote, K!backend, ClonesInv, ClonesTyped
    <2> QED
      BY <1>4, <2>2, <2>3 DEF K!pull_source
  <1>5. ASSUME NEW r \in Requests, K!discover_workflows(r) PROVE ClonesInv'
    <2> DEFINE found == IF K!Ready THEN clone.tree ELSE 0
               pc == IF req[r].kind = "sync" \/ found = 0 THEN "refused" ELSE "key"
               q == [req[r] EXCEPT !.doc = found, !.pc = pc]
    <2>1. r \notin keys \ failed
      BY <1>5, NoKeyYet DEF K!discover_workflows, K!At, Holding
    <2>2. found \in K!Commits
      BY ZeroIsCommit DEF ClonesInv, ClonesTyped, ServerClone
    <2>3. cached' = found /\ req' = [req EXCEPT ![r] = q]
      BY <1>5 DEF K!discover_workflows
    <2>4. pc \in Pcs
      BY DEF Pcs, K!SteadyPcs
    <2>6. UNCHANGED <<tip, pushed, clone, keys, failed>>
      BY <1>5 DEF K!discover_workflows, K!remote, K!backend
    <2> HIDE DEF found, pc
    <2>5. q \in Request
      BY <2>2, <2>4, RequestSet DEF ClonesInv, ClonesTyped
    <2>7. tip' \in [Branches -> K!Commits] /\ pushed' \in K!Commits /\ clone' \in ServerClone
      BY <2>6 DEF ClonesInv, ClonesTyped
    <2>8. cached' \in K!Commits
      BY <2>2, <2>3
    <2>9. failed \subseteq failed' /\ keys' \subseteq keys \cup {r} /\ r \notin keys' \ failed'
      BY <2>1, <2>6
    <2> HIDE DEF q
    <2> QED
      BY <2>3, <2>5, <2>7, <2>8, <2>9, ClonesMove
  <1>6. ASSUME NEW r \in Requests, K!SyncRaises(r) PROVE ClonesInv'
    <2> DEFINE pc == IF req[r].kind = "sync" \/ cached = 0 THEN "refused" ELSE "key"
               q == [req[r] EXCEPT !.doc = cached, !.fault = TRUE, !.pc = pc]
    <2>1. r \notin keys \ failed
      BY <1>6, NoKeyYet DEF K!SyncRaises, K!At, Holding
    <2>2. req' = [req EXCEPT ![r] = q]
      BY <1>6 DEF K!SyncRaises
    <2>3. pc \in Pcs
      BY DEF Pcs, K!SteadyPcs
    <2> HIDE DEF pc
    <2>4. q \in Request
      BY <2>3, RequestSet DEF ClonesInv, ClonesTyped
    <2> HIDE DEF q
    <2> QED
      BY <1>6, <2>1, <2>2, <2>4, ClonesMove DEF K!SyncRaises, K!remote, K!server, K!backend, ClonesInv, ClonesTyped
  <1>7. ASSUME NEW r \in Requests, K!fetch_branch(r) PROVE ClonesInv'
    <2>1. r \notin keys \ failed
      BY <1>7, NoKeyYet DEF K!fetch_branch, K!At, Holding
    <2>2. req[r].branch \in Branches
      BY DEF ClonesInv, ClonesTyped, Request
    <2>3. clone' \in ServerClone
      BY <1>7, <2>2, HeldClone DEF K!fetch_branch, ClonesInv, ClonesTyped
    <2>4. PICK pc \in {"rev-parse", "refused"} : K!Goto(r, pc)
      BY <1>7 DEF K!fetch_branch
    <2>5. pc \in Pcs
      BY DEF Pcs, K!SteadyPcs
    <2> QED
      BY <1>7, <2>1, <2>3, <2>4, <2>5, ClonesGoto
      DEF K!fetch_branch, K!remote, K!backend, ClonesInv, ClonesTyped
  <1>8. ASSUME NEW r \in Requests, K!RevParse(r) PROVE ClonesInv'
    <2> DEFINE pc == IF clone.fetch_head = 0 THEN "refused" ELSE "show"
               q == [req[r] EXCEPT !.doc = clone.fetch_head, !.pc = pc]
    <2>1. r \notin keys \ failed
      BY <1>8, NoKeyYet DEF K!RevParse, K!At, Holding
    <2>2. req' = [req EXCEPT ![r] = q]
      BY <1>8 DEF K!RevParse
    <2>3. pc \in Pcs /\ clone.fetch_head \in K!Commits
      BY DEF Pcs, K!SteadyPcs, ClonesInv, ClonesTyped, ServerClone
    <2> HIDE DEF pc
    <2>4. q \in Request
      BY <2>3, RequestSet DEF ClonesInv, ClonesTyped
    <2> HIDE DEF q
    <2> QED
      BY <1>8, <2>1, <2>2, <2>4, ClonesMove DEF K!RevParse, K!remote, K!server, K!backend, ClonesInv, ClonesTyped
  <1>9. ASSUME NEW r \in Requests, K!discover_workflows_at(r) PROVE ClonesInv'
    <2>1. r \notin keys \ failed
      BY <1>9, NoKeyYet DEF K!discover_workflows_at, K!At, Holding
    <2>2. PICK pc \in {"key", "refused"} : K!Goto(r, pc)
      BY <1>9 DEF K!discover_workflows_at
    <2>3. pc \in Pcs
      BY DEF Pcs, K!SteadyPcs
    <2> QED
      BY <1>9, <2>1, <2>2, <2>3, ClonesGoto DEF K!discover_workflows_at, K!remote, K!server, K!backend, ClonesInv, ClonesTyped
  <1>10. ASSUME NEW r \in Requests, K!_upload_deploy_key(r) PROVE ClonesInv'
    <2>1. r \notin keys \ failed
      BY <1>10, NoKeyYet DEF K!_upload_deploy_key, K!At, Holding
    <2>2. CASE K!Goto(r, "ls-remote") /\ failed' = failed
      <3>1. "ls-remote" \in Pcs \cap Holding
        BY DEF Pcs, Holding
      <3> QED
        BY <1>10, <2>2, <3>1, ClonesGoto DEF K!_upload_deploy_key, K!remote, K!server, ClonesInv, ClonesTyped
    <2>3. CASE K!Goto(r, "refused") /\ failed' = failed \cup {r}
      <3>1. "refused" \in Pcs
        BY DEF Pcs, K!SteadyPcs
      <3> QED
        BY <1>10, <2>3, <3>1, ClonesGoto DEF K!_upload_deploy_key, K!remote, K!server, ClonesInv, ClonesTyped
    <2> QED
      BY <1>10, <2>2, <2>3 DEF K!_upload_deploy_key
  <1>11. ASSUME NEW r \in Requests, K!_ls_remote(r) PROVE ClonesInv'
    <2>1. CASE K!Leave(r, FALSE)
      <3>1. "unkey, refuse" \in Pcs \cap Holding
        BY DEF Pcs, Holding
      <3>2. K!Goto(r, "unkey, refuse")
        BY <2>1 DEF K!Leave, K!Goto
      <3> QED
        BY <1>11, <3>1, <3>2, ClonesGoto DEF K!_ls_remote, K!remote, K!server, K!backend, ClonesInv, ClonesTyped
    <2>2. CASE ~K!Leave(r, FALSE)
      <3> DEFINE pc == IF req[r].kind = "agent" THEN "workspace" ELSE "test"
                 q == [req[r] EXCEPT !.hash = tip[req[r].branch], !.pc = pc]
      <3>1. req' = [req EXCEPT ![r] = q]
        BY <1>11, <2>2 DEF K!_ls_remote
      <3>2. pc \in Pcs \cap Holding
        BY DEF Pcs, Holding
      <3>3. tip[req[r].branch] \in K!Commits
        BY DEF ClonesInv, ClonesTyped, Request
      <3> HIDE DEF pc
      <3>4. q \in Request /\ q.pc \in Holding
        BY <3>2, <3>3, RequestSet DEF ClonesInv, ClonesTyped
      <3> HIDE DEF q
      <3> QED
        BY <1>11, <3>1, <3>4, ClonesMove DEF K!_ls_remote, K!remote, K!server, K!backend, ClonesInv, ClonesTyped
    <2> QED
      BY <2>1, <2>2
  <1>12. ASSUME NEW r \in Requests, K!TestDir(r) PROVE ClonesInv'
    <2>1. PICK pc \in {"unkey", "git clone"} : K!Goto(r, pc)
      BY <1>12 DEF K!TestDir, K!Leave, K!Goto
    <2>2. pc \in Pcs /\ pc \in Holding
      BY DEF Pcs, Holding
    <2> QED
      BY <1>12, <2>1, <2>2, ClonesGoto DEF K!TestDir, K!remote, K!server, K!backend, ClonesInv, ClonesTyped
  <1>13. ASSUME NEW r \in Requests, K!CloneBegins(r) PROVE ClonesInv'
    <2>1. PICK pc \in {"cloning", "unkey, refuse"} : K!Goto(r, pc)
      BY <1>13 DEF K!CloneBegins, K!Leave, K!Goto
    <2>2. pc \in Pcs /\ pc \in Holding
      BY DEF Pcs, Holding
    <2> QED
      BY <1>13, <2>1, <2>2, ClonesGoto DEF K!CloneBegins, K!remote, K!server, K!backend, ClonesInv, ClonesTyped
  <1>14. ASSUME NEW r \in Requests, K!CloneEnds(r) PROVE ClonesInv'
    <2>1. PICK pc \in {"postclone", "unkey", "unkey, refuse"} : K!Goto(r, pc)
      BY <1>14 DEF K!CloneEnds, K!Leave, K!Goto
    <2>2. pc \in Pcs /\ pc \in Holding
      BY DEF Pcs, Holding
    <2> QED
      BY <1>14, <2>1, <2>2, ClonesGoto DEF K!CloneEnds, K!remote, K!server, K!backend, ClonesInv, ClonesTyped
  <1>15. ASSUME NEW r \in Requests, K!Postclone(r) PROVE ClonesInv'
    <2>1. PICK pc \in {"unkey", "unkey, refuse"} : K!Goto(r, pc)
      BY <1>15 DEF K!Postclone, K!Leave, K!Goto
    <2>2. pc \in Pcs /\ pc \in Holding
      BY DEF Pcs, Holding
    <2> QED
      BY <1>15, <2>1, <2>2, ClonesGoto DEF K!Postclone, K!remote, K!server, K!backend, ClonesInv, ClonesTyped
  <1>16. ASSUME NEW r \in Requests, K!_clone_agent_workspace(r) PROVE ClonesInv'
    <2>1. PICK pc \in {"unkey", "unkey, refuse"} : K!Goto(r, pc)
      BY <1>16 DEF K!_clone_agent_workspace, K!Leave, K!Goto
    <2>2. pc \in Pcs /\ pc \in Holding
      BY DEF Pcs, Holding
    <2> QED
      BY <1>16, <2>1, <2>2, ClonesGoto DEF K!_clone_agent_workspace, K!remote, K!server, K!backend, ClonesInv, ClonesTyped
  <1>17. ASSUME NEW r \in Requests, K!_cleanup_deploy_key(r) PROVE ClonesInv'
    <2>1. PICK pc \in {"build", "refused"} : K!Goto(r, pc)
      BY <1>17 DEF K!_cleanup_deploy_key
    <2>2. pc \in Pcs
      BY DEF Pcs, K!SteadyPcs
    <2> QED
      BY <1>17, <2>1, <2>2, ClonesGoto DEF K!_cleanup_deploy_key, K!remote, K!server, ClonesInv, ClonesTyped
  <1>18. ASSUME NEW r \in Requests, K!load_source_project_config(r) PROVE ClonesInv'
    <2>1. r \notin keys \ failed
      BY <1>18, NoKeyYet DEF K!load_source_project_config, K!At, Holding
    <2>2. PICK good \in BOOLEAN :
            req' = [req EXCEPT ![r].pc = IF good THEN "git root" ELSE "refused",
                 ![r].overlay = IF req[r].kind # "agent" /\ clone.exists /\ req[r].hash \in clone.objects
                                THEN req[r].hash ELSE 0]
      BY <1>18 DEF K!load_source_project_config
    <2> DEFINE pc == IF good THEN "git root" ELSE "refused"
               c == IF req[r].kind # "agent" /\ clone.exists /\ req[r].hash \in clone.objects
                    THEN req[r].hash ELSE 0
               q == [req[r] EXCEPT !.pc = pc, !.overlay = c]
    <2>3. req' = [req EXCEPT ![r] = q]
      BY <2>2
    <2>4. pc \in Pcs /\ c \in K!Commits
      BY ZeroIsCommit DEF Pcs, K!SteadyPcs, ClonesInv, ClonesTyped, Request
    <2> HIDE DEF pc, c
    <2>5. q \in Request
      BY <2>4, RequestSet DEF ClonesInv, ClonesTyped
    <2> HIDE DEF q
    <2> QED
      BY <1>18, <2>1, <2>3, <2>5, ClonesMove DEF K!load_source_project_config, K!remote, K!server, K!backend, ClonesInv, ClonesTyped
  <1>19. ASSUME NEW r \in Requests, K!_build_run(r) PROVE ClonesInv'
    <2>1. r \notin keys \ failed
      BY <1>19, NoKeyYet DEF K!_build_run, K!At, Holding
    <2>2. "run" \in Pcs
      BY DEF Pcs, K!SteadyPcs
    <2> QED
      BY <1>19, <2>1, <2>2, ClonesGoto DEF K!_build_run, K!remote, K!server, K!backend, ClonesInv, ClonesTyped
  <1> QED
    BY <1>1, <1>2, <1>3, <1>4, <1>5, <1>6, <1>7, <1>8, <1>9, <1>10, <1>11, <1>12, <1>13, <1>14,
       <1>15, <1>16, <1>17, <1>18, <1>19 DEF K!Next, K!Step

(* A temporary deploy key is on the backend only while its request is under *)
(* way, or when the command that was to make or to remove it has failed     *)
(* (the finally clauses of _clone_git_repo and _clone_agent_workspace in    *)
(* runs/manager.py).                                                        *)
THEOREM KeysAreRemoved == Spec => []KeysRemoved
  <1> DEFINE Inv == part = "clones" => ClonesInv
  <1>1. Init => Inv
    BY ClonesBegin DEF Init
  <1>2. Inv /\ [Next]_vars => Inv'
    <2> SUFFICES ASSUME Inv, [Next]_vars PROVE Inv'
      OBVIOUS
    <2>1. CASE part = "clones" /\ K!Next /\ UNCHANGED part
      BY <2>1, ClonesStep
    <2>2. CASE UNCHANGED <<part, ClonesVars>>
      BY <2>2 DEF ClonesVars, ClonesInv, ClonesTyped, K!KeysRemoved
    <2> QED
      BY <2>1, <2>2 DEF Next, vars
  <1>3. Inv => KeysRemoved
    BY DEF ClonesInv, KeysRemoved
  <1> QED
    BY <1>1, <1>2, <1>3, PTL DEF Spec

-----------------------------------------------------------------------------
(* The documents of the configured branch.                                  *)

(* Where a request has read its document.                                   *)
Chosen == {"key", "ls-remote", "test", "git clone", "cloning", "postclone", "workspace",
           "unkey", "unkey, refuse", "build", "git root", "run"}

(* A request for the source, whose refresh has met no fault, finds in the   *)
(* clone a head that the branch has had since the request came, or nothing; *)
(* the head of now is one of these.                                         *)
Fresh(q, head, tree) ==
    q.kind = "source" =>
        /\ q.branch = Main /\ q.pc \notin {"fetch", "rev-parse", "show"}
        /\ q.pc \notin K!SteadyPcs => head \in q.since
        /\ ~q.fault => /\ q.pc = "discover" => tree \in q.since \cup {0}
                       /\ q.pc \in Chosen => q.doc \in q.since

FreshInv ==
    /\ \A x \in Requests : Fresh(req[x], tip[Main], clone.tree)
    /\ \A x \in runs : x \in Requests /\ req[x].pc = "run"
    /\ Branches \subseteq DOMAIN past /\ tip[Main] \in past[Main]
    /\ K!CachedIsConfigured

(* A step of one request: it stays fresh itself, and the clone turns to the *)
(* head of the branch or to nothing, if it turns.                           *)
LEMMA FreshMove ==
    ASSUME ClonesInv, FreshInv, NEW r \in Requests, NEW q, req' = [req EXCEPT ![r] = q],
           tip' = tip, past' = past, req[r].pc # "run",
           clone'.tree \in {clone.tree, tip[Main], 0}, cached' \in {cached, clone.tree, 0},
           Fresh(q, tip[Main], clone'.tree),
           runs' = runs \/ (runs' = runs \cup {r} /\ q.pc = "run")
    PROVE  FreshInv'
  <1>1. \A x \in Requests : req'[x] = IF x = r THEN q ELSE req[x]
    BY DEF ClonesInv, ClonesTyped
  <1>2. ASSUME NEW x \in Requests PROVE Fresh(req[x], tip[Main], clone.tree)'
    <2>1. CASE x = r
      BY <1>1, <2>1 DEF Fresh
    <2>2. CASE x # r
      <3>1. Fresh(req[x], tip[Main], clone.tree) /\ req'[x] = req[x]
        BY <1>1, <2>2 DEF FreshInv
      <3>2. "discover" \notin K!SteadyPcs
        BY DEF K!SteadyPcs
      <3> QED
        BY <3>1, <3>2 DEF Fresh
    <2> QED
      BY <2>1, <2>2
  <1>3. \A x \in runs' : x \in Requests /\ req'[x].pc = "run"
    BY <1>1 DEF FreshInv
  <1>4. K!CachedIsConfigured'
    BY DEF FreshInv, K!CachedIsConfigured
  <1> QED
    BY <1>2, <1>3, <1>4 DEF FreshInv

(* Once the document is read, what follows leaves it.                       *)
LEMMA FreshLater ==
    ASSUME ClonesInv, FreshInv, NEW r \in Requests, NEW q, req' = [req EXCEPT ![r] = q],
           UNCHANGED <<tip, past, clone, cached>>,
           req[r].pc \in Chosen \ {"run"}, q.pc \in Chosen \cup {"refused"},
           q.kind = req[r].kind, q.branch = req[r].branch, q.doc = req[r].doc,
           q.since = req[r].since, q.fault = req[r].fault,
           runs' = runs \/ (runs' = runs \cup {r} /\ q.pc = "run")
    PROVE  FreshInv'
  <1>1. /\ Chosen \cap {"fetch", "rev-parse", "show", "discover"} = {}
        /\ (Chosen \ {"run"}) \cap K!SteadyPcs = {} /\ "refused" \in K!SteadyPcs
        /\ "refused" \notin {"fetch", "rev-parse", "show", "discover"} \cup Chosen
    BY DEF Chosen, K!SteadyPcs
  <1>2. Fresh(q, tip[Main], clone.tree)
    BY <1>1 DEF FreshInv, Fresh
  <1> QED
    BY <1>2, FreshMove

LEMMA FreshGoto ==
    ASSUME ClonesInv, FreshInv, NEW r \in Requests, NEW pc \in Chosen \cup {"refused"},
           K!Goto(r, pc), UNCHANGED <<tip, past, clone, cached>>,
           req[r].pc \in Chosen \ {"run"},
           runs' = runs \/ (runs' = runs \cup {r} /\ pc = "run")
    PROVE  FreshInv'
  <1> DEFINE q == [req[r] EXCEPT !.pc = pc]
  <1>1. /\ q.pc = pc /\ q.kind = req[r].kind /\ q.branch = req[r].branch /\ q.doc = req[r].doc
        /\ q.since = req[r].since /\ q.fault = req[r].fault
    BY DEF ClonesInv, ClonesTyped, Request
  <1>2. req' = [req EXCEPT ![r] = q]
    BY DEF K!Goto
  <1> HIDE DEF q
  <1> QED
    BY <1>1, <1>2, FreshLater

(* Before the document is read: the refresh of the clone.                   *)
LEMMA FreshRefresh ==
    ASSUME ClonesInv, FreshInv, NEW r \in Requests,
           \/ K!clone_source(r) \/ K!pull_source(r) \/ K!discover_workflows(r) \/ K!SyncRaises(r)
    PROVE  FreshInv'
  <1>q. req[r] \in Request /\ req \in [Requests -> Request] /\ clone \in ServerClone
    BY DEF ClonesInv, ClonesTyped
  <1>f. Fresh(req[r], tip[Main], clone.tree)
    BY DEF FreshInv
  <1>s. K!SteadyPcs = {"idle", "run", "refused"}
    BY DEF K!SteadyPcs
  <1>t. /\ [K!Holding(tip[Main]) EXCEPT !.cloned = TRUE].tree = tip[Main]
        /\ [K!Holding(tip[Main]) EXCEPT !.fetch_head = tip[Main]].tree = tip[Main]
        /\ \A e \in BOOLEAN : [clone EXCEPT !.cloned = FALSE, !.exists = e].tree = clone.tree
    BY <1>q DEF K!Holding, ServerClone
  <1>1. CASE K!clone_source(r)
    <2> DEFINE pc == IF req[r].kind = "branch" THEN "fetch" ELSE "discover"
               pc2 == IF req[r].kind = "branch" THEN "refused" ELSE "discover"
               q == [req[r] EXCEPT !.pc = pc]
               q2 == [req[r] EXCEPT !.fault = TRUE, !.pc = pc2]
    <2>1. req[r].pc = "clone" /\ UNCHANGED <<tip, past, cached, runs>>
      BY <1>1 DEF K!clone_source, K!At, K!remote
    <2>2. CASE clone'.tree = tip[Main] /\ req' = [req EXCEPT ![r] = q]
      <3>1. Fresh(q, tip[Main], clone'.tree)
        BY <1>q, <1>f, <1>s, <2>1, <2>2 DEF Fresh, Request, Chosen
      <3> HIDE DEF q
      <3> QED
        BY <2>1, <2>2, <3>1, FreshMove
    <2>3. CASE clone'.tree = clone.tree /\ req' = [req EXCEPT ![r] = q2]
      <3>1. Fresh(q2, tip[Main], clone'.tree)
        BY <1>q, <1>f, <1>s, <2>1, <2>3 DEF Fresh, Request, Chosen
      <3> HIDE DEF q2
      <3> QED
        BY <2>1, <2>3, <3>1, FreshMove
    <2>4. \/ clone'.tree = tip[Main] /\ req' = [req EXCEPT ![r] = q]
          \/ clone'.tree = clone.tree /\ req' = [req EXCEPT ![r] = q2]
      <3>1. CASE /\ clone' = [K!Holding(tip[Main]) EXCEPT !.cloned = TRUE]
                 /\ K!Goto(r, pc)
        BY <3>1, <1>t DEF K!Goto
      <3>2. CASE \E left \in BOOLEAN :
                   /\ clone' = [clone EXCEPT !.cloned = FALSE, !.exists = left /\ @]
                   /\ req' = [req EXCEPT ![r].fault = TRUE, ![r].pc = pc2]
        <4>1. clone'.tree = clone.tree
          BY <3>2, <1>q DEF ServerClone
        <4> QED
          BY <3>2, <4>1, <1>q
      <3> QED
        BY <1>1, <3>1, <3>2 DEF K!clone_source
    <2> QED
      BY <2>2, <2>3, <2>4
  <1>2. CASE K!pull_source(r)
    <2> DEFINE q == [req[r] EXCEPT !.pc = "discover"]
               q2 == [req[r] EXCEPT !.fault = TRUE, !.pc = "discover"]
    <2>1. req[r].pc = "pull" /\ UNCHANGED <<tip, past, cached, runs>>
      BY <1>2 DEF K!pull_source, K!At, K!remote
    <2>2. CASE clone'.tree = tip[Main] /\ req' = [req EXCEPT ![r] = q]
      <3>1. Fresh(q, tip[Main], clone'.tree)
        BY <1>q, <1>f, <1>s, <2>1, <2>2 DEF Fresh, Request, Chosen
      <3> HIDE DEF q
      <3> QED
        BY <2>1, <2>2, <3>1, FreshMove
    <2>3. CASE clone'.tree = clone.tree /\ req' = [req EXCEPT ![r] = q2]
      <3>1. Fresh(q2, tip[Main], clone'.tree)
        BY <1>q, <1>f, <1>s, <2>1, <2>3 DEF Fresh, Request, Chosen
      <3> HIDE DEF q2
      <3> QED
        BY <2>1, <2>3, <3>1, FreshMove
    <2>4. \/ clone'.tree = tip[Main] /\ req' = [req EXCEPT ![r] = q]
          \/ clone'.tree = clone.tree /\ req' = [req EXCEPT ![r] = q2]
      <3>1. CASE /\ clone' = [K!Holding(tip[Main]) EXCEPT !.fetch_head = tip[Main]]
                 /\ K!Goto(r, "discover")
        BY <3>1, <1>t DEF K!Goto
      <3>2. CASE /\ req' = [req EXCEPT ![r].fault = TRUE, ![r].pc = "discover"]
                 /\ UNCHANGED clone
        BY <3>2, <1>q
      <3> QED
        BY <1>2, <3>1, <3>2 DEF K!pull_source
    <2> QED
      BY <2>2, <2>3, <2>4
  <1>3. CASE K!discover_workflows(r)
    <2> DEFINE found == IF K!Ready THEN clone.tree ELSE 0
               pc == IF req[r].kind = "sync" \/ found = 0 THEN "refused" ELSE "key"
               q == [req[r] EXCEPT !.doc = found, !.pc = pc]
    <2>1. /\ req[r].pc = "discover" /\ cached' = found /\ req' = [req EXCEPT ![r] = q]
          /\ UNCHANGED <<tip, past, clone, runs>>
      BY <1>3 DEF K!discover_workflows, K!At, K!remote
    <2>2. found \in {clone.tree, 0}
      OBVIOUS
    <2> HIDE DEF found
    <2>3. Fresh(q, tip[Main], clone'.tree)
      BY <1>q, <1>f, <1>s, <2>1, <2>2 DEF Fresh, Request, Chosen
    <2> HIDE DEF q
    <2> QED
      BY <2>1, <2>2, <2>3, FreshMove
  <1>4. CASE K!SyncRaises(r)
    <2> DEFINE pc == IF req[r].kind = "sync" \/ cached = 0 THEN "refused" ELSE "key"
               q == [req[r] EXCEPT !.doc = cached, !.fault = TRUE, !.pc = pc]
    <2>1. /\ req[r].pc = "clone" /\ req' = [req EXCEPT ![r] = q]
          /\ UNCHANGED <<tip, past, clone, cached, runs>>
      BY <1>4, <1>q DEF K!SyncRaises, K!At, K!remote, K!server
    <2>2. Fresh(q, tip[Main], clone'.tree)
      BY <1>q, <1>f, <1>s, <2>1 DEF Fresh, Request, Chosen
    <2> HIDE DEF q
    <2> QED
      BY <2>1, <2>2, FreshMove
  <1> QED
    BY <1>1, <1>2, <1>3, <1>4

(* A branch is fetched for a request of another kind, and leaves the tree.  *)
LEMMA FreshFetch ==
    ASSUME ClonesInv, FreshInv, NEW r \in Requests,
           K!fetch_branch(r) \/ K!RevParse(r) \/ K!discover_workflows_at(r)
    PROVE  FreshInv'
  <1>q. req[r] \in Request /\ req \in [Requests -> Request] /\ clone \in ServerClone
    BY DEF ClonesInv, ClonesTyped
  <1>1. req[r].pc \in {"fetch", "rev-parse", "show"}
    BY DEF K!fetch_branch, K!RevParse, K!discover_workflows_at, K!At
  <1>2. req[r].kind # "source"
    BY <1>1 DEF FreshInv, Fresh
  <1>3. clone'.tree = clone.tree /\ UNCHANGED <<tip, past, cached, runs>>
    BY <1>q DEF K!fetch_branch, K!RevParse, K!discover_workflows_at, K!remote, K!server, ServerClone
  <1>4. \E q : q.kind = req[r].kind /\ req' = [req EXCEPT ![r] = q]
    <2>1. \A pc, c : /\ [req[r] EXCEPT !.pc = pc].kind = req[r].kind
                     /\ [req[r] EXCEPT !.doc = c, !.pc = pc].kind = req[r].kind
      BY <1>q DEF Request
    <2>2. CASE \E pc : K!Goto(r, pc)
      BY <2>1, <2>2 DEF K!Goto
    <2>3. CASE K!RevParse(r)
      <3>1. req' = [req EXCEPT ![r] =
               [req[r] EXCEPT !.doc = clone.fetch_head,
                              !.pc = IF clone.fetch_head = 0 THEN "refused" ELSE "show"]]
        BY <2>3 DEF K!RevParse
      <3> QED
        BY <2>1, <3>1
    <2> QED
      BY <2>2, <2>3 DEF K!fetch_branch, K!discover_workflows_at
  <1>5. PICK q : q.kind = req[r].kind /\ req' = [req EXCEPT ![r] = q]
    BY <1>4
  <1>6. Fresh(q, tip[Main], clone'.tree)
    BY <1>2, <1>5 DEF Fresh
  <1> QED
    BY <1>1, <1>3, <1>5, <1>6, FreshMove

(* At the backend.                                                          *)
LEMMA FreshBackend ==
    ASSUME ClonesInv, FreshInv, NEW r \in Requests,
           \/ K!_upload_deploy_key(r) \/ K!_ls_remote(r) \/ K!TestDir(r) \/ K!CloneBegins(r)
           \/ K!CloneEnds(r) \/ K!Postclone(r) \/ K!_clone_agent_workspace(r)
           \/ K!_cleanup_deploy_key(r) \/ K!load_source_project_config(r) \/ K!_build_run(r)
    PROVE  FreshInv'
  <1>q. req[r] \in Request /\ req \in [Requests -> Request]
    BY DEF ClonesInv, ClonesTyped
  <1>u. UNCHANGED <<tip, past, clone, cached>>
    BY DEF K!_upload_deploy_key, K!_ls_remote, K!TestDir, K!CloneBegins, K!CloneEnds, K!Postclone,
           K!_clone_agent_workspace, K!_cleanup_deploy_key, K!load_source_project_config,
           K!_build_run, K!remote, K!server
  <1>p. req[r].pc \in Chosen \ {"run"}
    BY DEF K!_upload_deploy_key, K!_ls_remote, K!TestDir, K!CloneBegins, K!CloneEnds, K!Postclone,
           K!_clone_agent_workspace, K!_cleanup_deploy_key, K!load_source_project_config,
           K!_build_run, K!At, Chosen
  <1>g. ASSUME NEW good \in BOOLEAN, K!Leave(r, good), UNCHANGED runs PROVE FreshInv'
    <2>1. (IF good THEN "unkey" ELSE "unkey, refuse") \in Chosen
      BY DEF Chosen
    <2> QED
      BY <1>g, <1>u, <1>p, <2>1, FreshGoto DEF K!Leave, K!Goto
  <1>c. {"ls-remote", "git clone", "cloning", "postclone", "build", "run"} \subseteq Chosen
    BY DEF Chosen
  <1>1. CASE K!_build_run(r)
    BY <1>1, <1>u, <1>p, <1>c, FreshGoto DEF K!_build_run
  <1>2. CASE K!_upload_deploy_key(r) \/ K!_cleanup_deploy_key(r)
    <2>1. UNCHANGED runs /\ \E pc \in {"ls-remote", "build", "refused"} : K!Goto(r, pc)
      BY <1>2 DEF K!_upload_deploy_key, K!_cleanup_deploy_key
    <2> QED
      BY <2>1, <1>u, <1>p, <1>c, FreshGoto
  <1>3. CASE K!TestDir(r) \/ K!CloneBegins(r) \/ K!CloneEnds(r) \/ K!Postclone(r)
             \/ K!_clone_agent_workspace(r)
    <2>1. /\ UNCHANGED runs
          /\ \/ \E pc \in {"git clone", "cloning", "postclone"} : K!Goto(r, pc)
             \/ \E good \in BOOLEAN : K!Leave(r, good)
      BY <1>3 DEF K!TestDir, K!CloneBegins, K!CloneEnds, K!Postclone, K!_clone_agent_workspace
    <2> QED
      BY <2>1, <1>g, <1>u, <1>p, <1>c, FreshGoto
  <1>4. CASE K!_ls_remote(r)
    <2> DEFINE q == [req[r] EXCEPT !.hash = tip[req[r].branch],
                                   !.pc = IF req[r].kind = "agent" THEN "workspace" ELSE "test"]
    <2>1. UNCHANGED runs /\ (req' = [req EXCEPT ![r] = q] \/ K!Leave(r, FALSE))
      BY <1>4, <1>q DEF K!_ls_remote
    <2>2. /\ q.pc \in Chosen /\ q.kind = req[r].kind /\ q.branch = req[r].branch
          /\ q.doc = req[r].doc /\ q.since = req[r].since /\ q.fault = req[r].fault
      BY <1>q DEF Request, Chosen
    <2> HIDE DEF q
    <2> QED
      BY <2>1, <2>2, <1>g, <1>u, <1>p, FreshLater
  <1>5. CASE K!load_source_project_config(r)
    <2>1. UNCHANGED runs /\ \E pc \in {"git root", "refused"}, c \in {req[r].hash, 0} :
             req' = [req EXCEPT ![r] = [req[r] EXCEPT !.pc = pc, !.overlay = c]]
      BY <1>5, <1>q DEF K!load_source_project_config
    <2>2. PICK pc \in {"git root", "refused"}, c \in {req[r].hash, 0} :
             req' = [req EXCEPT ![r] = [req[r] EXCEPT !.pc = pc, !.overlay = c]]
      BY <2>1
    <2> DEFINE q == [req[r] EXCEPT !.pc = pc, !.overlay = c]
    <2>3. /\ q.pc \in Chosen \cup {"refused"} /\ q.kind = req[r].kind /\ q.branch = req[r].branch
          /\ q.doc = req[r].doc /\ q.since = req[r].since /\ q.fault = req[r].fault
      BY <1>q DEF Request, Chosen
    <2>4. req' = [req EXCEPT ![r] = q]
      BY <2>2
    <2> HIDE DEF q
    <2> QED
      BY <2>1, <2>3, <2>4, <1>u, <1>p, FreshLater
  <1> QED
    BY <1>1, <1>2, <1>3, <1>4, <1>5

(* Every step keeps the invariant.                                          *)
LEMMA FreshStep == ClonesInv /\ FreshInv /\ K!Next => FreshInv'
  <1> SUFFICES ASSUME ClonesInv, FreshInv, K!Next PROVE FreshInv'
    OBVIOUS
  <1>q. req \in [Requests -> Request] /\ tip \in [Branches -> K!Commits]
    BY DEF ClonesInv, ClonesTyped
  <1>s. K!SteadyPcs = {"idle", "run", "refused"}
    BY DEF K!SteadyPcs
  <1>1. CASE K!Push
    <2>1. PICK b \in Branches :
              /\ tip' = [tip EXCEPT ![b] = pushed + 1]
              /\ past' = [past EXCEPT ![b] = @ \cup {pushed + 1}]
              /\ req' = [x \in Requests |->
                           IF req[x].branch = b /\ req[x].pc \notin K!SteadyPcs
                           THEN [req[x] EXCEPT !.since = @ \cup {pushed + 1}] ELSE req[x]]
      BY <1>1 DEF K!Push
    <2>2. UNCHANGED <<clone, cached, runs>>
      BY <1>1 DEF K!Push, K!server
    <2>3. ASSUME NEW x \in Requests
          PROVE  /\ req'[x].pc = req[x].pc /\ Fresh(req[x], tip[Main], clone.tree)'
      <3>1. /\ req'[x].pc = req[x].pc /\ req'[x].kind = req[x].kind
            /\ req'[x].branch = req[x].branch /\ req'[x].doc = req[x].doc
            /\ req'[x].fault = req[x].fault
            /\ req[x].since \subseteq req'[x].since
            /\ req[x].branch = b /\ req[x].pc \notin K!SteadyPcs => pushed + 1 \in req'[x].since
        BY <1>q, <2>1 DEF Request
      <3>2. tip'[Main] = IF b = Main THEN pushed + 1 ELSE tip[Main]
        BY <1>q, <2>1, ClonesAssumption
      <3>3. Fresh(req[x], tip[Main], clone.tree)
        BY DEF FreshInv
      <3> QED
        BY <2>2, <3>1, <3>2, <3>3 DEF Fresh
    <2>4. /\ past[Main] \subseteq past'[Main] /\ tip'[Main] \in past'[Main]
          /\ Branches \subseteq DOMAIN past'
      BY <1>q, <2>1, ClonesAssumption DEF FreshInv
    <2> QED
      BY <2>2, <2>3, <2>4 DEF FreshInv, K!CachedIsConfigured
  <1>2. ASSUME NEW r \in Requests, K!Arrive(r) PROVE FreshInv'
    <2>1. PICK kind \in Kinds, b \in Branches : (kind = "branch" <=> b # Main) /\ K!Begin(r, kind, b)
      BY <1>2 DEF K!Arrive
    <2> DEFINE pc == CASE kind = "agent" -> "key"
                       [] kind = "branch" /\ K!Ready -> "fetch"
                       [] kind \in {"sync", "source"} /\ K!Ready -> "pull"
                       [] kind # "agent" /\ ~K!Ready -> "clone"
               q == [req[r] EXCEPT !.kind = kind, !.branch = b, !.since = {tip[b]}, !.pc = pc]
    <2>2. kind = "source" => pc \in {"pull", "clone"}
      OBVIOUS
    <2> HIDE DEF pc
    <2>3. q.kind = kind /\ q.branch = b /\ q.since = {tip[b]} /\ q.pc = pc
      BY <1>q DEF Request
    <2>4. /\ req' = [req EXCEPT ![r] = q] /\ req[r].pc = "idle"
          /\ UNCHANGED <<tip, past, cached, runs>> /\ clone' \in {clone, K!Removed}
      BY <2>1 DEF K!Begin, K!At, K!remote, pc
    <2>5. clone'.tree \in {clone.tree, 0}
      <3>1. K!Removed.tree = 0
        BY DEF K!Removed, ClonesInv, ClonesTyped, ServerClone
      <3> QED
        BY <2>4, <3>1
    <2> HIDE DEF q
    <2>6. Fresh(q, tip[Main], clone'.tree)
      BY <2>1, <2>2, <2>3 DEF Fresh, Chosen
    <2> QED
      BY <2>4, <2>5, <2>6, FreshMove
  <1>3. ASSUME NEW r \in Requests, K!Step(r) PROVE FreshInv'
    BY <1>3, FreshRefresh, FreshFetch, FreshBackend DEF K!Step
  <1> QED
    BY <1>1, <1>2, <1>3 DEF K!Next

LEMMA FreshAlways == Spec => [](part = "clones" => ClonesInv /\ FreshInv)
  <1> DEFINE Inv == part = "clones" => ClonesInv /\ FreshInv
  <1>1. Init => Inv
    <2> SUFFICES ASSUME K!Init PROVE FreshInv
      BY ClonesBegin DEF Init
    <2>1. \A x \in Requests : req[x].pc = "idle" /\ req[x].kind = "sync"
      BY DEF K!Init, K!Idle
    <2>2. Branches \subseteq DOMAIN past /\ tip[Main] \in past[Main]
      BY ClonesAssumption DEF K!Init
    <2> QED
      BY <2>1, <2>2 DEF K!Init, FreshInv, Fresh, K!CachedIsConfigured
  <1>2. Inv /\ [Next]_vars => Inv'
    <2> SUFFICES ASSUME Inv, [Next]_vars PROVE Inv'
      OBVIOUS
    <2>1. CASE part = "clones" /\ K!Next /\ UNCHANGED part
      BY <2>1, ClonesStep, FreshStep
    <2>2. CASE UNCHANGED <<part, ClonesVars>>
      BY <2>2 DEF ClonesVars, ClonesInv, ClonesTyped, K!KeysRemoved, FreshInv, K!CachedIsConfigured
    <2> QED
      BY <2>1, <2>2 DEF Next, vars
  <1> QED
    BY <1>1, <1>2, PTL DEF Spec

(* A run of the configured branch whose refresh has met no fault uses a     *)
(* document that was the head of the branch at some time of the request,    *)
(* although requests clone, pull, fetch into and remove the same clone      *)
(* meanwhile (sync_source and fetch_branch of sources/git.py,               *)
(* _refresh_source_workflow of main.py).                                    *)
THEOREM RefreshedIsFresh == Spec => [](part = "clones" => K!FreshUnlessFault)
  <1>1. FreshInv => K!FreshUnlessFault
    BY DEF FreshInv, Fresh, K!FreshUnlessFault, Chosen
  <1> QED
    BY <1>1, FreshAlways, PTL

(* Whatever other branches are fetched into the clone, what it has checked  *)
(* out and what is listed come from the configured one                      *)
(* (discover_workflows_at of sources/git.py).                               *)
THEOREM ListedIsConfigured == Spec => [](part = "clones" => K!CachedIsConfigured)
  <1>1. FreshInv => K!CachedIsConfigured
    BY DEF FreshInv
  <1> QED
    BY <1>1, FreshAlways, PTL

-----------------------------------------------------------------------------
(* The daemon.                                                              *)

ProcStates == {"free", "boot", "bound", "ready", "stopping", "zombie", "hut", "alien"}

Command == [at : P!Over \cup {"spawn", "ping", "poll", "api", "write",
                              "confirm", "term", "await", "remove"},
            child : Pids \cup {P!Nobody, P!Reaped},
            seen : Pids \cup {P!Nobody, P!Foreign}]

DaemonTyped ==
    /\ proc \in [Pids -> ProcStates]
    /\ port \in Pids \cup {P!Nobody, P!Foreign}
    /\ pidfile \in Pids \cup {P!Nobody}
    /\ cmd \in [P!Commands -> Command]
    /\ told \subseteq Pids

(* A server that is bound holds the port, and nothing else does.            *)
PortHeld == \A p \in Pids : proc[p] \in {"bound", "ready"} <=> port = p

(* The server that was reported last is on the port and in the pidfile.     *)
ToldIsFound == told \subseteq {port} /\ (told # {} => pidfile = port)

(* Commands do not overlap with a stop.                                     *)
StopsAlone ==
    \A t \in Stoppers : cmd[t].at \notin P!Over =>
        \A c \in P!Commands : c # t => cmd[c].at \in P!Over

(* What a command knows of the port and the pidfile.                        *)
Watches(c) ==
    /\ c \in Stoppers => cmd[c].at \notin {"spawn", "ping", "poll", "api", "write"}
    /\ c \in Starters => cmd[c].at \notin {"confirm", "term", "await", "remove"}
    /\ cmd[c].at \in {"api", "write"} => port \in Pids /\ cmd[c].seen = port
    /\ cmd[c].at \in {"confirm", "term"} => pidfile \in Pids /\ cmd[c].seen = pidfile
    /\ cmd[c].at = "await" => cmd[c].seen \in Pids
    /\ cmd[c].at \in {"await", "remove"} => told = {}

DaemonInv ==
    /\ DaemonTyped
    /\ PortHeld
    /\ ToldIsFound
    /\ StopsAlone
    /\ \A c \in P!Commands : Watches(c)

(* Before the first command nothing runs.                                   *)
LEMMA DaemonBegin == P!Init => DaemonInv
  BY DaemonAssumption
  DEF P!Init, DaemonInv, DaemonTyped, ProcStates, Command, P!Over, P!Nobody, P!Foreign,
      PortHeld, ToldIsFound, StopsAlone, Watches

(* A step that only changes the processes: what runs or holds the port.     *)
LEMMA ServerMoves ==
    ASSUME DaemonInv, UNCHANGED <<pidfile, cmd>>,
           proc' \in [Pids -> ProcStates], port' \in Pids \cup {P!Nobody, P!Foreign},
           PortHeld', told' \subseteq told, told' \subseteq {port'},
           \A c \in Starters : cmd[c].at \in {"api", "write"} => port' = port
    PROVE  DaemonInv'
  BY DEF DaemonInv, DaemonTyped, ToldIsFound, StopsAlone, Watches, P!Commands

(* What the end of a process changes.                                       *)
LEMMA DaemonDies ==
    ASSUME DaemonInv, NEW p \in Pids, P!Dies(p)
    PROVE  /\ proc' \in [Pids -> ProcStates]
           /\ port' \in Pids \cup {P!Nobody, P!Foreign}
           /\ PortHeld'
           /\ told' \subseteq told /\ told' \subseteq {port'}
           /\ port # p => port' = port
           /\ p \notin told' /\ port' # p
  <1>1. P!Gone(p) \in {"zombie", "free"}
    BY DEF P!Gone
  <1> QED
    BY <1>1, DaemonAssumption
    DEF DaemonInv, DaemonTyped, PortHeld, ToldIsFound, P!Dies, ProcStates, P!Nobody, P!Foreign

(* A step of one command.                                                   *)
LEMMA CommandMoves ==
    ASSUME DaemonInv, NEW c \in P!Commands, NEW q \in Command, cmd' = [cmd EXCEPT ![c] = q],
           proc' \in [Pids -> ProcStates], port' \in Pids \cup {P!Nobody, P!Foreign},
           pidfile' \in Pids \cup {P!Nobody}, told' \subseteq Pids,
           PortHeld', ToldIsFound', Watches(c)',
           \A d \in P!Commands : d # c /\ cmd[d].at \notin P!Over =>
              /\ c \notin Stoppers /\ d \notin Stoppers
              /\ UNCHANGED port
    PROVE  DaemonInv'
  <1>1. /\ cmd'[c] = q /\ cmd' \in [P!Commands -> Command]
        /\ \A d \in P!Commands : d # c => cmd'[d] = cmd[d]
    BY DEF DaemonInv, DaemonTyped
  <1>2. StopsAlone'
    BY <1>1 DEF StopsAlone, DaemonInv, P!Commands
  <1>3. ASSUME NEW d \in P!Commands, d # c PROVE Watches(d)'
    BY <1>1, <1>3 DEF Watches, DaemonInv, P!Commands, P!Over
  <1> QED
    BY <1>1, <1>2, <1>3 DEF DaemonInv, DaemonTyped

(* Two fields of a command set at once.                                     *)
LEMMA CommandSet ==
    ASSUME NEW m \in [P!Commands -> Command], NEW c \in P!Commands, NEW a, NEW x
    PROVE  /\ [m EXCEPT ![c].at = a, ![c].seen = x] = [m EXCEPT ![c] = [m[c] EXCEPT !.at = a, !.seen = x]]
           /\ [m EXCEPT ![c].at = a, ![c].child = x] = [m EXCEPT ![c] = [m[c] EXCEPT !.at = a, !.child = x]]
           /\ [m EXCEPT ![c].at = a] = [m EXCEPT ![c] = [m[c] EXCEPT !.at = a]]
  BY DEF Command

(* While a start is under way, another start may be, and no stop is.        *)
LEMMA StartsTogether ==
    ASSUME DaemonInv, NEW c \in Starters, cmd[c].at \notin P!Over
    PROVE  c \in P!Commands /\ c \notin Stoppers /\ \A t \in Stoppers : cmd[t].at \in P!Over
  BY DaemonAssumption DEF DaemonInv, StopsAlone, P!Commands

(* A step of a start that has begun and only goes on, with processes that   *)
(* neither hold the port nor come to hold it.                               *)
LEMMA StartGoes ==
    ASSUME DaemonInv, NEW c \in Starters, cmd[c].at \notin P!Over,
           NEW q \in Command, cmd' = [cmd EXCEPT ![c] = q],
           q.at \in P!Over \cup {"spawn", "ping", "poll", "api", "write"},
           q.at \in {"api", "write"} => port \in Pids /\ q.seen = port,
           proc' \in [Pids -> ProcStates],
           \A p \in Pids : proc'[p] \in {"bound", "ready"} <=> proc[p] \in {"bound", "ready"},
           UNCHANGED <<port, pidfile, told>>
    PROVE  DaemonInv'
  <1>1. c \in P!Commands /\ c \notin Stoppers /\ \A t \in Stoppers : cmd[t].at \in P!Over
    BY StartsTogether
  <1>2. PortHeld' /\ ToldIsFound' /\ cmd'[c] = q
    BY <1>1 DEF DaemonInv, DaemonTyped, PortHeld, ToldIsFound
  <1>3. Watches(c)'
    BY <1>1, <1>2 DEF Watches, P!Over
  <1> QED
    BY <1>1, <1>2, <1>3, CommandMoves DEF DaemonInv, DaemonTyped

(* A command that ends frees no process but a zombie of its own.            *)
LEMMA EndsQuietly ==
    ASSUME DaemonInv, NEW c \in P!Commands, NEW s, P!Ends(c, s)
    PROVE  /\ proc' \in [Pids -> ProcStates]
           /\ \A p \in Pids : proc'[p] \in {"bound", "ready"} <=> proc[p] \in {"bound", "ready"}
           /\ cmd' = [cmd EXCEPT ![c].at = s]
  BY DEF DaemonInv, DaemonTyped, P!Ends, P!Go, ProcStates

(* Every step keeps the invariant: one step per action.                     *)
LEMMA DaemonStep == DaemonInv /\ P!Next => DaemonInv'
  <1> SUFFICES ASSUME DaemonInv, P!Next PROVE DaemonInv'
    OBVIOUS
  <1> USE DaemonAssumption
  <1>1. ASSUME NEW p \in Pids, P!Bind(p) PROVE DaemonInv'
    <2>1. CASE port = P!Nobody
      <3>1. proc' = [proc EXCEPT ![p] = "bound"] /\ port' = p /\ told' = told /\ UNCHANGED <<pidfile, cmd>>
        BY <1>1, <2>1 DEF P!Bind
      <3>2. told = {}
        BY <2>1 DEF DaemonInv, DaemonTyped, ToldIsFound, P!Nobody
      <3>3. PortHeld' /\ proc' \in [Pids -> ProcStates]
        BY <2>1, <3>1 DEF DaemonInv, DaemonTyped, PortHeld, ProcStates, P!Nobody
      <3>4. \A c \in Starters : cmd[c].at \notin {"api", "write"}
        BY <2>1 DEF DaemonInv, Watches, P!Commands, P!Nobody
      <3> QED
        BY <3>1, <3>2, <3>3, <3>4, ServerMoves
    <2>2. CASE port # P!Nobody
      <3>1. P!Dies(p) /\ port # p /\ UNCHANGED <<pidfile, cmd>>
        BY <1>1, <2>2 DEF P!Bind, DaemonInv, PortHeld
      <3> QED
        BY <3>1, DaemonDies, ServerMoves
    <2> QED
      BY <2>1, <2>2
  <1>2. ASSUME NEW p \in Pids, P!FinishStartup(p) PROVE DaemonInv'
    <2>1. PortHeld' /\ proc' \in [Pids -> ProcStates] /\ UNCHANGED <<port, told, pidfile, cmd>>
      BY <1>2 DEF P!FinishStartup, DaemonInv, DaemonTyped, PortHeld, ProcStates
    <2> QED
      BY <2>1, ServerMoves DEF DaemonInv, DaemonTyped, ToldIsFound
  <1>3. ASSUME NEW p \in Pids, P!Exit(p) PROVE DaemonInv'
    <2>1. P!Dies(p) /\ port # p /\ UNCHANGED <<pidfile, cmd>>
      BY <1>3 DEF P!Exit, DaemonInv, PortHeld
    <2> QED
      BY <2>1, DaemonDies, ServerMoves
  <1>4. CASE P!Accident
    <2>1. /\ UNCHANGED <<pidfile, cmd>>
          /\ \A c \in Starters : cmd[c].at \notin {"api", "write"}
      BY <1>4 DEF P!Accident, P!Quiet, P!Over, P!Commands
    <2>2. ASSUME NEW p \in Pids, P!Dies(p) PROVE DaemonInv'
      BY <2>1, <2>2, DaemonDies, ServerMoves
    <2>3. ASSUME NEW p \in Pids, proc[p] = "free", NEW what \in {"hut", "alien"},
                 proc' = [proc EXCEPT ![p] = what], UNCHANGED <<port, told>>
          PROVE  DaemonInv'
      <3>1. PortHeld' /\ proc' \in [Pids -> ProcStates]
        BY <2>3 DEF DaemonInv, DaemonTyped, PortHeld, ProcStates
      <3> QED
        BY <2>1, <2>3, <3>1, ServerMoves DEF DaemonInv, DaemonTyped, ToldIsFound
    <2>4. CASE port = P!Nobody /\ port' = P!Foreign /\ UNCHANGED <<proc, told>>
      <3>1. told = {} /\ PortHeld'
        BY <2>4 DEF DaemonInv, DaemonTyped, PortHeld, ToldIsFound, P!Nobody, P!Foreign
      <3> QED
        BY <2>1, <2>4, <3>1, ServerMoves DEF DaemonInv, DaemonTyped
    <2> QED
      BY <1>4, <2>2, <2>3, <2>4 DEF P!Accident
  <1>5. ASSUME NEW c \in Starters, P!Start(c) PROVE DaemonInv'
    <2> DEFINE a == CASE port = P!Foreign -> "failed"
                      [] port = P!Nobody -> "spawn"
                      [] OTHER -> "write"
               q == [cmd[c] EXCEPT !.at = a, !.seen = port]
    <2>1. /\ c \in P!Commands /\ c \notin Stoppers /\ cmd[c] \in Command
          /\ \A d \in Stoppers : cmd[d].at \in P!Over
      BY <1>5 DEF P!Start, P!Commands, DaemonInv, DaemonTyped
    <2>2. a \in {"failed", "spawn", "write"} /\ (a = "write" => port \in Pids)
      BY DEF DaemonInv, DaemonTyped
    <2>3. cmd' = [cmd EXCEPT ![c].at = a, ![c].seen = port] /\ UNCHANGED <<proc, port, pidfile, told>>
      BY <1>5 DEF P!Start
    <2> HIDE DEF a
    <2>4. cmd' = [cmd EXCEPT ![c] = q]
      BY <2>1, <2>3, CommandSet DEF DaemonInv, DaemonTyped
    <2>5. q \in Command /\ q.at = a /\ q.seen = port
      <3>1. port \in Pids \cup {P!Nobody, P!Foreign}
        BY DEF DaemonInv, DaemonTyped
      <3> QED
        BY <2>1, <2>2, <3>1 DEF P!Over, Command
    <2> HIDE DEF q
    <2>6. cmd'[c] = q /\ PortHeld' /\ ToldIsFound'
      BY <2>1, <2>3, <2>4 DEF DaemonInv, DaemonTyped, PortHeld, ToldIsFound
    <2>7. Watches(c)'
      BY <2>1, <2>2, <2>3, <2>5, <2>6 DEF Watches
    <2> QED
      BY <2>1, <2>3, <2>4, <2>5, <2>6, <2>7, CommandMoves DEF DaemonInv, DaemonTyped
  <1>6. ASSUME NEW c \in Starters, P!spawn_daemon(c) PROVE DaemonInv'
    <2>1. PICK p \in Pids : /\ proc[p] = "free" /\ proc' = [proc EXCEPT ![p] = "boot"]
                            /\ cmd' = [cmd EXCEPT ![c].at = "ping", ![c].child = p]
      BY <1>6 DEF P!spawn_daemon
    <2> DEFINE q == [cmd[c] EXCEPT !.at = "ping", !.child = p]
    <2>2. cmd[c] \in Command /\ c \in P!Commands /\ cmd[c].at \notin P!Over
      BY <1>6 DEF P!spawn_daemon, P!At, P!Over, P!Commands, DaemonInv, DaemonTyped
    <2>3. q \in Command /\ q.at = "ping"
      BY <2>2 DEF P!Over, Command
    <2>4. cmd' = [cmd EXCEPT ![c] = q]
      BY <2>1, <2>2, CommandSet DEF DaemonInv, DaemonTyped
    <2>5. /\ proc' \in [Pids -> ProcStates]
          /\ \A x \in Pids : proc'[x] \in {"bound", "ready"} <=> proc[x] \in {"bound", "ready"}
      BY <2>1 DEF DaemonInv, DaemonTyped, ProcStates
    <2> HIDE DEF q
    <2> QED
      BY <1>6, <2>2, <2>3, <2>4, <2>5, StartGoes DEF P!spawn_daemon
  <1>7. ASSUME NEW c \in Starters, cmd[c].at \notin P!Over, P!Ends(c, "failed"),
               UNCHANGED <<port, pidfile, told>>
        PROVE  DaemonInv'
    <2> DEFINE q == [cmd[c] EXCEPT !.at = "failed"]
    <2>1. cmd[c] \in Command /\ c \in P!Commands
      BY DEF P!Commands, DaemonInv, DaemonTyped
    <2>2. q \in Command /\ q.at = "failed" /\ q.at \in P!Over
      BY <2>1 DEF P!Over, Command
    <2>3. cmd' = [cmd EXCEPT ![c] = q]
      <3>1. cmd' = [cmd EXCEPT ![c].at = "failed"]
        BY <1>7 DEF P!Ends, P!Go
      <3> QED
        BY <2>1, <3>1, CommandSet DEF DaemonInv, DaemonTyped
    <2> HIDE DEF q
    <2> QED
      BY <1>7, <2>1, <2>2, <2>3, StartGoes, EndsQuietly
  <1>8. ASSUME NEW c \in Starters, P!ping(c) PROVE DaemonInv'
    <2> DEFINE a == IF port = P!Nobody THEN "poll" ELSE "api"
               q == [cmd[c] EXCEPT !.at = a, !.seen = port]
    <2>1. /\ cmd[c] \in Command /\ c \in P!Commands /\ cmd[c].at \notin P!Over
          /\ UNCHANGED <<port, pidfile, told>>
      BY <1>8 DEF P!ping, P!At, P!Over, P!Commands, DaemonInv, DaemonTyped
    <2>2. CASE port = P!Foreign
      BY <1>7, <1>8, <2>1, <2>2 DEF P!ping
    <2>3. CASE port # P!Foreign
      <3>1. cmd' = [cmd EXCEPT ![c].at = a, ![c].seen = port] /\ proc' = proc
        BY <1>8, <2>3 DEF P!ping
      <3>2. a \in {"poll", "api"} /\ (a = "api" => port \in Pids)
            /\ port \in Pids \cup {P!Nobody, P!Foreign}
        BY <2>3 DEF DaemonInv, DaemonTyped
      <3> HIDE DEF a
      <3>3. cmd' = [cmd EXCEPT ![c] = q]
        BY <2>1, <3>1, CommandSet DEF DaemonInv, DaemonTyped
      <3>4. q \in Command /\ q.at = a /\ q.seen = port
        BY <2>1, <3>2 DEF P!Over, Command
      <3> HIDE DEF q
      <3> QED
        BY <2>1, <3>1, <3>2, <3>3, <3>4, StartGoes DEF DaemonInv, DaemonTyped
    <2> QED
      BY <2>2, <2>3
  <1>9. ASSUME NEW c \in Starters, P!_api_ready(c) PROVE DaemonInv'
    <2> DEFINE a == IF port \in Pids /\ proc[port] = "ready" THEN "write" ELSE "poll"
               q == [cmd[c] EXCEPT !.at = a]
    <2>1. /\ cmd[c] \in Command /\ c \in P!Commands /\ cmd[c].at = "api" /\ cmd[c].at \notin P!Over
          /\ UNCHANGED <<proc, port, pidfile, told>>
      BY <1>9 DEF P!_api_ready, P!At, P!Over, P!Commands, DaemonInv, DaemonTyped
    <2>2. cmd' = [cmd EXCEPT ![c].at = a] /\ a \in {"write", "poll"}
      BY <1>9 DEF P!_api_ready, P!Go
    <2> HIDE DEF a
    <2>3. cmd' = [cmd EXCEPT ![c] = q]
      BY <2>1, <2>2, CommandSet DEF DaemonInv, DaemonTyped
    <2>4. q \in Command /\ q.at = a /\ q.seen = cmd[c].seen
      BY <2>1, <2>2 DEF P!Over, Command
    <2>5. port \in Pids /\ cmd[c].seen = port
      BY <2>1 DEF DaemonInv, Watches
    <2> HIDE DEF q
    <2> QED
      BY <2>1, <2>2, <2>3, <2>4, <2>5, StartGoes DEF DaemonInv, DaemonTyped
  <1>10. ASSUME NEW c \in Starters, P!wait_ready(c) PROVE DaemonInv'
    <2>1. /\ cmd[c] \in Command /\ c \in P!Commands /\ cmd[c].at \notin P!Over
          /\ UNCHANGED <<port, pidfile, told>>
      BY <1>10 DEF P!wait_ready, P!At, P!Over, P!Commands, DaemonInv, DaemonTyped
    <2>2. CASE P!Ends(c, "failed")
      BY <1>7, <2>1, <2>2
    <2>3. CASE ~P!Ends(c, "failed")
      <3> DEFINE child == cmd[c].child
                 dead == child = P!Reaped \/ proc[child] = "zombie"
                 next == IF dead THEN P!Reaped ELSE child
                 q == [cmd[c] EXCEPT !.at = "ping", !.child = next]
      <3>1. /\ cmd' = [cmd EXCEPT ![c].at = "ping", ![c].child = next]
            /\ proc' = [p \in Pids |-> IF dead /\ p = child THEN "free" ELSE proc[p]]
        BY <1>10, <2>3 DEF P!wait_ready
      <3>2. next \in Pids \cup {P!Nobody, P!Reaped}
        BY <2>1 DEF Command
      <3>3. \A p \in Pids : p # P!Reaped
        BY DEF P!Reaped
      <3>4. /\ proc' \in [Pids -> ProcStates]
            /\ \A x \in Pids : proc'[x] \in {"bound", "ready"} <=> proc[x] \in {"bound", "ready"}
        BY <3>1, <3>3 DEF DaemonInv, DaemonTyped, ProcStates
      <3> HIDE DEF next
      <3>5. cmd' = [cmd EXCEPT ![c] = q]
        BY <2>1, <3>1, CommandSet DEF DaemonInv, DaemonTyped
      <3>6. q \in Command /\ q.at = "ping"
        BY <2>1, <3>2 DEF P!Over, Command
      <3> HIDE DEF q
      <3> QED
        BY <2>1, <3>4, <3>5, <3>6, StartGoes
    <2> QED
      BY <2>2, <2>3
  <1>11. ASSUME NEW c \in Starters, P!start_daemon(c) PROVE DaemonInv'
    <2> DEFINE q == [cmd[c] EXCEPT !.at = "done"]
    <2>1. /\ cmd[c] \in Command /\ c \in P!Commands /\ cmd[c].at \notin P!Over
          /\ cmd[c].seen = port /\ port \in Pids
      BY <1>11 DEF P!start_daemon, P!At, P!Over, P!Commands, DaemonInv, DaemonTyped, Watches
    <2>2. /\ pidfile' = port /\ port' = port /\ told' = told \cup {port} /\ P!Ends(c, "done")
      BY <1>11, <2>1 DEF P!start_daemon, P!recorded_pid
    <2>3. q \in Command /\ q.at = "done" /\ q.at \in P!Over
      BY <2>1 DEF P!Over, Command
    <2>4. cmd' = [cmd EXCEPT ![c] = q]
      <3>1. cmd' = [cmd EXCEPT ![c].at = "done"]
        BY <2>2 DEF P!Ends, P!Go
      <3> QED
        BY <2>1, <3>1, CommandSet DEF DaemonInv, DaemonTyped
    <2> HIDE DEF q
    <2>5. /\ PortHeld' /\ ToldIsFound' /\ proc' \in [Pids -> ProcStates]
      BY <2>1, <2>2, EndsQuietly DEF DaemonInv, DaemonTyped, PortHeld, ToldIsFound
    <2>6. Watches(c)'
      BY <2>1, <2>3, <2>4 DEF Watches, DaemonInv, DaemonTyped, P!Over
    <2>7. c \notin Stoppers /\ \A t \in Stoppers : cmd[t].at \in P!Over
      BY <2>1, StartsTogether
    <2> QED
      BY <2>1, <2>2, <2>3, <2>4, <2>5, <2>6, <2>7, CommandMoves DEF DaemonInv, DaemonTyped
  <1>12. ASSUME NEW t \in Stoppers, P!Stop(t) PROVE DaemonInv'
    <2> DEFINE a == CASE pidfile = P!Nobody -> "done"
                      [] pidfile # P!Nobody /\ ~P!pid_alive(pidfile) -> "remove"
                      [] OTHER -> "confirm"
               q == [cmd[t] EXCEPT !.at = a, !.seen = pidfile]
    <2>1. /\ t \in P!Commands /\ t \notin Starters /\ cmd[t] \in Command
          /\ \A d \in P!Commands : cmd[d].at \in P!Over
          /\ pidfile \in Pids \cup {P!Nobody, P!Foreign}
      BY <1>12 DEF P!Stop, P!Quiet, P!Commands, DaemonInv, DaemonTyped
    <2>2. /\ a \in {"done", "remove", "confirm"} /\ (a = "confirm" => pidfile \in Pids)
          /\ (a = "remove" => pidfile \in Pids /\ proc[pidfile] = "free")
      BY <2>1 DEF P!pid_alive, DaemonInv, DaemonTyped
    <2>3. cmd' = [cmd EXCEPT ![t].seen = pidfile, ![t].at = a] /\ UNCHANGED <<proc, port, pidfile, told>>
      BY <1>12 DEF P!Stop
    <2> HIDE DEF a
    <2>4. cmd' = [cmd EXCEPT ![t] = q]
      BY <2>1, <2>3 DEF DaemonInv, DaemonTyped, Command
    <2>5. q \in Command /\ q.at = a /\ q.seen = pidfile
      BY <2>1, <2>2 DEF P!Over, Command
    <2>6. a = "remove" => told = {}
      BY <2>2 DEF DaemonInv, DaemonTyped, PortHeld, ToldIsFound
    <2> HIDE DEF q
    <2>7. cmd'[t] = q /\ PortHeld' /\ ToldIsFound'
      BY <2>1, <2>3, <2>4 DEF DaemonInv, DaemonTyped, PortHeld, ToldIsFound
    <2>8. Watches(t)'
      BY <2>1, <2>2, <2>3, <2>5, <2>6, <2>7 DEF Watches
    <2> QED
      BY <2>1, <2>3, <2>4, <2>5, <2>7, <2>8, CommandMoves DEF DaemonInv, DaemonTyped
  <1>13. ASSUME NEW t \in Stoppers, cmd[t].at \notin P!Over,
                NEW a \in {"done", "failed", "term", "await", "remove"}, P!Go(t, a),
                proc' \in [Pids -> ProcStates], port' \in Pids \cup {P!Nobody, P!Foreign},
                pidfile' \in {pidfile, P!Nobody}, told' \subseteq told,
                PortHeld', ToldIsFound',
                a = "term" => pidfile' \in Pids /\ cmd[t].seen = pidfile',
                a = "await" => cmd[t].seen \in Pids,
                a \in {"await", "remove"} => told' = {}
         PROVE  DaemonInv'
    <2> DEFINE q == [cmd[t] EXCEPT !.at = a]
    <2>1. /\ t \in P!Commands /\ t \notin Starters /\ cmd[t] \in Command
          /\ \A d \in P!Commands : d # t => cmd[d].at \in P!Over
      BY <1>13 DEF P!Commands, DaemonInv, DaemonTyped, StopsAlone
    <2>2. cmd' = [cmd EXCEPT ![t] = q]
      BY <1>13, <2>1, CommandSet DEF DaemonInv, DaemonTyped, P!Go
    <2>3. q \in Command /\ q.at = a /\ q.seen = cmd[t].seen
      BY <2>1 DEF P!Over, Command
    <2> HIDE DEF q
    <2>4. cmd'[t] = q
      BY <2>1, <2>2 DEF DaemonInv, DaemonTyped
    <2>5. Watches(t)'
      BY <1>13, <2>1, <2>3, <2>4 DEF Watches
    <2>6. pidfile' \in Pids \cup {P!Nobody} /\ told' \subseteq Pids
      BY <1>13 DEF DaemonInv, DaemonTyped
    <2> QED
      BY <1>13, <2>1, <2>2, <2>3, <2>5, <2>6, CommandMoves
  <1>14. ASSUME NEW t \in Stoppers, P!Confirm(t) PROVE DaemonInv'
    <2>1. /\ cmd[t].at = "confirm" /\ cmd[t].at \notin P!Over /\ t \in P!Commands
          /\ UNCHANGED <<proc, port, pidfile, told>>
      BY <1>14 DEF P!Confirm, P!At, P!Over, P!Commands
    <2>2. PICK a \in {"term", "failed"} : P!Go(t, a)
      BY <1>14 DEF P!Confirm
    <2>3. pidfile \in Pids /\ cmd[t].seen = pidfile
      BY <2>1 DEF DaemonInv, Watches
    <2>4. PortHeld' /\ ToldIsFound'
      BY <2>1 DEF DaemonInv, PortHeld, ToldIsFound
    <2> QED
      BY <1>13, <2>1, <2>2, <2>3, <2>4 DEF DaemonInv, DaemonTyped
  <1>15. ASSUME NEW t \in Stoppers, P!Terminate(t) PROVE DaemonInv'
    <2> PICK p \in Pids : p = cmd[t].seen /\ p = pidfile
      BY <1>15 DEF P!Terminate, P!At, DaemonInv, Watches, P!Commands
    <2>1. cmd[t].at = "term" /\ cmd[t].at \notin P!Over /\ t \in P!Commands /\ UNCHANGED pidfile
      BY <1>15 DEF P!Terminate, P!At, P!Over, P!Commands
    <2>2. CASE proc[p] = "free"
      <3>1. P!Go(t, "failed") /\ UNCHANGED <<proc, port, told>>
        BY <1>15, <2>2 DEF P!Terminate
      <3>2. PortHeld' /\ ToldIsFound'
        BY <2>1, <3>1 DEF DaemonInv, PortHeld, ToldIsFound
      <3> QED
        BY <1>13, <2>1, <3>1, <3>2 DEF DaemonInv, DaemonTyped
    <2>3. CASE proc[p] \in {"bound", "ready"}
      <3>1. /\ P!Go(t, "await") /\ proc' = [proc EXCEPT ![p] = "stopping"]
            /\ port' = P!Nobody /\ told' = told \ {p}
        BY <1>15, <2>3 DEF P!Terminate
      <3>2. port = p /\ told' = {}
        BY <2>3, <3>1 DEF DaemonInv, PortHeld, ToldIsFound
      <3>3. PortHeld' /\ ToldIsFound' /\ proc' \in [Pids -> ProcStates]
        BY <2>1, <3>1, <3>2 DEF DaemonInv, DaemonTyped, PortHeld, ToldIsFound, P!Nobody, ProcStates
      <3> QED
        BY <1>13, <2>1, <3>1, <3>2, <3>3
    <2>4. CASE proc[p] \in {"boot", "hut", "alien"}
      <3>1. P!Go(t, "await") /\ P!Dies(p)
        BY <1>15, <2>4 DEF P!Terminate
      <3>2. told = {} /\ told' = {}
        BY <2>4, <3>1 DEF DaemonInv, PortHeld, ToldIsFound, P!Dies
      <3>3. ToldIsFound'
        BY <3>2 DEF ToldIsFound
      <3> QED
        BY <1>13, <2>1, <3>1, <3>2, <3>3, DaemonDies
    <2>5. CASE proc[p] \in {"stopping", "zombie"}
      <3>1. P!Go(t, "await") /\ UNCHANGED <<proc, port, told>>
        BY <1>15, <2>5 DEF P!Terminate
      <3>2. told = {}
        BY <2>5 DEF DaemonInv, PortHeld, ToldIsFound
      <3>3. PortHeld' /\ ToldIsFound'
        BY <2>1, <3>1 DEF DaemonInv, PortHeld, ToldIsFound
      <3> QED
        BY <1>13, <2>1, <3>1, <3>2, <3>3 DEF DaemonInv, DaemonTyped
    <2> QED
      BY <2>2, <2>3, <2>4, <2>5 DEF DaemonInv, DaemonTyped, ProcStates
  <1>16. ASSUME NEW t \in Stoppers, P!Await(t) PROVE DaemonInv'
    <2> PICK p \in Pids : p = cmd[t].seen
      BY <1>16 DEF P!Await, P!At, DaemonInv, Watches, P!Commands
    <2>1. /\ cmd[t].at = "await" /\ cmd[t].at \notin P!Over /\ t \in P!Commands
          /\ UNCHANGED pidfile /\ P!Go(t, "remove")
      BY <1>16 DEF P!Await, P!At, P!Over, P!Commands
    <2>2. told = {}
      BY <2>1 DEF DaemonInv, Watches
    <2>3. CASE P!pid_alive(p)
      <3>1. P!Dies(p)
        BY <1>16, <2>3 DEF P!Await
      <3>2. told' = {} /\ ToldIsFound'
        BY <2>2, <3>1 DEF P!Dies, ToldIsFound
      <3> QED
        BY <1>13, <2>1, <3>1, <3>2, DaemonDies
    <2>4. CASE ~P!pid_alive(p)
      <3>1. UNCHANGED <<proc, port, told>>
        BY <1>16, <2>4 DEF P!Await
      <3>2. PortHeld' /\ ToldIsFound'
        BY <2>1, <3>1 DEF DaemonInv, PortHeld, ToldIsFound
      <3> QED
        BY <1>13, <2>1, <2>2, <3>1, <3>2 DEF DaemonInv, DaemonTyped
    <2> QED
      BY <2>3, <2>4
  <1>17. ASSUME NEW t \in Stoppers, P!remove_pidfile(t) PROVE DaemonInv'
    <2>1. /\ cmd[t].at = "remove" /\ cmd[t].at \notin P!Over /\ t \in P!Commands
          /\ pidfile' = P!Nobody /\ P!Go(t, "done") /\ UNCHANGED <<proc, port, told>>
      BY <1>17 DEF P!remove_pidfile, P!At, P!Over, P!Commands
    <2>2. told = {}
      BY <2>1 DEF DaemonInv, Watches
    <2>3. PortHeld' /\ ToldIsFound'
      BY <2>1, <2>2 DEF DaemonInv, PortHeld, ToldIsFound
    <2> QED
      BY <1>13, <2>1, <2>2, <2>3 DEF DaemonInv, DaemonTyped
  <1> QED
    BY <1>1, <1>2, <1>3, <1>4, <1>5, <1>6, <1>8, <1>9, <1>10, <1>11, <1>12, <1>14, <1>15,
       <1>16, <1>17 DEF P!Next, P!Starting, P!Stopping, P!Server

(* Once all commands have ended, a running server that some start has       *)
(* reported is the one the pidfile names, whatever races for the port,      *)
(* stale pidfiles and recycled pids there were in between (start_daemon and *)
(* stop_daemon of daemon.py).                                               *)
THEOREM PidfileIsOfServer == Spec => []PidfileNamesServer
  <1> DEFINE Inv == part = "daemon" => DaemonInv
  <1>1. Init => Inv
    BY DaemonBegin DEF Init
  <1>2. Inv /\ [Next]_vars => Inv'
    <2> SUFFICES ASSUME Inv, [Next]_vars PROVE Inv'
      OBVIOUS
    <2>1. CASE part = "daemon" /\ P!Next /\ UNCHANGED part
      BY <2>1, DaemonStep
    <2>2. CASE UNCHANGED <<part, DaemonVars>>
      BY <2>2 DEF DaemonVars, DaemonInv, DaemonTyped, PortHeld, ToldIsFound, StopsAlone, Watches
    <2> QED
      BY <2>1, <2>2 DEF Next, vars
  <1>3. Inv => PidfileNamesServer
    BY DEF DaemonInv, ToldIsFound, PidfileNamesServer, P!PidfileNamesServer
  <1> QED
    BY <1>1, <1>2, <1>3, PTL DEF Spec

-----------------------------------------------------------------------------
(* The stacks.                                                              *)

Cell == [there : BOOLEAN, built : [1 .. Steps -> S!Installers \cup {S!Nothing}], ready : BOOLEAN,
         cut : BOOLEAN]

Install == [at : {"idle", "queued", "wipe", "mkdir", "prep"}, hash : Hashes,
            rebuild : BOOLEAN, step : 1 .. Steps + 1]

StacksTyped ==
    /\ dir \in [Hashes -> Cell]
    /\ current \in Hashes
    /\ inst \in [S!Installers -> Install]

InstallsAlone ==
    \A i, k \in S!Installers : S!UnderWay(i) /\ S!UnderWay(k) => i = k

(* What the directory of an install that is under way holds so far, unless  *)
(* an rm of it has stopped half way.                                        *)
Filling(i) ==
    LET d == dir[inst[i].hash]
    IN  /\ inst[i].at \in {"wipe", "mkdir"} => inst[i].step = 1
        /\ inst[i].at = "mkdir" /\ ~d.cut => ~d.ready
        /\ inst[i].at = "prep" /\ d.there /\ ~d.cut =>
             ~d.ready /\ \A s \in 1 .. inst[i].step - 1 : d.built[s] = i

(* A ready stack was filled by one installation, unless an rm was cut.      *)
Whole(h) ==
    dir[h].ready /\ ~dir[h].cut =>
        /\ dir[h].there
        /\ \E i \in S!Installers : \A s \in 1 .. Steps : dir[h].built[s] = i

(* Installs do not overlap; the directory of one that is about to fill it   *)
(* is not ready, and holds the steps the script has done.                   *)
StacksInv ==
    /\ StacksTyped
    /\ InstallsAlone
    /\ \A i \in S!Installers : Filling(i)
    /\ \A h \in Hashes : Whole(h)

(* Before the first installation no stack is there.                         *)
LEMMA StacksBegin == S!Init => StacksInv
  BY StacksAssumption
  DEF S!Init, StacksInv, StacksTyped, Cell, Install, S!Absent, S!Rest, S!UnderWay, InstallsAlone, Filling, Whole

(* What is not installed and who does not install are typed.                *)
LEMMA StacksAtRest == S!Absent \in Cell /\ S!Rest \in Install /\ ~S!Absent.ready /\ S!Rest.at = "idle"
  BY StacksAssumption DEF S!Absent, S!Rest, Cell, Install, S!Nothing

(* What an rm leaves is typed, and marked unless it is nothing.             *)
LEMMA RemainsTyped ==
    ASSUME NEW d \in Cell, NEW left \in S!Remains(d)
    PROVE  left \in Cell /\ (left = S!Absent \/ (left.there /\ left.cut))
  <1>1. CASE left = S!Absent
    BY <1>1, StacksAtRest
  <1>2. CASE left # S!Absent
    <2>1. PICK kept \in SUBSET (1 .. Steps), ready \in {FALSE, d.ready} :
             left = [there |-> TRUE,
                     built |-> [s \in 1 .. Steps |-> IF s \in kept THEN d.built[s] ELSE S!Nothing],
                     ready |-> ready, cut |-> TRUE]
      BY <1>2 DEF S!Remains, S!Partial
    <2>2. [s \in 1 .. Steps |-> IF s \in kept THEN d.built[s] ELSE S!Nothing]
             \in [1 .. Steps -> S!Installers \cup {S!Nothing}]
      BY DEF Cell
    <2>3. ready \in BOOLEAN
      BY DEF Cell
    <2> QED
      BY <2>1, <2>2, <2>3 DEF Cell
  <1> QED
    BY <1>1, <1>2

(* Every step keeps the invariant: one step per action.                     *)
LEMMA StacksStep == StacksInv /\ S!Next => StacksInv'
  <1> SUFFICES ASSUME StacksInv, S!Next PROVE StacksInv'
    OBVIOUS
  <1> USE StacksAssumption
  <1>1. ASSUME NEW i \in S!Installers, NEW h \in Hashes, NEW rebuild \in BOOLEAN,
               inst[i].at \in {"idle", "queued"}, S!MayBegin, UNCHANGED <<dir, current>>,
               S!Begin(i, h, rebuild, IF dir[h].ready THEN "READY" ELSE IF dir[h].there THEN "INSTALLING" ELSE "MISSING")
        PROVE StacksInv'
    <2>1. PICK it \in Install :
              /\ inst' = [inst EXCEPT ![i] = it]
              /\ it.at \in {"idle", "wipe", "mkdir"} /\ it.step = 1
              /\ it.at = "mkdir" => it.hash = h /\ ~dir[h].ready /\ ~dir[h].there
      <3> DEFINE status == IF dir[h].ready THEN "READY"
                           ELSE IF dir[h].there THEN "INSTALLING" ELSE "MISSING"
                 it == IF status = "READY" /\ ~rebuild THEN S!Rest
                       ELSE [at |-> IF S!Wipes(rebuild, status) THEN "wipe" ELSE "mkdir",
                             hash |-> h, rebuild |-> rebuild, step |-> 1]
      <3>1. inst' = [inst EXCEPT ![i] = it]
        BY <1>1 DEF S!Begin
      <3>2. it \in Install /\ it.at \in {"idle", "wipe", "mkdir"} /\ it.step = 1
        BY StacksAtRest DEF Install, S!Rest
      <3>3. it.at = "mkdir" => it.hash = h /\ ~dir[h].ready /\ ~dir[h].there
        BY StacksAtRest DEF S!Wipes
      <3> HIDE DEF it
      <3> QED
        BY <3>1, <3>2, <3>3
    <2>2. StacksTyped'
      BY <1>1, <2>1 DEF StacksInv, StacksTyped
    <2>3. InstallsAlone'
      BY <1>1, <2>1 DEF StacksInv, StacksTyped, InstallsAlone, S!UnderWay, S!MayBegin
    <2>4. \A k \in S!Installers : Filling(k)'
      BY <1>1, <2>1 DEF StacksInv, StacksTyped, Filling
    <2> QED
      BY <1>1, <2>2, <2>3, <2>4 DEF StacksInv, Whole
  <1>2. ASSUME NEW i \in S!Installers, S!install(i) PROVE StacksInv'
    BY <1>1, <1>2 DEF S!install, S!check, StacksInv, StacksTyped
  <1>3. ASSUME NEW i \in S!Installers, S!TaskBegins(i) PROVE StacksInv'
    BY <1>1, <1>3 DEF S!TaskBegins, StacksInv, StacksTyped, Install
  <1>4. ASSUME NEW i \in S!Installers, NEW it \in Install, it.at \in {"idle", "queued"},
               inst' = [inst EXCEPT ![i] = it], UNCHANGED <<dir, current>>
        PROVE StacksInv'
    BY <1>4 DEF StacksInv, StacksTyped, InstallsAlone, Filling, Whole, S!UnderWay
  <1>5. ASSUME NEW i \in S!Installers, S!create_run_from_stack(i) PROVE StacksInv'
    <2>1. PICK rebuild \in BOOLEAN :
              inst' = [inst EXCEPT ![i] = [at |-> "queued", hash |-> current,
                                           rebuild |-> rebuild, step |-> 1]]
      BY <1>5 DEF S!create_run_from_stack
    <2> DEFINE it == [at |-> "queued", hash |-> current, rebuild |-> rebuild, step |-> 1]
    <2>2. it \in Install /\ it.at = "queued"
      BY DEF Install, StacksInv, StacksTyped
    <2>3. inst' = [inst EXCEPT ![i] = it] /\ UNCHANGED <<dir, current>>
      BY <1>5, <2>1 DEF S!create_run_from_stack
    <2> HIDE DEF it
    <2> QED
      BY <1>4, <2>2, <2>3
  <1>6. ASSUME NEW i \in S!Installers, S!Abort(i) PROVE StacksInv'
    BY <1>4, <1>6, StacksAtRest, Zenon DEF S!Abort
  <1>7. ASSUME NEW i \in S!Installers, NEW h \in Hashes, h = inst[i].hash,
               S!UnderWay(i), StacksTyped',
               \A k \in S!Installers : k # i => inst'[k] = inst[k],
               \A g \in Hashes : g # h => dir'[g] = dir[g],
               Filling(i)', Whole(h)'
        PROVE StacksInv'
    <2>1. InstallsAlone'
      BY <1>7 DEF StacksInv, InstallsAlone, S!UnderWay
    <2>2. ASSUME NEW k \in S!Installers, k # i PROVE Filling(k)'
      BY <1>7, <2>2 DEF StacksInv, StacksTyped, InstallsAlone, S!UnderWay, Filling, Install
    <2>3. ASSUME NEW g \in Hashes, g # h PROVE Whole(g)'
      BY <1>7, <2>3 DEF StacksInv, Whole
    <2> QED
      BY <1>7, <2>1, <2>2, <2>3 DEF StacksInv
  <1>8. ASSUME NEW i \in S!Installers, S!Wipe(i) PROVE StacksInv'
    <2> PICK h \in Hashes : h = inst[i].hash
      BY DEF StacksInv, StacksTyped, Install
    <2>1. inst[i].at = "wipe" /\ UNCHANGED current /\ S!UnderWay(i)
      BY <1>8 DEF S!Wipe, S!UnderWay
    <2>2. PICK left \in S!Remains(dir[h]) : dir' = [dir EXCEPT ![h] = left]
      BY <1>8 DEF S!Wipe
    <2>3. left \in Cell /\ (left = S!Absent \/ (left.there /\ left.cut))
      BY RemainsTyped DEF StacksInv, StacksTyped
    <2>4. PICK it \in Install :
             /\ inst' = [inst EXCEPT ![i] = it]
             /\ it.at = "idle" \/ (it.at = "mkdir" /\ it.hash = h /\ it.step = 1)
      <3> DEFINE it == [inst[i] EXCEPT !.at = "mkdir"]
      <3>1. it \in Install /\ it.hash = h /\ it.at = "mkdir" /\ it.step = 1
        BY <2>1 DEF StacksInv, StacksTyped, Filling, Install
      <3>2. inst' = [inst EXCEPT ![i] = it] \/ inst' = [inst EXCEPT ![i] = S!Rest]
        BY <1>8 DEF S!Wipe
      <3> HIDE DEF it
      <3> QED
        BY <3>1, <3>2, StacksAtRest
    <2>5. /\ dir'[h] = left /\ \A g \in Hashes : g # h => dir'[g] = dir[g]
          /\ inst'[i] = it /\ \A k \in S!Installers : k # i => inst'[k] = inst[k]
          /\ StacksTyped'
      BY <2>1, <2>2, <2>3, <2>4 DEF StacksInv, StacksTyped
    <2>6. Filling(i)' /\ Whole(h)'
      BY <2>3, <2>4, <2>5, StacksAtRest DEF Filling, Whole
    <2> QED
      BY <1>7, <2>1, <2>5, <2>6
  <1>9. ASSUME NEW i \in S!Installers, S!Mkdir(i) PROVE StacksInv'
    <2> PICK h \in Hashes : h = inst[i].hash
      BY DEF StacksInv, StacksTyped, Install
    <2> DEFINE d == [dir[h] EXCEPT !.there = TRUE]
               it == [inst[i] EXCEPT !.at = "prep"]
    <2>1. /\ inst[i].at = "mkdir" /\ UNCHANGED current
          /\ dir' = [dir EXCEPT ![h] = d] /\ inst' = [inst EXCEPT ![i] = it]
      BY <1>9 DEF S!Mkdir
    <2>2. h \in Hashes /\ it \in Install /\ it.hash = h /\ it.at = "prep" /\ it.step = 1
      BY <2>1 DEF StacksInv, StacksTyped, Filling, Install
    <2>3. d \in Cell /\ d.cut = dir[h].cut /\ (~d.cut => ~d.ready)
      BY <2>1, <2>2 DEF StacksInv, StacksTyped, Filling, Cell
    <2>4. /\ dir'[h] = d /\ \A g \in Hashes : g # h => dir'[g] = dir[g]
          /\ inst'[i] = it /\ \A k \in S!Installers : k # i => inst'[k] = inst[k]
          /\ StacksTyped'
      BY <2>1, <2>2, <2>3 DEF StacksInv, StacksTyped
    <2>6. S!UnderWay(i)
      BY <2>1 DEF S!UnderWay
    <2> HIDE DEF d, it
    <2>5. Filling(i)' /\ Whole(h)'
      BY <2>2, <2>3, <2>4 DEF Filling, Whole
    <2> QED
      BY <1>7, <2>4, <2>5, <2>6
  <1>10. ASSUME NEW i \in S!Installers, S!Prep(i) PROVE StacksInv'
    <2> PICK h \in Hashes : h = inst[i].hash
      BY DEF StacksInv, StacksTyped, Install
    <2> DEFINE s == inst[i].step
    <2>0. S!UnderWay(i)
      BY <1>10 DEF S!Prep, S!UnderWay
    <2>1. inst[i].at = "prep" /\ UNCHANGED current /\ h \in Hashes /\ dir[h] \in Cell
          /\ inst[i] \in Install /\ s \in 1 .. Steps + 1
      BY <1>10 DEF S!Prep, StacksInv, StacksTyped, Install
    <2>2. CASE ~dir[h].there
      BY <1>4, <1>10, <2>1, <2>2, StacksAtRest, Zenon DEF S!Prep
    <2>3. CASE dir[h].there /\ s <= Steps
      <3> DEFINE d == [dir[h] EXCEPT !.built[s] = i]
                 it == [inst[i] EXCEPT !.step = s + 1]
      <3>1. dir' = [dir EXCEPT ![h] = d] /\ inst' = [inst EXCEPT ![i] = it]
        <4>1. ~(s > Steps)
          BY <2>1, <2>3
        <4> QED
          BY <1>10, <2>3, <4>1, Zenon DEF S!Prep
      <3>2. it \in Install /\ it.hash = h /\ it.at = "prep" /\ it.step = s + 1
        BY <2>1, <2>3 DEF Install
      <3>3. /\ d \in Cell /\ d.ready = dir[h].ready /\ d.cut = dir[h].cut
            /\ d.built = [dir[h].built EXCEPT ![s] = i]
        BY <2>1, <2>3 DEF Cell
      <3>4. /\ dir'[h] = d /\ \A g \in Hashes : g # h => dir'[g] = dir[g]
            /\ inst'[i] = it /\ \A k \in S!Installers : k # i => inst'[k] = inst[k]
            /\ StacksTyped'
        BY <2>1, <3>1, <3>2, <3>3 DEF StacksInv, StacksTyped
      <3> HIDE DEF d, it
      <3>5. ~dir[h].cut => ~dir[h].ready /\ \A t \in 1 .. s - 1 : dir[h].built[t] = i
        BY <2>1, <2>3 DEF StacksInv, Filling
      <3>6. ~dir[h].cut => \A t \in 1 .. s : d.built[t] = i
        BY <2>1, <2>3, <3>3, <3>5 DEF Cell
      <3>7. Filling(i)' /\ Whole(h)'
        <4>1. /\ dir'[h].cut = dir[h].cut /\ (~dir[h].cut => ~dir'[h].ready)
              /\ inst'[i].at = "prep" /\ inst'[i].hash = h
          BY <3>2, <3>3, <3>4, <3>5
        <4>2. ~dir[h].cut => \A t \in 1 .. inst'[i].step - 1 : dir'[h].built[t] = i
          BY <2>1, <3>2, <3>4, <3>6
        <4> QED
          BY <4>1, <4>2 DEF Filling, Whole
      <3> QED
        BY <1>7, <2>0, <3>4, <3>7
    <2>4. CASE dir[h].there /\ s > Steps
      <3> DEFINE d == [dir[h] EXCEPT !.ready = TRUE]
                 it == S!Rest
      <3>1. dir' = [dir EXCEPT ![h] = d] /\ inst' = [inst EXCEPT ![i] = it]
        <4>1. ~(s <= Steps)
          BY <2>1, <2>4
        <4> QED
          BY <1>10, <2>4, <4>1, Zenon DEF S!Prep
      <3>2. d \in Cell /\ d.there /\ d.built = dir[h].built /\ d.cut = dir[h].cut
        BY <2>1, <2>4 DEF Cell
      <3>3. ~d.cut => \A t \in 1 .. Steps : d.built[t] = i
        BY <2>1, <2>4, <3>2 DEF StacksInv, Filling
      <3>4. /\ dir'[h] = d /\ \A g \in Hashes : g # h => dir'[g] = dir[g]
            /\ inst'[i] = it /\ \A k \in S!Installers : k # i => inst'[k] = inst[k]
            /\ StacksTyped'
        BY <2>1, <3>1, <3>2, StacksAtRest DEF StacksInv, StacksTyped
      <3> HIDE DEF d, it
      <3>6. inst'[i].at = "idle"
        BY <3>4, StacksAtRest DEF it
      <3>7. dir'[h].there /\ (~dir'[h].cut => \A t \in 1 .. Steps : dir'[h].built[t] = i)
        BY <3>2, <3>3, <3>4
      <3>5. Filling(i)' /\ Whole(h)'
        BY <3>6, <3>7 DEF Filling, Whole
      <3> QED
        BY <1>7, <2>0, <3>4, <3>5
    <2> QED
      BY <2>1, <2>2, <2>3, <2>4
  <1>11. CASE S!delete
    <2>1. UNCHANGED <<current, inst>>
      BY <1>11 DEF S!delete
    <2>2. \A h \in Hashes :
             \/ dir'[h] = dir[h]
             \/ dir'[h] = S!Absent
             \/ dir'[h] \in Cell /\ dir'[h].there /\ dir'[h].cut
      BY <1>11, RemainsTyped DEF S!delete, StacksInv, StacksTyped
    <2>3. StacksTyped'
      BY <1>11, <2>1, RemainsTyped, StacksAtRest DEF S!delete, StacksInv, StacksTyped
    <2>4. \A i \in S!Installers : Filling(i)'
      BY <2>1, <2>2, <2>3, StacksAtRest DEF StacksInv, StacksTyped, Install, Filling, S!Absent
    <2>5. \A h \in Hashes : Whole(h)'
      BY <2>1, <2>2, StacksAtRest DEF StacksInv, Whole
    <2> QED
      BY <2>1, <2>3, <2>4, <2>5 DEF StacksInv, InstallsAlone, S!UnderWay
  <1>12. CASE S!Edit
    BY <1>12 DEF S!Edit, StacksInv, StacksTyped, InstallsAlone, S!UnderWay, Filling, Whole
  <1> QED
    BY <1>2, <1>3, <1>5, <1>6, <1>8, <1>9, <1>10, <1>11, <1>12 DEF S!Next, S!Installing

(* A stack that says it is ready is there and one installation has done all *)
(* of its steps, whichever installations were refused, wiped, cut off or    *)
(* deleted before, as long as installations do not overlap and no rm of the *)
(* directory has stopped half way since it was last removed (install, check *)
(* and delete of stacks/manager.py).                                        *)
THEOREM ReadyStacksAreWhole == Spec => []ReadyIsWhole
  <1> DEFINE Inv == part = "stacks" => StacksInv
  <1>1. Init => Inv
    BY StacksBegin DEF Init
  <1>2. Inv /\ [Next]_vars => Inv'
    <2> SUFFICES ASSUME Inv, [Next]_vars PROVE Inv'
      OBVIOUS
    <2>1. CASE part = "stacks" /\ S!Next /\ UNCHANGED part
      BY <2>1, StacksStep
    <2>2. CASE UNCHANGED <<part, StacksVars>>
      BY <2>2 DEF StacksVars, StacksInv, StacksTyped, InstallsAlone, S!UnderWay, Filling, Whole
    <2> QED
      BY <2>1, <2>2 DEF Next, vars
  <1>3. Inv => ReadyIsWhole
    BY DEF StacksInv, ReadyIsWhole, Whole, S!ReadyIsWhole
  <1> QED
    BY <1>1, <1>2, <1>3, PTL DEF Spec
=============================================================================
