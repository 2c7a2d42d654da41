------------------------------- MODULE DepGraph -------------------------------
(* What runs/manager.py does with the dependencies of a workflow document:      *)
(* wildcards are resolved against the document, references are checked, cycles  *)
(* are looked for with a three-colour depth-first search, one step per turn of  *)
(* its loops, and the run's items are built; a task that generates tasks later  *)
(* has them resolved against the whole run and appended.  A document is a       *)
(* sequence of tasks [id, deps]; a dependency is [wild, names]: the name it     *)
(* writes out, or the names its pattern matches.                                *)
EXTENDS Naturals, Sequences

CONSTANTS Docs,      \* the documents a request may bring
          GenDocs,   \* the documents a task may generate
          MaxItems   \* bound: a run generates tasks while it has at most so many

VARIABLES doc,       \* the document of the request
          items,     \* the tasks of the run, their dependencies resolved
          verdict,   \* "new", "searching", "accepted" or "rejected"
          color,     \* of each task id: "white", "grey" or "black"
          path,      \* the calls of dfs under way, by their node
          left,      \* the dependencies a call has still to look at
          root       \* the task the outer loop looks at next

search == <<color, path, left, root>>

vars == <<doc, items, verdict, search>>

IdsOf(tasks) == {tasks[i].id : i \in DOMAIN tasks}

(* fnmatch against the ids, the task's own id left out *)
Matches(task, ref, ids) == IF ref.wild THEN (ref.names \cap ids) \ {task.id} ELSE ref.names

Resolvable(tasks, ids) ==
  \A i \in DOMAIN tasks : \A ref \in tasks[i].deps :
    ref.wild => Matches(tasks[i], ref, ids) # {}

_resolve_wildcard_deps(tasks, ids) ==
  [i \in DOMAIN tasks |->
     [id |-> tasks[i].id,
      deps |-> UNION {Matches(tasks[i], ref, ids) : ref \in tasks[i].deps}]]

(* deps_map: of several tasks with one id the last one counts *)
DepsMap(tasks) ==
  [n \in IdsOf(tasks) |->
     tasks[CHOOSE i \in DOMAIN tasks :
             /\ tasks[i].id = n
             /\ \A j \in DOMAIN tasks : tasks[j].id = n => j <= i].deps]

-----------------------------------------------------------------------------
(* The check of _validate_dependencies: first the names, then dfs, whose call   *)
(* stack is path.  left is what the loops over the dependencies of the grey     *)
(* nodes have still to look at, and root the next task of the loop that starts  *)
(* the searches.                                                                *)

Tasks == _resolve_wildcard_deps(doc, IdsOf(doc))

deps_map == DepsMap(Tasks)

(* A document that is empty, a pattern that matches nothing, a missing name and *)
(* a task that names itself are refused before the search.                      *)
NamesExist ==
  /\ doc # << >> /\ Resolvable(doc, IdsOf(doc))
  /\ \A i \in DOMAIN Tasks : Tasks[i].deps \subseteq IdsOf(doc) \ {Tasks[i].id}

Init == /\ doc \in Docs
        /\ items = << >>
        /\ verdict = "new"
        /\ color = [n \in IdsOf(doc) |-> "white"]
        /\ path = << >>
        /\ left = [n \in IdsOf(doc) |-> {}]
        /\ root = 1

_build_run ==
  /\ verdict = "new"
  /\ verdict' = IF NamesExist THEN "searching" ELSE "rejected"
  /\ UNCHANGED <<doc, items, search>>

Enter(n, l) ==
  /\ color' = [color EXCEPT ![n] = "grey"]
  /\ path' = Append(path, n)
  /\ left' = [l EXCEPT ![n] = deps_map[n]]

(* The loop over the tasks, between two calls of dfs.                           *)
SearchFrom ==
  /\ verdict = "searching" /\ path = << >> /\ root <= Len(doc)
  /\ root' = root + 1
  /\ LET n == doc[root].id
     IN  \/ color[n] = "white" /\ Enter(n, left)
         \/ color[n] # "white" /\ UNCHANGED <<color, path, left>>
  /\ UNCHANGED <<doc, items, verdict>>

Node == path[Len(path)]

(* One turn of the loop of dfs: a grey dependency closes a cycle, a white one   *)
(* is searched, a black one has been.                                           *)
FollowDep ==
  /\ verdict = "searching" /\ path # << >>
  /\ \E dep \in left[Node] :
       LET rest == [left EXCEPT ![Node] = @ \ {dep}]
       IN  \/ /\ color[dep] = "grey" /\ verdict' = "rejected"
              /\ UNCHANGED search
           \/ /\ color[dep] = "white" /\ Enter(dep, rest)
              /\ UNCHANGED <<root, verdict>>
           \/ /\ color[dep] = "black" /\ left' = rest
              /\ UNCHANGED <<color, path, root, verdict>>
  /\ UNCHANGED <<doc, items>>

(* Mutant: dfs returns without marking the node as done.                        *)
Leave_grey ==
  /\ verdict = "searching" /\ path # << >> /\ left[Node] = {}
  /\ path' = SubSeq(path, 1, Len(path) - 1)
  /\ UNCHANGED <<doc, items, verdict, color, left, root>>

(* dfs returns.                                                                 *)
Leave ==
  /\ verdict = "searching" /\ path # << >> /\ left[Node] = {}
  /\ color' = [color EXCEPT ![Node] = "black"]
  /\ path' = SubSeq(path, 1, Len(path) - 1)
  /\ UNCHANGED <<doc, items, verdict, left, root>>

(* The search has come to its end and the run gets its items.                   *)
Accept ==
  /\ verdict = "searching" /\ path = << >> /\ root > Len(doc)
  /\ verdict' = "accepted"
  /\ items' = Tasks
  /\ UNCHANGED <<doc, search>>

_handle_generates_source_unchecked ==
  /\ verdict = "accepted" /\ Len(items) <= MaxItems
  /\ \E new \in GenDocs :
       items' = items \o _resolve_wildcard_deps(new, IdsOf(items \o new))
  /\ UNCHANGED <<doc, verdict, search>>

(* Only unknown names are refused here: no self-reference, cycle or second use  *)
(* of an id is looked for.                                                       *)
_handle_generates_source ==
  /\ verdict = "accepted" /\ Len(items) <= MaxItems
  /\ \E new \in GenDocs :
       LET ids == IdsOf(items \o new)
           tasks == _resolve_wildcard_deps(new, ids)
       IN  /\ Resolvable(new, ids)
           /\ \A i \in DOMAIN tasks : tasks[i].deps \subseteq ids
           /\ items' = items \o tasks
  /\ UNCHANGED <<doc, verdict, search>>

Next == \/ _build_run \/ SearchFrom \/ FollowDep \/ Leave \/ Accept
        \/ _handle_generates_source

Spec == Init /\ [][Next]_vars

------------------------------------------------------------------------------
(* The definition the search is checked against.                                 *)
DistinctIds(tasks) == \A i, j \in DOMAIN tasks : tasks[i].id = tasks[j].id => i = j

(* get_item_by_task_id: of several items with one id a dependency means the first. *)
FirstOf(tasks, n) ==
  CHOOSE i \in DOMAIN tasks :
    /\ tasks[i].id = n
    /\ \A j \in DOMAIN tasks : tasks[j].id = n => i <= j

(* Tasks that can be ordered so that each comes after those it waits for.        *)
Orderable(tasks) ==
  \A S \in (SUBSET DOMAIN tasks) \ {{}} :
    \E i \in S : {FirstOf(tasks, n) : n \in tasks[i].deps} \cap S = {}

(* Every dependency of an item names an item of the run, those of generated      *)
(* tasks included: an unknown name would keep the item PENDING for good          *)
(* (are_deps_satisfied, runs/models.py).                                          *)
DepsExist ==
  \A i \in DOMAIN items : items[i].deps \subseteq IdsOf(items)

(* A document whose ids differ is accepted exactly when its references exist and *)
(* its tasks can be ordered: the three colours reject no diamond and let no      *)
(* cycle through (_validate_dependencies).                                        *)
AcceptsExactlyTheOrderable ==
  (verdict \in {"accepted", "rejected"} /\ DistinctIds(doc)) =>
    (verdict = "accepted" <=>
       /\ doc # << >> /\ Resolvable(doc, IdsOf(doc))
       /\ \A i \in DOMAIN Tasks : Tasks[i].deps \subseteq IdsOf(doc)
       /\ Orderable(Tasks))

(* docs/task-json/index.md says of generated tasks "The new tasks are            *)
(* validated": no tasks of a run wait for each other.                             *)
GeneratedOrderable == DistinctIds(items) => Orderable(items)

(* docs/task-json/index.md: "Circular dependencies: Detected via DFS cycle        *)
(* detection": an accepted document can run, whatever its ids.                    *)
AcceptedCanRun == verdict = "accepted" /\ items = Tasks =>
                    Orderable(items)
==============================================================================
