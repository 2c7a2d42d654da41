------------------------------ MODULE DiskRules ------------------------------
(****************************************************************************)
(* The pure half of the disk service: what a scan of one backend reports,   *)
(* how an entry is classified against the runs the server knows, and what a *)
(* cleanup would delete.  (disk/scan.py, disk/classify.py, disk/cleanup.py) *)
(*                                                                          *)
(* A path is a sequence of segments that starts with "/" or with "~".  A    *)
(* name is a member of HashNames (a 12-hex commit hash), of AgentNames (an  *)
(* agent workspace) or anything else.  Sizes, times and wording are left    *)
(* out: no decision of the code depends on them.                            *)
(****************************************************************************)
EXTENDS Naturals, Sequences, FiniteSets, SequencesExt

CONSTANTS HashNames, AgentNames

ASSUME NamesAssumption == HashNames \cap AgentNames = {}

NoHome == <<>>
NoPath == <<>>

Kinds   == {"clone", "agent", "stack", "log", "other"}
Classes == {"active", "referenced", "orphaned", "unknown"}
DELETABLE_KINDS == {"clone", "agent", "stack", "log"}

(***************************** scan.py ************************************)
LastName(p) == p[Len(p)]

Below(p, root) == IF IsStrictPrefix(root, p)
                  THEN SubSeq(p, Len(root) + 1, Len(p)) ELSE <<>>

normalize_remote_path(p, home) ==
    IF home # NoHome /\ p[1] = "~" THEN home \o Tail(p) ELSE p

\* The roots of one backend, in order: the clone directories, and the cache
\* directories of the stacks that may be used on it.  A root named twice does
\* not matter to what follows, so the duplicates stay.
build_scan_spec(cloneDirs, stacks, backend, logRoots, cacheRoots) ==
    LET here == SelectSeq(stacks, LAMBDA s : s.backends = {} \/ backend \in s.backends)
    IN  [clone |-> cloneDirs,
         stack |-> [i \in DOMAIN here |-> here[i].cache_dir],
         log   |-> logRoots,
         cache |-> cacheRoots]

Roots(dirs, home) == [i \in DOMAIN dirs |-> normalize_remote_path(dirs[i], home)]

\* The first root, in the order of the list, that a path lies below, if any.
FirstOver(p, roots) ==
    LET over == {i \in DOMAIN roots : IsStrictPrefix(roots[i], p)}
    IN  {roots[i] : i \in {k \in over : \A j \in over : k <= j}}

\* _sh_covered: the path is a root with a section of its own, lies inside one
\* or contains one.
Covered(p, spec, home) ==
    \E r \in ToSet(Roots(spec.clone \o spec.stack \o spec.log, home)) :
        IsPrefix(r, p) \/ IsPrefix(p, r)

\* What the remote script prints: the children of clone and log roots, the
\* grandchildren of stack roots with their .ready mark, and what else lies in
\* the cache roots.  The shell always knows its home.
ScanLines(files, ready, spec, shellHome) ==
    LET In(p, roots, depth) ==
            \E r \in ToSet(Roots(roots, shellHome)) : Len(Below(p, r)) = depth
    IN       {[section |-> "clones", path |-> p, ready |-> "none"] :
                    p \in {q \in files : In(q, spec.clone, 1)}}
        \cup {[section |-> "stacks", path |-> p,
               ready |-> IF p \in ready THEN "yes" ELSE "no"] :
                    p \in {q \in files : In(q, spec.stack, 2)}}
        \cup {[section |-> "logs", path |-> p, ready |-> "none"] :
                    p \in {q \in files : In(q, spec.log, 1)}}
        \cup {[section |-> "cache", path |-> p, ready |-> "none"] :
                    p \in {q \in files : In(q, spec.cache, 1)
                                          /\ ~Covered(q, spec, shellHome)}}

\* An anonymous child of a cache root stays "other", whatever its name.
KindOf(line) ==
    CASE line.section = "stacks" -> "stack"
      [] line.section = "logs"   -> "log"
      [] line.section = "clones" /\ LastName(line.path) \in HashNames  -> "clone"
      [] line.section = "clones" /\ LastName(line.path) \in AgentNames -> "agent"
      [] OTHER -> "other"

raw_to_entries(lines) ==
    {[path |-> l.path, kind |-> KindOf(l), ready |-> l.ready, class |-> "unknown"] :
        l \in lines}

(***************************** classify.py ********************************)
\* The child of the first clone directory that a path lies in, if any.
CloneChild(p, cloneDirs, home) ==
    {SubSeq(p, 1, Len(r) + 1) : r \in FirstOver(p, Roots(cloneDirs, home))}

\* References of the known runs: from the recorded commit, from the working
\* directories of the items and from the log directory.  A run is
\* [id, active, commit, wds, log].
build_run_references(runs, spec, home) ==
    LET Touched(r) == UNION {CloneChild(normalize_remote_path(p, home), spec.clone, home) :
                                p \in r.wds \cup ({r.log} \ {NoPath})}
        Hashes(r)  == ({r.commit} \ {"none"})
                      \cup ({LastName(c) : c \in Touched(r)} \cap HashNames)
        Agents(r)  == {c \in Touched(r) : LastName(c) \in AgentNames}
        Logs(r)    == {normalize_remote_path(p, home) : p \in {r.log} \ {NoPath}}
    IN  [clones |-> UNION {Hashes(r) \X {r.id} : r \in runs},
         agents |-> UNION {Agents(r) \X {r.id} : r \in runs},
         logs   |-> UNION {Logs(r) \X {r.id} : r \in runs},
         active |-> {r.id : r \in {x \in runs : x.active}}]

\* The runs that point at an entry.
RefIds(e, refs) ==
    CASE e.kind = "clone" -> {x[2] : x \in {y \in refs.clones : y[1] = LastName(e.path)}}
      [] e.kind = "agent" -> {x[2] : x \in {y \in refs.agents : y[1] = e.path}}
      [] e.kind = "log"   -> {x[2] : x \in {y \in refs.logs : IsPrefix(e.path, y[1])}}
      [] OTHER -> {}

\* _classify_stack: declared is the set of <<name, hash>> the configuration
\* and the project files name.
StackClass(e, declared) ==
    LET name == e.path[Len(e.path) - 1]
    IN  IF e.ready = "no" \/ name \notin {d[1] : d \in declared}
        THEN "orphaned" ELSE "referenced"

classify(e, refs, declared) ==
    CASE e.kind = "stack" -> StackClass(e, declared)
      [] e.kind = "other" -> "unknown"
      [] OTHER -> LET ids == RefIds(e, refs)
                  IN  IF ids = {} THEN "orphaned"
                      ELSE IF ids \cap refs.active # {} THEN "active"
                      ELSE "referenced"

classify_entries(entries, refs, declared) ==
    {[e EXCEPT !.class = classify(e, refs, declared)] : e \in entries}

(***************************** cleanup.py *********************************)
\* The plan would go by what the scan found.
fresh_copies_cached(scan, refs, declared) == scan.entries

\* Copies of the cached entries, classified against the runs of now.
fresh_copies(scan, refs, declared) == classify_entries(scan.entries, refs, declared)

\* Only the shape of the path is looked at.
Safe_anywhere(e, spec, home) == e.path[1] = "/" /\ Len(e.path) > 3

\* _safety_reason is None: a clean absolute path, deep enough, below a root of
\* its kind at the right depth, and still named as its kind is.
Safe(e, spec, home) ==
    LET roots == CASE e.kind \in {"clone", "agent"} -> spec.clone
                   [] e.kind = "stack" -> spec.stack
                   [] OTHER -> spec.log
        depth == IF e.kind = "stack" THEN 2 ELSE 1
    IN  /\ e.path[1] = "/"
        /\ \A i \in 2 .. Len(e.path) : e.path[i] \notin {"", ".", ".."}
        /\ Len(e.path) > 3
        /\ e.path # home
        /\ \E r \in FirstOver(e.path, Roots(roots, home)) : Len(Below(e.path, r)) = depth
        /\ e.kind = "clone" => LastName(e.path) \in HashNames
        /\ e.kind = "agent" => LastName(e.path) \in AgentNames

\* What becomes of one candidate.
Fate(e, spec, home, allow) ==
    IF \/ e.kind \notin DELETABLE_KINDS
       \/ e.class \in {"active", "unknown"}
       \/ /\ e.class = "referenced"
          /\ e.path \notin {normalize_remote_path(p, home) : p \in allow}
       \/ ~Safe(e, spec, home)
    THEN "skip"
    ELSE IF e.kind = "agent" THEN "check_then_delete" ELSE "delete"

Bulk == {NoPath}   \* paths is None

\* A plan decides over the entries of the cached scan, classified anew; a
\* request that names an unknown path is refused as a whole.
plan_cleanup(scan, refs, declared, spec, paths, allow) ==
    LET norm  == {normalize_remote_path(p, scan.home) : p \in paths}
        known == {e.path : e \in scan.entries}
        copies == fresh_copies(scan, refs, declared)
        candidates ==
            IF paths = Bulk
            THEN {e \in copies : e.class = "orphaned" /\ e.kind \in DELETABLE_KINDS}
            ELSE {e \in copies : e.path \in norm}
        fate(e) == Fate(e, spec, scan.home, allow)
    IN  IF paths # Bulk /\ ~(norm \subseteq known)
        THEN [errors |-> TRUE, delete |-> {}, check |-> {}, skip |-> {}]
        ELSE [errors |-> FALSE,
              delete |-> {e \in candidates : fate(e) = "delete"},
              check  |-> {e \in candidates : fate(e) = "check_then_delete"},
              skip   |-> {e \in candidates : fate(e) = "skip"}]

to_delete(plan) == plan.delete \cup plan.check
=============================================================================
