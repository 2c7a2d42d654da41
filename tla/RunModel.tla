------------------------------ MODULE RunModel ------------------------------
(***************************************************************************)
(* The data model of a run: runs/models.py.                                *)
(*                                                                         *)
(* Every item of every run has a number of its own, and RunOf says which   *)
(* run it belongs to.  The numbers of the items of one run follow their    *)
(* order in the list Run.items, so "the first n ready items" of the code   *)
(* are those with the n smallest numbers.  An item stands for a RunItem    *)
(* together with its TaskDefinition: Deps[i] is task.dependencies after    *)
(* _validate_dependencies, which lets through only ids of the same run.    *)
(***************************************************************************)
EXTENDS Integers, FiniteSets

CONSTANTS
    Run,        \* the runs that may exist
    NumItems,   \* how many items they have between them
    RunOf,      \* the run of each item
    Deps        \* the direct dependencies of each item

Item == 1 .. NumItems

ItemsOf(r) == {i \in Item : RunOf[i] = r}

ASSUME RunModelAssumption ==
    /\ NumItems \in Nat
    /\ RunOf \in [Item -> Run]
    /\ Deps \in [Item -> SUBSET Item]
    /\ \A i \in Item : \A d \in Deps[i] : RunOf[d] = RunOf[i]

(* No set of items feeds on itself: what the depth-first search of         *)
(* _validate_dependencies establishes for the items of a new run.          *)
Acyclic ==
    \A X \in SUBSET Item :
        X # {} => \E i \in X : Deps[i] \cap X = {}

-----------------------------------------------------------------------------
(* RunItemStatus, RunStatus.                                               *)

Status == {"pending", "submitted", "queued", "running", "settling",
           "completed", "failed", "dep_failed"}

(* What takes a concurrency slot: running_count counts these.              *)
Active == {"submitted", "queued", "running", "settling"}

TerminalFailure == {"failed", "dep_failed"}

TerminalItem == TerminalFailure \cup {"completed"}

TerminalRun == {"completed", "failed"}

With(st, r, S) == {i \in ItemsOf(r) : st[i] \in S}

RunningCount(st, r) == Cardinality(With(st, r, Active))

-----------------------------------------------------------------------------
(* Dependencies.                                                           *)

DepsSatisfied(st, i) == \A d \in Deps[i] : st[d] = "completed"

FailedDeps(st, i) == {d \in Deps[i] : st[d] \in TerminalFailure}

(* Mutants: FAILED items are tried again; a job that left the queue counts *)
(* as done.                                                                *)
ReadyFailedToo(st, r) ==
    {i \in With(st, r, {"pending", "failed"}) : DepsSatisfied(st, i)}

ReadyOnSettling(st, r) ==
    {i \in With(st, r, {"pending"}) :
        \A d \in Deps[i] : st[d] \in {"completed", "settling"}}

(* Items process_run may submit.                                           *)
Ready(st, r) == {i \in With(st, r, {"pending"}) : DepsSatisfied(st, i)}

(* Run.status, computed from the items each time it is read.               *)
RunStatus(st, r) ==
    LET Only(S) == With(st, r, S) = ItemsOf(r)
        blocked == \A i \in With(st, r, {"pending"}) : FailedDeps(st, i) # {}
        failing == With(st, r, TerminalFailure) # {}
    IN  CASE ItemsOf(r) = {} -> "completed"
          [] failing /\ Only(TerminalItem) -> "failed"
          [] failing /\ Only(TerminalItem \cup {"pending"}) /\ blocked -> "failed"
          [] Only({"completed"}) -> "completed"
          [] With(st, r, Active) # {} -> "running"
          [] OTHER -> "pending"

(***************************************************************************)
(* The first loop of process_run marks PENDING items with a failed         *)
(* dependency DEP_FAILED until nothing changes.  What it marks is the      *)
(* least set of PENDING items that holds every item with a failed          *)
(* dependency and every item that depends on one it holds.                 *)
(***************************************************************************)
ClosedUnderFailure(st, r, X) ==
    \A i \in With(st, r, {"pending"}) :
        FailedDeps(st, i) # {} \/ Deps[i] \cap X # {} => i \in X

Doomed(st, r) ==
    {i \in With(st, r, {"pending"}) :
        \A X \in SUBSET With(st, r, {"pending"}) :
            ClosedUnderFailure(st, r, X) => i \in X}

Cascade(st, r) ==
    [i \in Item |-> IF i \in Doomed(st, r) THEN "dep_failed" ELSE st[i]]

(***************************************************************************)
(* uncascade_dep_failures puts DEP_FAILED items without a failed           *)
(* dependency back to PENDING until nothing changes.  What it leaves       *)
(* DEP_FAILED is the greatest set in which every item has a dependency     *)
(* that is FAILED or in the set.                                           *)
(***************************************************************************)
(* Mutant: one pass, so that a chain stays DEP_FAILED below its head.      *)
StillDoomedOnePass(st, r) ==
    {i \in With(st, r, {"dep_failed"}) : FailedDeps(st, i) # {}}

StillDoomed(st, r) ==
    UNION {X \in SUBSET With(st, r, {"dep_failed"}) :
             \A i \in X : \E d \in Deps[i] : st[d] = "failed" \/ d \in X}

Uncascade(st, r) ==
    [i \in Item |->
        IF i \in With(st, r, {"dep_failed"}) \ StillDoomed(st, r)
        THEN "pending" ELSE st[i]]

=============================================================================
