---------------------------- MODULE CascadeLoops ----------------------------
(***************************************************************************)
(* The two loops over the items of one run that the other modules use      *)
(* through their fixpoints: the failure cascade at the head of process_run *)
(* and Run.uncascade_dep_failures.  Here they run as they are written: a   *)
(* pass visits the items in list order and writes each one as it goes, so  *)
(* a later item of the same pass already sees the writes, and the loop     *)
(* stops after the first pass that changed nothing.  The dependencies are  *)
(* part of the state, so that one run of TLC meets every graph.            *)
(***************************************************************************)
EXTENDS Integers, FiniteSets

CONSTANT
    NumItems    \* the length of the run's item list

ASSUME LoopsAssumption == NumItems \in Nat

VARIABLES
    deps,       \* the run's dependencies
    before,     \* the statuses on entry
    st,         \* the statuses now
    loop,       \* which of the loops runs
    at,         \* the item the pass visits next
    changed,    \* the loop's flag
    done        \* the loop has ended

vars == <<deps, before, st, loop, at, changed, done>>

M == INSTANCE RunModel WITH
        Run <- {"r"}, RunOf <- [i \in 1 .. NumItems |-> "r"], Deps <- deps

Item == 1 .. NumItems

(* Statuses that matter to the loops: "running" stands for the four active *)
(* ones.                                                                   *)
EntryStatus == {"pending", "running", "completed", "failed", "dep_failed"}

Init ==
    /\ deps \in [Item -> SUBSET Item]
    /\ before \in [Item -> EntryStatus]
    /\ st = before
    /\ loop \in {"cascade", "uncascade"}
    /\ at = 1
    /\ changed = FALSE
    /\ done = FALSE

(* Mutant: the cascade also takes items that are no longer pending.        *)
MarksAnyStatus(i) ==
    \/ loop = "cascade" /\ st[i] # "dep_failed" /\ M!FailedDeps(st, i) # {}
    \/ loop = "uncascade" /\ st[i] = "dep_failed" /\ M!FailedDeps(st, i) = {}

(* The loops' bodies: whether the visit of item i writes, and what.        *)
Marks(i) ==
    \/ loop = "cascade" /\ st[i] = "pending" /\ M!FailedDeps(st, i) # {}
    \/ loop = "uncascade" /\ st[i] = "dep_failed" /\ M!FailedDeps(st, i) = {}

Mark == IF loop = "cascade" THEN "dep_failed" ELSE "pending"

Visit ==
    /\ ~done
    /\ at <= NumItems
    /\ st' = IF Marks(at) THEN [st EXCEPT ![at] = Mark] ELSE st
    /\ changed' = (changed \/ Marks(at))
    /\ at' = at + 1
    /\ UNCHANGED <<deps, before, loop, done>>

(* Mutants: a single pass; a flag that is never reset.                     *)
EndPassOnce ==
    /\ ~done /\ at > NumItems
    /\ done' = TRUE
    /\ UNCHANGED <<deps, before, st, loop, at, changed>>

EndPassNoReset ==
    /\ ~done /\ at > NumItems
    /\ done' = ~changed
    /\ at' = IF changed THEN 1 ELSE at
    /\ UNCHANGED <<deps, before, st, loop, changed>>

(* The while condition.                                                    *)
EndPass ==
    /\ ~done
    /\ at > NumItems
    /\ done' = ~changed
    /\ at' = IF changed THEN 1 ELSE at
    /\ changed' = FALSE
    /\ UNCHANGED <<deps, before, st, loop>>

Next == Visit \/ EndPass

Spec == Init /\ [][Next]_vars

-----------------------------------------------------------------------------
(* What RunModel says the loop computes.                                   *)
Fixpoint == IF loop = "cascade" THEN M!Cascade(before, "r")
                                ELSE M!Uncascade(before, "r")

(* A loop that ends has computed its fixpoint: whatever the order of the   *)
(* items and whatever the dependencies, cycles included (tasks appended by *)
(* generates_source are not checked for cycles).                           *)
LoopIsFixpoint == done => st = Fixpoint

(* No visit overshoots the fixpoint: an item is written at most once, and  *)
(* only if the statuses on entry alone doom it (or free it).  So a pass    *)
(* that is not the last never shows a status the loop will take back.      *)
NeverOvershoots ==
    \A i \in Item : st[i] \in {before[i], Fixpoint[i]}

(* Correcting a false failure: when the items a cascade failed are reset   *)
(* after the failed items turned out completed, the run is back where the  *)
(* cascade found it.  This needs the acyclic dependencies of a validated   *)
(* run: a cycle of DEP_FAILED items would hold itself up.                  *)
Corrected(s) == [i \in Item |-> IF s[i] = "failed" THEN "completed" ELSE s[i]]

UncascadeUndoesCascade ==
    M!Acyclic /\ (\A i \in Item : before[i] # "dep_failed") =>
        M!Uncascade(Corrected(M!Cascade(before, "r")), "r") = Corrected(before)

=============================================================================
