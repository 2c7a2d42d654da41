----------------------------- MODULE Algorithms -----------------------------
(***************************************************************************)
(* The algorithms that work on a graph, each on inputs of its own: the     *)
(* failure cascades over the items of a run, the check of a document's     *)
(* dependencies, and the expansion of environment groups.  They share no   *)
(* variable; part says which of them runs.                                 *)
(***************************************************************************)
EXTENDS CascadeLoops, Sequences

CONSTANTS
    Docs, GenDocs, MaxItems,
    Configs, Names, Stacks, Protected, build_seed

VARIABLES
    part,
    doc, items, verdict, color, path, left, root,
    config, phase, frames, out, env, applied

G == INSTANCE DepGraph

E == INSTANCE Env

(* A document is a list.                                                   *)
ASSUME DocsAssumption == \A d \in Docs \cup GenDocs : d \in Seq(E!ToSet(d))

(* What may be configured: lists of rules, each a record of its six fields *)
(* whose key is one of the environment's.                                  *)
IsRule(r) ==
    /\ r = [if_ |-> r.if_, include |-> r.include, stacks |-> r.stacks,
            key |-> r.key, op |-> r.op, part |-> r.part]
    /\ r.include \in Seq(Names)
    /\ r.key \in DOMAIN build_seed

IsList(l) == l \in Seq(E!ToSet(l)) /\ \A r \in E!ToSet(l) : IsRule(r)

ASSUME ConfigsAssumption ==
    /\ build_seed = [k \in DOMAIN build_seed |-> build_seed[k]]
    /\ Protected \subseteq DOMAIN build_seed
    /\ \A c \in Configs :
          /\ \A l \in E!Layers : IsList(c.rules[l])
          /\ \A l \in E!GroupLayers :
                /\ DOMAIN c.groups[l] \subseteq Names
                /\ \A n \in DOMAIN c.groups[l] : IsList(c.groups[l][n])

LoopsRest == deps = [i \in Item |-> {}] /\ before = [i \in Item |-> "pending"] /\ loop = "cascade"

DepsRest == doc = CHOOSE d \in Docs : TRUE

EnvRest == config = CHOOSE c \in Configs : TRUE

AllInit ==
    \/ part = "loops" /\ DepsRest /\ EnvRest /\ G!Init /\ E!Init /\ Init
    \/ part = "deps" /\ LoopsRest /\ EnvRest /\ Init /\ E!Init /\ G!Init
    \/ part = "env" /\ LoopsRest /\ DepsRest /\ Init /\ G!Init /\ E!Init

LoopsVars == vars

DepsVars == <<doc, items, verdict, color, path, left, root>>

EnvVars == <<config, phase, frames, out, env, applied>>

AllNext ==
    \/ part = "loops" /\ Next /\ UNCHANGED <<part, DepsVars, EnvVars>>
    \/ part = "deps" /\ G!Next /\ UNCHANGED <<part, LoopsVars, EnvVars>>
    \/ part = "env" /\ E!Next /\ UNCHANGED <<part, LoopsVars, DepsVars>>

AllVars == <<part, LoopsVars, DepsVars, EnvVars>>

AllSpec == AllInit /\ [][AllNext]_AllVars

-----------------------------------------------------------------------------
(* Each of them comes to an end if it goes on: the loops stop writing, the *)
(* search leaves every task, every include is expanded.                    *)
Ended ==
    CASE part = "loops" -> done
      [] part = "deps" -> verdict \in {"accepted", "rejected"}
      [] part = "env" -> phase \in {"done", "raised"}

EveryAlgorithmEnds == WF_AllVars(AllNext) => <>Ended

(* A document is accepted exactly if its tasks can be put in an order.      *)
AcceptsExactlyTheOrderable == part = "deps" => G!AcceptsExactlyTheOrderable

(* Resolving an environment fails on cycles and unknown stacks only.        *)
RaisesExactlyOnCycles == part = "env" => E!RaisesExactlyOnCycles

(* Neither the seed nor a task's own rules are overruled.                   *)
TaskHasLastWord == part = "env" => E!TaskHasLastWord
=============================================================================
