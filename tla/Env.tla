-------------------------------- MODULE Env --------------------------------
(***************************************************************************)
(* The environment of a task (runs/env.py): the rules of four layers are   *)
(* put in one list, the groups they include are expanded in place, and the *)
(* list is applied in order to the seed of SCRIPTHUT_* variables.  Both    *)
(* loops run as they are written: the calls of flatten are a stack of      *)
(* frames, and no rule is applied before all have been expanded.  A value  *)
(* is the sequence of its ":"-separated parts.                             *)
(***************************************************************************)
EXTENDS Naturals, Sequences

CONSTANTS
    Configs,     \* what may be configured: rules and groups by layer
    Names,       \* names of groups, defined or not
    Stacks,      \* the stacks that are defined
    Protected,   \* the keys that begin with SCRIPTHUT_
    build_seed   \* the environment before any rule, over all keys

VARIABLES
    config,      \* the configuration of the task
    phase,       \* "flatten", "resolve", "done" or "raised"
    frames,      \* the calls of flatten under way
    out,         \* the rules expanded so far, with all their conditions
    env,         \* the environment
    applied      \* how many rules of out have been applied

vars == <<config, phase, frames, out, env, applied>>

Layers == {"backend", "server", "workflow-doc", "task"}
GroupLayers == {"backend", "server", "workflow-doc"}
Unset == <<"(unset)">>

(* Mutant: the task's rules come before the document's.                    *)
collect_rules_task_first ==
    config.rules["backend"] \o config.rules["server"] \o config.rules["task"]
        \o config.rules["workflow-doc"]

collect_rules ==
    config.rules["backend"] \o config.rules["server"] \o config.rules["workflow-doc"]
        \o config.rules["task"]

(* Later layers shadow earlier ones by name, for the rules of every layer. *)
collect_groups ==
    LET at(l) == config.groups[l]
    IN  [n \in UNION {DOMAIN at(l) : l \in GroupLayers} |->
            IF n \in DOMAIN at("workflow-doc") THEN at("workflow-doc")[n]
            ELSE IF n \in DOMAIN at("server") THEN at("server")[n]
            ELSE at("backend")[n]]

-----------------------------------------------------------------------------
(* flatten.  A frame is a call: its list, the rule it is at and the name   *)
(* in that rule's include:, the groups it is nested in and the conditions  *)
(* its rules inherit.                                                      *)

Frame(list, seen, guards) ==
    [list |-> list, at |-> 1, inc |-> 1, seen |-> seen, guards |-> guards]

Init ==
    /\ config \in Configs
    /\ phase = "flatten"
    /\ frames = <<Frame(collect_rules, {}, {})>>
    /\ out = <<>>
    /\ env = build_seed
    /\ applied = 0

Depth == Len(frames)
Top == frames[Depth]
Rule == Top.list[Top.at]
Name == Rule.include[Top.inc]

Including == Top.at <= Len(Top.list) /\ Top.inc <= Len(Rule.include)

Skip == frames' = [frames EXCEPT ![Depth].inc = @ + 1]

(* Mutant: the names are remembered after their group has been left.       *)
Include_remembered ==
    /\ phase = "flatten" /\ Including
    /\ \/ /\ Name \in Top.seen
          /\ phase' = "raised" /\ UNCHANGED frames
       \/ /\ Name \notin Top.seen /\ Name \notin DOMAIN collect_groups
          /\ Skip /\ UNCHANGED phase
       \/ /\ Name \notin Top.seen /\ Name \in DOMAIN collect_groups
          /\ frames' = Append([frames EXCEPT ![Depth].seen = @ \cup {Name}],
                              Frame(collect_groups[Name], Top.seen \cup {Name},
                                    Top.guards \cup Rule.if_))
          /\ UNCHANGED phase
    /\ UNCHANGED <<config, out, env, applied>>

(* A name of an include: raises if it is being expanded, whether or not    *)
(* the conditions would hold, is skipped if no layer defines it, and else  *)
(* opens a call.                                                           *)
Include ==
    /\ phase = "flatten" /\ Including
    /\ \/ /\ Name \in Top.seen
          /\ phase' = "raised" /\ UNCHANGED frames
       \/ /\ Name \notin Top.seen /\ Name \notin DOMAIN collect_groups
          /\ Skip /\ UNCHANGED phase
       \/ /\ Name \notin Top.seen /\ Name \in DOMAIN collect_groups
          /\ frames' = Append(frames, Frame(collect_groups[Name], Top.seen \cup {Name},
                                            Top.guards \cup Rule.if_))
          /\ UNCHANGED phase
    /\ UNCHANGED <<config, out, env, applied>>

(* After its includes a rule's stacks are looked up, and the rule itself   *)
(* joins the list if it sets anything.                                     *)
Keep ==
    /\ phase = "flatten" /\ Top.at <= Len(Top.list) /\ Top.inc > Len(Rule.include)
    /\ \/ /\ ~(Rule.stacks \subseteq Stacks)
          /\ phase' = "raised" /\ UNCHANGED <<frames, out>>
       \/ /\ Rule.stacks \subseteq Stacks
          /\ out' = IF Rule.op = "none" THEN out
                    ELSE Append(out, [Rule EXCEPT !.if_ = @ \cup Top.guards])
          /\ frames' = [frames EXCEPT ![Depth].at = @ + 1, ![Depth].inc = 1]
          /\ UNCHANGED phase
    /\ UNCHANGED <<config, env, applied>>

(* A call returns to the include: it came from.                            *)
Return ==
    /\ phase = "flatten" /\ Top.at > Len(Top.list)
    /\ \/ /\ Depth > 1
          /\ frames' = [SubSeq(frames, 1, Depth - 1) EXCEPT ![Depth - 1].inc = @ + 1]
          /\ UNCHANGED phase
       \/ /\ Depth = 1
          /\ phase' = "resolve" /\ UNCHANGED frames
    /\ UNCHANGED <<config, out, env, applied>>

-----------------------------------------------------------------------------
(* resolve_detailed: one rule after the other, under conditions on what    *)
(* the earlier ones have made of the environment.                          *)

_is_protected(k) == k \in Protected

_matches(e, r) == \A c \in r.if_ : e[c[1]] \in c[2]

Apply(e, r) ==
    IF ~_matches(e, r) \/ _is_protected(r.key)
    THEN e
    ELSE [e EXCEPT ![r.key] = IF r.op = "append" /\ @ # Unset THEN Append(@, r.part)
                                                              ELSE <<r.part>>]

resolve_detailed ==
    /\ phase = "resolve"
    /\ \/ /\ applied < Len(out)
          /\ env' = Apply(env, out[applied + 1])
          /\ applied' = applied + 1
          /\ UNCHANGED phase
       \/ /\ applied = Len(out)
          /\ phase' = "done" /\ UNCHANGED <<env, applied>>
    /\ UNCHANGED <<config, frames, out>>

Next == Include \/ Keep \/ Return \/ resolve_detailed

Spec == Init /\ [][Next]_vars

-----------------------------------------------------------------------------
(* What a list or a group includes, and what is reached from some names.   *)

ToSet(s) == {s[i] : i \in DOMAIN s}

Entry == ToSet(collect_rules)

Body(n) == IF n \in DOMAIN collect_groups THEN ToSet(collect_groups[n]) ELSE {}

Named(rs) == UNION {ToSet(r.include) : r \in rs}

Closed(S) == \A n \in S : Named(Body(n)) \subseteq S

Closure(ns) == {n \in Names : \A S \in SUBSET Names : ns \subseteq S /\ Closed(S) => n \in S}

(* Resolving raises for a group that reaches itself and for a stack that   *)
(* nothing defines, where a task's rules reach them, and for nothing else: *)
(* a group may be included twice.                                          *)
RaisesExactlyOnCycles ==
    phase # "flatten" =>
        LET reached == Closure(Named(Entry))
        IN  phase = "raised" <=>
               \/ \E n \in reached : n \in Closure(Named(Body(n)))
               \/ \E r \in Entry \cup UNION {Body(n) : n \in reached} :
                     ~(r.stacks \subseteq Stacks)

(* The seed reaches the task whatever the rules say, and what the task's   *)
(* last rule sets unconditionally is not undone by any other rule.         *)
TaskHasLastWord ==
    phase = "done" =>
        /\ \A k \in Protected : env[k] = build_seed[k]
        /\ LET own == config.rules["task"]
               r   == own[Len(own)]
           IN  own # <<>> /\ r.op = "set" /\ r.if_ = {} /\ ~_is_protected(r.key) =>
                  env[r.key] = <<r.part>>

(* "a group defined at layer X is visible to that layer's own env: and to  *)
(* all later layers": an include in a layer's list means the group as that *)
(* layer and the earlier ones define it.                                   *)
GroupsAreScoped ==
    \A n \in DOMAIN config.groups["backend"] :
        n \in Named(ToSet(config.rules["backend"]))
            => collect_groups[n] = config.groups["backend"][n]
=============================================================================
