---------------------------- MODULE MCAlgorithms ----------------------------
(* The inputs of Algorithms that a configuration file cannot write.         *)
EXTENDS Algorithms

(* Tasks a, b and c that name one another, a task nobody has, or a pattern. *)
Exact(n) == [wild |-> FALSE, names |-> {n}]

Wild(ns) == [wild |-> TRUE, names |-> ns]

Refs == {Exact(n) : n \in {"a", "b", "c", "x"}} \cup {Wild({"a", "b"}), Wild({"x"})}

TaskOf(id, refs) == [id : {id}, deps : SUBSET refs]

MCDocs ==
    {<<>>}
    \cup {<<s, t, u>> : s \in TaskOf("a", Refs), t \in TaskOf("b", Refs \ {Exact("x")}),
                        u \in TaskOf("c", {Exact("a"), Exact("b")})}
    \cup {<<t>> : t \in TaskOf("a", {Exact("b")})}
    \cup {<<s, t, u>> : s, u \in TaskOf("a", {Exact("b")}), t \in TaskOf("b", {Exact("a")})}

MCGenDocs ==
    {<<t>> : t \in TaskOf("g", {Exact("a"), Exact("g"), Exact("h"), Wild({"a", "g"})})}
    \cup {<<s, t>> : s \in TaskOf("g", {Exact("a"), Exact("h")}), t \in TaskOf("h", {Exact("g")})}

(* A rule sets or appends to one key, includes groups or refers to a stack  *)
(* that nobody defines, under at most one condition.                        *)
Plain == [if_ |-> {}, include |-> <<>>, stacks |-> {}, key |-> "K", op |-> "none", part |-> "a"]

Sets(k, p) == [Plain EXCEPT !.op = "set", !.key = k, !.part = p]

IfA == {<<"K", {<<"a">>}>>}

OwnRules ==
    {Sets("K", "a"), Sets("SCRIPTHUT_BACKEND", "b"), [Sets("K", "b") EXCEPT !.op = "append"],
     [Sets("K", "b") EXCEPT !.if_ = IfA],
     [Sets("K", "b") EXCEPT !.include = <<"g">>],
     [Plain EXCEPT !.include = <<"g", "h">>, !.if_ = IfA],
     [Plain EXCEPT !.stacks = {"nosuch"}]}

Bodies ==
    {<<>>} \cup {<<r>> : r \in OwnRules \cup {[Plain EXCEPT !.include = <<"h", "h">>]}}
    \cup {<<[Plain EXCEPT !.include = <<"h">>], Sets("K", "b")>>}

(* The group g of the backend or, shadowing it, of the document; the group  *)
(* h of the server; a rule of the backend, one of the document and one of   *)
(* the task, or none.                                                       *)
Lists == {<<>>} \cup {<<r>> : r \in OwnRules}

Groups ==
    {[backend |-> [n \in {"g"} |-> g], server |-> h, doc |-> d] :
        g \in Bodies,
        h \in {[n \in {} |-> <<>>]} \cup
              {[n \in {"h"} |-> <<r>>] :
                  r \in {Sets("K", "b"), [Plain EXCEPT !.include = <<"g", "h">>, !.if_ = IfA],
                         [Plain EXCEPT !.include = <<"g">>], [Plain EXCEPT !.stacks = {"nosuch"}]}},
        d \in {[n \in {} |-> <<>>], [n \in {"g"} |-> <<Sets("K", "b")>>]}}

MCConfigs ==
    {[rules  |-> [l \in {"backend", "server", "workflow-doc", "task"} |-> CASE l = "backend" -> x [] l = "task" -> y
                                       [] OTHER -> IF l = "workflow-doc" THEN z ELSE <<>>],
      groups |-> [l \in {"backend", "server", "workflow-doc"} |-> CASE l = "backend" -> gs.backend
                                            [] l = "server" -> gs.server
                                            [] l = "workflow-doc" -> gs.doc]] :
        x \in Lists, y \in Lists, z \in {<<>>, <<Sets("K", "a")>>}, gs \in Groups}

MCSeed == [k \in {"K", "SCRIPTHUT_BACKEND"} |->
              IF k = "K" THEN <<"(unset)">> ELSE <<"cluster">>]
=============================================================================
