------------------------------ MODULE MCServer ------------------------------
(* The values of Server's constants that a configuration file cannot write. *)
EXTENDS Server

MCRunOf == <<"r1", "r1", "r2">>

MCDeps == <<{}, {1}, {}>>

MCRunMax == [r \in {"r1", "r2"} |-> -1]

MCWeekOf == [j \in {"m1"} |-> 1]

MCHome == <<"/", "home", "u">>

P(s) == MCHome \o s

MCDirs == {P(<<"clones", "c1">>), P(<<"clones", "a1">>), P(<<"stacks", "env", "h1">>)}

MCEdits == {P(<<"clones", "a1">>)}

MCRunShape == [r1 |-> [commit |-> "c1", wds |-> {P(<<"clones", "a1">>)}, log |-> NoPath]]

C0 == [clone |-> << <<"~", "clones">> >>,
       stacks |-> << [name |-> "env", hash |-> "h1", cache_dir |-> <<"~", "stacks">>,
                      backends |-> {}] >>,
       logs |-> << <<"~", "cache", "logs">> >>, caches |-> << <<"~", "cache">> >>]

MCConfigs == {C0, [C0 EXCEPT !.stacks = <<>>]}

MCPathLists == {Bulk, {P(<<"clones", "c1">>), P(<<"clones", "a1">>)}}

ASSUME ServerAssumption == RootsSeparate
=============================================================================
