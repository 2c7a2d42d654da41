------------------------------- MODULE MCShared -------------------------------
(* The values of Shared's constants that a configuration file cannot write. *)
EXTENDS Shared

(* The two runs are of one commit and share the directory of its clone. *)
MCDirOf == [r1 |-> "d1", r2 |-> "d1"]

MCCommitOf == [r1 |-> "c1", r2 |-> "c1"]
=============================================================================
