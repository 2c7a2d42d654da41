------------------------------- MODULE Stacks -------------------------------
(***************************************************************************)
(* The cached builds of one software stack on one backend                  *)
(* (stacks/manager.py, and the install task RunManager synthesises).  A    *)
(* build is a directory named by the hash of the stack's definition; its   *)
(* .ready file says that the prep script ran to its end.  Installs run     *)
(* over SSH from a command line or as a scheduled task, and nothing but    *)
(* the directory itself coordinates them.                                  *)
(***************************************************************************)
EXTENDS Naturals

CONSTANTS BySsh,     \* installers of StackManager.install
          ByTask,    \* install tasks of create_run_from_stack
          Hashes,    \* the hashes the definition may have, as it is edited
          Steps,     \* the prep script is the steps 1..Steps
          Overlap,   \* may an install begin while another one is under way?
          Unreliable \* may the remote check exit with an error?

VARIABLES dir,       \* the hash directories
          current,   \* what compute_stack_hash returns now
          inst       \* the installs' local state

vars == <<dir, current, inst>>

Installers == BySsh \cup ByTask

Nothing == "nothing"

\* cut: an rm of the directory has stopped half way, and none has removed the
\* whole of it since (history).
Absent == [there |-> FALSE, built |-> [s \in 1..Steps |-> Nothing],
           ready |-> FALSE, cut |-> FALSE]

Rest == [at |-> "idle", hash |-> CHOOSE h \in Hashes : TRUE, rebuild |-> FALSE, step |-> 1]

Init == /\ dir = [h \in Hashes |-> Absent]
        /\ current \in Hashes
        /\ inst = [i \in Installers |-> Rest]

UnderWay(i) == inst[i].at \in {"wipe", "mkdir", "prep"}

MayBegin == Overlap \/ \A i \in Installers : ~UnderWay(i)

(* The states the check can report: a command that fails reads as MISSING. *)
check(h) ==
  {IF dir[h].ready THEN "READY" ELSE IF dir[h].there THEN "INSTALLING" ELSE "MISSING"}
  \cup IF Unreliable THEN {"MISSING"} ELSE {}

(* What a rebuild, and what a directory without .ready, call for.          *)
Wipes_half_built(rebuild, status) == status = "INSTALLING"

Wipes(rebuild, status) == rebuild \/ status = "INSTALLING"

Begin(i, h, rebuild, status) ==
  inst' = [inst EXCEPT ![i] =
             IF status = "READY" /\ ~rebuild
             THEN Rest
             ELSE [at |-> IF Wipes(rebuild, status) THEN "wipe" ELSE "mkdir",
                   hash |-> h, rebuild |-> rebuild, step |-> 1]]

install(i) ==
  /\ i \in BySsh
  /\ inst[i].at = "idle"
  /\ MayBegin
  /\ \E rebuild \in BOOLEAN, status \in check(current) : Begin(i, current, rebuild, status)
  /\ UNCHANGED <<dir, current>>

(* The hash and the command are fixed when the run is created; the test of *)
(* the directory is part of the command and happens when the task runs.    *)
create_run_from_stack(i) ==
  /\ i \in ByTask
  /\ inst[i].at = "idle"
  /\ \E rebuild \in BOOLEAN :
       inst' = [inst EXCEPT ![i] = [at |-> "queued", hash |-> current,
                                    rebuild |-> rebuild, step |-> 1]]
  /\ UNCHANGED <<dir, current>>

TaskBegins(i) ==
  /\ inst[i].at = "queued"
  /\ MayBegin
  /\ LET h == inst[i].hash
     IN  Begin(i, h, inst[i].rebuild,
               IF dir[h].ready THEN "READY" ELSE IF dir[h].there THEN "INSTALLING" ELSE "MISSING")
  /\ UNCHANGED <<dir, current>>

(* What an rm -rf leaves: nothing, or what it had not come to yet, .ready   *)
(* included, when it fails or is stopped.                                   *)
Partial(d) ==
  {[there |-> TRUE, built |-> [s \in 1..Steps |-> IF s \in kept THEN d.built[s] ELSE Nothing],
    ready |-> ready, cut |-> TRUE] :
      kept \in SUBSET (1..Steps), ready \in {FALSE, d.ready}}

Remains(d) == {Absent} \cup IF d.there THEN Partial(d) ELSE {}

(* The exit code of rm is not looked at.  Its timeout, the end of the job   *)
(* or of the connection end the install.                                    *)
Wipe(i) ==
  /\ inst[i].at = "wipe"
  /\ \E left \in Remains(dir[inst[i].hash]) : dir' = [dir EXCEPT ![inst[i].hash] = left]
  /\ inst' \in {[inst EXCEPT ![i].at = "mkdir"], [inst EXCEPT ![i] = Rest]}
  /\ UNCHANGED current

Mkdir(i) ==
  /\ inst[i].at = "mkdir"
  /\ dir' = [dir EXCEPT ![inst[i].hash].there = TRUE]
  /\ inst' = [inst EXCEPT ![i].at = "prep"]
  /\ UNCHANGED current

(* A step of the prep script writes below $STACK_DIR, and fails without    *)
(* the directory; after the last one the script touches .ready.            *)
Prep(i) ==
  /\ inst[i].at = "prep"
  /\ LET h == inst[i].hash
         s == inst[i].step
     IN  CASE ~dir[h].there ->
                /\ inst' = [inst EXCEPT ![i] = Rest]
                /\ UNCHANGED dir
           [] dir[h].there /\ s <= Steps ->
                /\ dir' = [dir EXCEPT ![h].built[s] = i]
                /\ inst' = [inst EXCEPT ![i].step = s + 1]
           [] dir[h].there /\ s > Steps ->
                /\ dir' = [dir EXCEPT ![h].ready = TRUE]
                /\ inst' = [inst EXCEPT ![i] = Rest]
  /\ UNCHANGED current

(* A prep command fails under set -e, the job is cancelled or runs out of  *)
(* time, the connection breaks between two commands of the installer.      *)
Abort(i) ==
  /\ inst[i].at # "idle"
  /\ inst' = [inst EXCEPT ![i] = Rest]
  /\ UNCHANGED <<dir, current>>

(* Every hash goes, whatever is under way.  The rm may stop half way, in or *)
(* after the first directory it comes to; deletes that stop later are made  *)
(* of several such.                                                         *)
delete ==
  /\ \/ dir' = [h \in Hashes |-> Absent]
     \/ \E h \in Hashes : \E left \in Remains(dir[h]) : dir' = [dir EXCEPT ![h] = left]
  /\ UNCHANGED <<current, inst>>

(* The definition, or one of its input files, is edited.                   *)
Edit ==
  /\ current' \in Hashes \ {current}
  /\ UNCHANGED <<dir, inst>>

Installing(i) == \/ install(i) \/ create_run_from_stack(i) \/ TaskBegins(i)
                 \/ Wipe(i) \/ Mkdir(i) \/ Prep(i) \/ Abort(i)

Next == (\E i \in Installers : Installing(i)) \/ delete \/ Edit

Spec == Init /\ [][Next]_vars

-----------------------------------------------------------------------------
(* "a .ready sentinel written only when the prep script has succeeded      *)
(* end-to-end": a directory that says it is ready holds every step of one  *)
(* and the same install, after any sequence of failed, cancelled, repeated *)
(* and rebuilding installs, deletions and edits.  One thing can leave      *)
(* .ready on less, or take files from under an install: an rm -rf that has *)
(* stopped half way, until another one removes the whole directory.        *)
ReadyIsWhole ==
  \A h \in Hashes : dir[h].ready /\ ~dir[h].cut =>
    \E i \in Installers : \A s \in 1..Steps : dir[h].built[s] = i
=============================================================================
