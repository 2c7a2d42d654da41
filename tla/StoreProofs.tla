---------------------------- MODULE StoreProofs ----------------------------
(* Proofs about what is on disk across runs: the run files with the usage   *)
(* ledger, and the result cache. Each part has an inductive invariant of    *)
(* its own; in the composition the other parts stand still.                 *)
EXTENDS Shared, TLAPS

-----------------------------------------------------------------------------
(* The run files. A run all of whose states have reached the disk is        *)
(* accounted for: what memory and the files call pending or ended has no    *)
(* job, except a stale "pending" in the file of a run that is still marked  *)
(* dirty.                                                                   *)

RunState == [at : F!Stamps, st : F!States]

FilesTyped ==
    /\ up \in BOOLEAN
    /\ mem \in [FileRuns -> RunState \cup {F!Absent}]
    /\ dirty \subseteq FileRuns
    /\ files \in [FileRuns -> [F!Stamps -> F!States \cup {"absent"}]]
    /\ stamps \in [FileRuns -> Nat]
    /\ jobs \in [FileRuns -> [F!Stamps -> Nat]]

InMemory(r) == mem[r].st # "absent"

(* What a run holds of its jobs, in memory and in its files.                *)
Accounted(r) ==
    /\ ~up => ~InMemory(r) /\ r \notin dirty
    /\ InMemory(r) => mem[r].at <= stamps[r]
    /\ \A s \in F!Stamps : s > stamps[r] => files[r][s] = "absent" /\ jobs[r][s] = 0
    /\ \A s \in F!Stamps : jobs[r][s] <= 1
    /\ InMemory(r) /\ mem[r].st # "running" => jobs[r][mem[r].at] = 0
    /\ InMemory(r) /\ files[r][mem[r].at] \in F!Ended => mem[r].st \in F!Ended
    /\ \A s \in F!Stamps : files[r][s] \in F!Ended => jobs[r][s] = 0
    /\ \A s \in F!Stamps : files[r][s] = "pending" /\ jobs[r][s] > 0 =>
          r \in dirty /\ InMemory(r) /\ mem[r].at = s

FilesInv == FilesTyped /\ \A r \in FileRuns \ lost : Accounted(r)

(* A run that is not in memory is told apart from every state of one that   *)
(* is.                                                                      *)
LEMMA StatesOfRuns ==
    /\ F!Absent.st = "absent" /\ F!Absent.at = 0
    /\ "absent" \notin F!States
    /\ F!Absent \notin RunState
    /\ \A m \in RunState : m.st # "absent"
    /\ \A at \in F!Stamps, st \in F!States :
          /\ [at |-> at, st |-> st] \in RunState
    /\ 0 \notin F!Stamps
    /\ F!States = {"pending", "running", "done", "cancelled"}
  BY FilesAssumption DEF F!Absent, F!States, F!Ended, RunState, F!Stamps

(* A run in memory has a stamp and a state.                                 *)
LEMMA MemoryTyped ==
    ASSUME FilesTyped, NEW r \in FileRuns, InMemory(r)
    PROVE  mem[r] \in RunState /\ mem[r].at \in F!Stamps /\ mem[r].st \in F!States
  BY StatesOfRuns DEF FilesTyped, InMemory, RunState

(* The empty server satisfies the invariant.                                *)
LEMMA FilesBegin == F!Init => FilesInv
  BY FilesAssumption, StatesOfRuns
  DEF F!Init, FilesInv, FilesTyped, Accounted, InMemory, F!Stamps, F!Ended

(* A run that a step leaves alone, or of which only jobs end, stays         *)
(* accounted for.                                                           *)
LEMMA Untouched ==
    ASSUME NEW r \in FileRuns, Accounted(r), InMemory(r) => mem[r].at \in F!Stamps,
           mem'[r] = mem[r], files'[r] = files[r], stamps'[r] = stamps[r],
           \A s \in F!Stamps : jobs'[r][s] \in Nat /\ jobs[r][s] \in Nat /\ jobs'[r][s] <= jobs[r][s],
           up' = up, r \in dirty <=> r \in dirty'
    PROVE  Accounted(r)'
  <1>1. \A s \in F!Stamps : jobs[r][s] = 0 => jobs'[r][s] = 0
    OBVIOUS
  <1>2. \A s \in F!Stamps : jobs[r][s] <= 1 => jobs'[r][s] <= 1
    OBVIOUS
  <1>3. \A s \in F!Stamps : jobs'[r][s] > 0 => jobs[r][s] > 0
    OBVIOUS
  <1> QED
    BY <1>1, <1>2, <1>3 DEF Accounted, InMemory

(* One run changes in memory and is marked dirty.                           *)
LEMMA RunChanges ==
    ASSUME FilesInv, NEW r \in FileRuns, NEW at \in F!Stamps, NEW st \in F!States,
           F!Change(r, at, st),
           stamps' \in [FileRuns -> Nat], jobs' \in [FileRuns -> [F!Stamps -> Nat]],
           \A x \in FileRuns : x # r => stamps'[x] = stamps[x] /\ jobs'[x] = jobs[x],
           up, r \notin lost => Accounted(r)'
    PROVE  FilesInv'
  <1>1. /\ mem' = [mem EXCEPT ![r] = [at |-> at, st |-> st]] /\ dirty' = dirty \cup {r}
        /\ UNCHANGED <<up, files, lost>>
    BY DEF F!Change, F!disk
  <1>2. FilesTyped'
    BY <1>1, StatesOfRuns DEF FilesInv, FilesTyped
  <1>3. ASSUME NEW x \in FileRuns \ lost, x # r PROVE Accounted(x)'
    <2>1. \A s \in F!Stamps : jobs'[x][s] \in Nat /\ jobs[x][s] \in Nat /\ jobs'[x][s] <= jobs[x][s]
      BY <1>3 DEF FilesInv, FilesTyped
    <2>2. mem'[x] = mem[x] /\ files'[x] = files[x] /\ stamps'[x] = stamps[x]
      BY <1>1, <1>3 DEF FilesInv, FilesTyped
    <2> QED
      BY <1>1, <1>3, <2>1, <2>2, MemoryTyped, Untouched DEF FilesInv
  <1> QED
    BY <1>1, <1>2, <1>3 DEF FilesInv

(* The dirty runs are saved (those of ok), the rest of them is lost; then   *)
(* files may be removed.                                                    *)
LEMMA RunsAreSaved ==
    ASSUME FilesInv, NEW ok \in SUBSET dirty, F!Loses(ok), dirty' = {},
           UNCHANGED <<stamps, jobs>>,
           files' \in [FileRuns -> [F!Stamps -> F!States \cup {"absent"}]],
           \A r \in FileRuns, s \in F!Stamps : files'[r][s] \in {F!Saved(ok)[r][s], "absent"},
           (UNCHANGED <<up, mem>>) \/ (up' = FALSE /\ mem' = [r \in FileRuns |-> F!Absent])
    PROVE  FilesInv'
  <1>1. FilesTyped'
    BY DEF FilesInv, FilesTyped
  <1>2. ASSUME NEW r \in FileRuns \ lost' PROVE Accounted(r)'
    <2>1. r \notin lost /\ Accounted(r) /\ (r \in dirty /\ InMemory(r) => r \in ok)
      BY <1>2, StatesOfRuns DEF F!Loses, FilesInv, FilesTyped, F!Live, InMemory
    <2>2. mem[r].st = "absent" \/ mem[r] \in RunState
      BY StatesOfRuns DEF FilesInv, FilesTyped
    <2>3. ASSUME NEW s \in F!Stamps
          PROVE  files'[r][s] \in {files[r][s], "absent"} \/ 
                 (InMemory(r) /\ r \in ok /\ s = mem[r].at /\ files'[r][s] = mem[r].st)
      BY <2>2 DEF F!Saved, FilesInv, FilesTyped, F!Live, InMemory, RunState
    <2>4. ASSUME NEW s \in F!Stamps, r \in ok, InMemory(r), s = mem[r].at
          PROVE  files'[r][s] \in {mem[r].st, "absent"}
      BY <2>2, <2>4, StatesOfRuns DEF F!Saved, FilesInv, FilesTyped, F!Live, InMemory, RunState
    <2> HIDE DEF F!Loses
    <2>5. \A s \in F!Stamps : files'[r][s] \in F!Ended => jobs[r][s] = 0
      BY <2>1, <2>3 DEF Accounted, F!Ended
    <2>6. \A s \in F!Stamps : files'[r][s] = "pending" => jobs[r][s] = 0
      BY <2>1, <2>3, <2>4 DEF Accounted, F!Ended, FilesInv, FilesTyped
    <2>7. \A s \in F!Stamps : s > stamps[r] => files'[r][s] = "absent"
      BY <2>1, <2>2, <2>3, FilesAssumption DEF Accounted, RunState, F!Stamps, FilesInv, FilesTyped
    <2>8. InMemory(r) /\ files'[r][mem[r].at] \in F!Ended => mem[r].st \in F!Ended
      BY <2>1, <2>2, <2>3 DEF Accounted, InMemory, RunState, F!Ended
    <2>9. \/ mem'[r] = mem[r] /\ up' = up
          \/ ~InMemory(r)' /\ ~up'
      BY StatesOfRuns DEF InMemory
    <2> QED
      BY <2>1, <2>5, <2>6, <2>7, <2>8, <2>9, FilesAssumption DEF Accounted, InMemory, FilesInv, FilesTyped
  <1> QED
    BY <1>1, <1>2 DEF FilesInv

(* Every step of the storage keeps the invariant: one step per action.      *)
LEMMA FilesStep == FilesInv /\ F!Next => FilesInv'
  <1> SUFFICES ASSUME FilesInv, F!Next PROVE FilesInv'
    OBVIOUS
  <1> USE FilesAssumption
  <1>0. ASSUME NEW r \in FileRuns, F!NextStamp(r)
        PROVE  /\ stamps[r] + 1 \in F!Stamps /\ stamps' \in [FileRuns -> Nat]
               /\ stamps'[r] = stamps[r] + 1
               /\ \A x \in FileRuns : x # r => stamps'[x] = stamps[x]
    BY <1>0 DEF F!NextStamp, FilesInv, FilesTyped, F!Stamps
  <1>1. ASSUME NEW r \in FileRuns, F!Create(r) PROVE FilesInv'
    <2>1. up /\ stamps[r] = 0 /\ F!NextStamp(r) /\ F!Change(r, 1, "pending") /\ UNCHANGED jobs
      BY <1>1 DEF F!Create
    <2>2. 1 \in F!Stamps /\ "pending" \in F!States
      BY <1>0, <2>1, StatesOfRuns
    <2>3. /\ mem'[r] = [at |-> 1, st |-> "pending"] /\ up' = up /\ files' = files
          /\ r \in dirty' /\ stamps'[r] = 1
      BY <1>0, <2>1 DEF F!Change, F!disk, FilesInv, FilesTyped
    <2>4. r \notin lost => Accounted(r)'
      BY <2>1, <2>2, <2>3 DEF FilesInv, Accounted, InMemory, F!Stamps, F!Ended
    <2> QED
      BY <1>0, <2>1, <2>2, <2>4, RunChanges DEF FilesInv, FilesTyped
  <1>2. ASSUME NEW r \in FileRuns, mem[r].st # "absent"
        PROVE  mem[r].at \in F!Stamps /\ mem[r].st \in F!States
    BY <1>2, StatesOfRuns DEF FilesInv, FilesTyped, RunState
  <1>3. ASSUME NEW r \in FileRuns, F!Submit(r) PROVE FilesInv'
    <2> PICK at \in F!Stamps : at = mem[r].at
      BY <1>2, <1>3 DEF F!Submit
    <2>1. /\ up /\ mem[r].st = "pending" /\ F!Change(r, at, "running") /\ UNCHANGED stamps
          /\ jobs' = [jobs EXCEPT ![r][at] = @ + 1]
      BY <1>3 DEF F!Submit
    <2>2. /\ mem'[r] = [at |-> at, st |-> "running"] /\ up' = up /\ files' = files /\ r \in dirty'
      BY <2>1 DEF F!Change, F!disk, FilesInv, FilesTyped
    <2>3. /\ jobs' \in [FileRuns -> [F!Stamps -> Nat]]
          /\ jobs'[r][at] = jobs[r][at] + 1
          /\ \A s \in F!Stamps : s # at => jobs'[r][s] = jobs[r][s]
          /\ \A x \in FileRuns : x # r => jobs'[x] = jobs[x]
      BY <2>1 DEF FilesInv, FilesTyped
    <2>4. r \notin lost => Accounted(r)'
      <3> SUFFICES ASSUME r \notin lost PROVE Accounted(r)'
        OBVIOUS
      <3>1. Accounted(r) /\ InMemory(r) /\ InMemory(r)'
        BY <2>1, <2>2 DEF FilesInv, InMemory
      <3>2. /\ at <= stamps[r] /\ jobs[r][at] = 0 /\ files[r][at] \notin F!Ended
        BY <2>1, <3>1 DEF Accounted, F!Ended
      <3>3. \A s \in F!Stamps : /\ jobs'[r][s] <= 1
                                /\ s > stamps[r] => files[r][s] = "absent" /\ jobs'[r][s] = 0
                                /\ files[r][s] \in F!Ended => jobs'[r][s] = 0
        <4>1. \A s \in F!Stamps : s > stamps[r] => s # at
          BY <3>2 DEF FilesInv, FilesTyped, F!Stamps
        <4>2. jobs'[r][at] = 1
          BY <2>3, <3>2
        <4> QED
          BY <2>3, <3>1, <3>2, <4>1, <4>2 DEF Accounted
      <3>4. \A s \in F!Stamps : files[r][s] = "pending" /\ jobs'[r][s] > 0 => s = at
        BY <2>1, <2>3, <3>1 DEF Accounted
      <3> QED
        BY <2>1, <2>2, <3>1, <3>2, <3>3, <3>4 DEF Accounted
    <2> QED
      BY <2>1, <2>3, <2>4, StatesOfRuns, RunChanges DEF FilesInv, FilesTyped
  <1>4. ASSUME NEW r \in FileRuns, F!JobSeen(r) PROVE FilesInv'
    <2> PICK at \in F!Stamps : at = mem[r].at
      BY <1>2, <1>4 DEF F!JobSeen
    <2>1. /\ up /\ mem[r].st = "running" /\ F!Change(r, at, "done") /\ UNCHANGED stamps
          /\ jobs' = [jobs EXCEPT ![r][at] = IF @ > 0 THEN @ - 1 ELSE 0]
      BY <1>4 DEF F!JobSeen
    <2>2. /\ mem'[r] = [at |-> at, st |-> "done"] /\ up' = up /\ files' = files /\ r \in dirty'
      BY <2>1 DEF F!Change, F!disk, FilesInv, FilesTyped
    <2>3. /\ jobs' \in [FileRuns -> [F!Stamps -> Nat]]
          /\ jobs'[r][at] = IF jobs[r][at] > 0 THEN jobs[r][at] - 1 ELSE 0
          /\ \A s \in F!Stamps : s # at => jobs'[r][s] = jobs[r][s]
          /\ \A x \in FileRuns : x # r => jobs'[x] = jobs[x]
      BY <2>1 DEF FilesInv, FilesTyped
    <2>4. r \notin lost => Accounted(r)'
      <3> SUFFICES ASSUME r \notin lost PROVE Accounted(r)'
        OBVIOUS
      <3>1. Accounted(r) /\ InMemory(r) /\ InMemory(r)'
        BY <2>1, <2>2 DEF FilesInv, InMemory
      <3>2. at <= stamps[r] /\ jobs[r][at] \in Nat /\ jobs[r][at] <= 1
        BY <2>1, <3>1 DEF Accounted, FilesInv, FilesTyped
      <3>3. jobs'[r][at] = 0
        BY <2>3, <3>2
      <3>4. \A s \in F!Stamps : /\ jobs'[r][s] <= 1
                                /\ s > stamps[r] => files[r][s] = "absent" /\ jobs'[r][s] = 0
                                /\ files[r][s] \in F!Ended => jobs'[r][s] = 0
        BY <2>3, <3>1, <3>3 DEF Accounted
      <3>5. \A s \in F!Stamps : files[r][s] = "pending" /\ jobs'[r][s] > 0 => s = at
        BY <2>1, <2>3, <3>1, <3>3 DEF Accounted
      <3> QED
        BY <2>1, <2>2, <3>1, <3>2, <3>3, <3>4, <3>5 DEF Accounted, F!Ended
    <2> QED
      BY <2>1, <2>3, <2>4, StatesOfRuns, RunChanges DEF FilesInv, FilesTyped
  <1>5. ASSUME NEW r \in FileRuns, F!CancelPending(r) PROVE FilesInv'
    <2> PICK at \in F!Stamps : at = mem[r].at
      BY <1>2, <1>5 DEF F!CancelPending
    <2>1. up /\ mem[r].st = "pending" /\ F!Change(r, at, "cancelled") /\ UNCHANGED <<jobs, stamps>>
      BY <1>5 DEF F!CancelPending
    <2>2. /\ mem'[r] = [at |-> at, st |-> "cancelled"] /\ up' = up /\ files' = files /\ r \in dirty'
      BY <2>1 DEF F!Change, F!disk, FilesInv, FilesTyped
    <2>4. r \notin lost => Accounted(r)'
      BY <2>1, <2>2 DEF FilesInv, FilesTyped, Accounted, InMemory, F!Ended, F!Stamps
    <2> QED
      BY <2>1, <2>4, StatesOfRuns, RunChanges DEF FilesInv, FilesTyped
  <1>6. ASSUME NEW r \in FileRuns, F!rerun_in_place(r) PROVE FilesInv'
    <2> PICK at \in F!Stamps : at = stamps[r] + 1
      BY <1>0, <1>6 DEF F!rerun_in_place
    <2>1. up /\ mem[r].st \in F!Ended /\ F!NextStamp(r) /\ F!Change(r, at, "pending") /\ UNCHANGED jobs
      BY <1>6 DEF F!rerun_in_place
    <2>2. /\ mem'[r] = [at |-> at, st |-> "pending"] /\ up' = up /\ files' = files /\ r \in dirty'
          /\ stamps'[r] = at
      BY <1>0, <2>1 DEF F!Change, F!disk, FilesInv, FilesTyped
    <2>4. r \notin lost => Accounted(r)'
      <3> SUFFICES ASSUME r \notin lost PROVE Accounted(r)'
        OBVIOUS
      <3>1. files[r][at] = "absent" /\ jobs[r][at] = 0
        BY DEF FilesInv, FilesTyped, Accounted, F!Stamps
      <3>2. InMemory(r) /\ jobs[r][mem[r].at] = 0
        BY <2>1 DEF FilesInv, Accounted, InMemory, F!Ended
      <3> QED
        BY <2>1, <2>2, <3>1, <3>2 DEF FilesInv, FilesTyped, Accounted, InMemory, F!Ended, F!Stamps
    <2> QED
      BY <1>0, <2>1, <2>4, StatesOfRuns, RunChanges DEF FilesInv, FilesTyped
  <1>7. ASSUME NEW r \in FileRuns, F!delete_run(r) PROVE FilesInv'
    <2> PICK at \in F!Stamps : at = mem[r].at
      BY <1>2, <1>7 DEF F!delete_run, F!Ended
    <2>1. /\ up /\ mem[r].st \in F!Ended
          /\ files' = [files EXCEPT ![r][at] = "absent"] /\ mem' = [mem EXCEPT ![r] = F!Absent]
          /\ UNCHANGED <<up, dirty, stamps, jobs, lost>>
      BY <1>7 DEF F!delete_run
    <2>2. FilesTyped'
      BY <2>1 DEF FilesInv, FilesTyped
    <2>3. /\ \A s \in F!Stamps : files'[r][s] \in {files[r][s], "absent"}
          /\ files'[r][at] = "absent" /\ mem'[r] = F!Absent
      BY <2>1 DEF FilesInv, FilesTyped
    <2>4. r \notin lost => Accounted(r)'
      <3> SUFFICES ASSUME r \notin lost PROVE Accounted(r)'
        OBVIOUS
      <3>1. ~InMemory(r)' /\ Accounted(r) /\ jobs[r][at] = 0
        BY <2>1, <2>3, StatesOfRuns DEF FilesInv, Accounted, InMemory, F!Ended
      <3> QED
        BY <2>1, <2>3, <3>1 DEF Accounted, F!Ended, FilesInv, FilesTyped, F!Stamps
    <2>5. ASSUME NEW x \in FileRuns \ lost, x # r PROVE Accounted(x)'
      BY <2>1, <2>5, MemoryTyped, Untouched DEF FilesInv, FilesTyped
    <2> QED
      BY <2>1, <2>2, <2>4, <2>5 DEF FilesInv
  <1>8. ASSUME NEW r \in FileRuns, F!JobEnds(r) PROVE FilesInv'
    <2>1. PICK s \in F!Stamps : jobs[r][s] > 0 /\ jobs' = [jobs EXCEPT ![r][s] = @ - 1]
      BY <1>8 DEF F!JobEnds
    <2>2. UNCHANGED <<up, mem, dirty, files, stamps, lost>>
      BY <1>8 DEF F!JobEnds, F!disk
    <2>3. /\ jobs' \in [FileRuns -> [F!Stamps -> Nat]]
          /\ \A x \in FileRuns, z \in F!Stamps : jobs[x][z] \in Nat /\ jobs'[x][z] \in Nat /\ jobs'[x][z] <= jobs[x][z]
      BY <2>1 DEF FilesInv, FilesTyped
    <2>4. FilesTyped'
      BY <2>2, <2>3 DEF FilesInv, FilesTyped
    <2>5. ASSUME NEW x \in FileRuns \ lost PROVE Accounted(x)'
      BY <2>2, <2>3, <2>5, MemoryTyped, Untouched DEF FilesInv
    <2> QED
      BY <2>2, <2>4, <2>5 DEF FilesInv
  <1>9. ASSUME NEW r \in FileRuns, F!Age(r) PROVE FilesInv'
    <2>1. UNCHANGED <<up, mem, dirty, files, stamps, jobs, lost>>
      BY <1>9 DEF F!Age, F!disk
    <2> QED
      BY <2>1 DEF FilesInv, FilesTyped, Accounted, InMemory
  <1>10. ASSUME NEW ok \in SUBSET dirty
         PROVE  /\ F!Saved(ok) \in [FileRuns -> [F!Stamps -> F!States \cup {"absent"}]]
                /\ F!Cleaned(F!Saved(ok)) \in [FileRuns -> [F!Stamps -> F!States \cup {"absent"}]]
                /\ \A r \in FileRuns, s \in F!Stamps :
                      F!Cleaned(F!Saved(ok))[r][s] \in {F!Saved(ok)[r][s], "absent"}
    <2>1. ASSUME NEW r \in ok \cap F!Live
          PROVE  [files[r] EXCEPT ![mem[r].at] = mem[r].st] \in [F!Stamps -> F!States \cup {"absent"}]
      BY <2>1, StatesOfRuns DEF FilesInv, FilesTyped, F!Live, RunState
    <2>2. F!Saved(ok) \in [FileRuns -> [F!Stamps -> F!States \cup {"absent"}]]
      BY <2>1 DEF FilesInv, FilesTyped, F!Saved
    <2> QED
      BY <2>2 DEF F!Cleaned
  <1>11. CASE F!SaveDirty
    <2>1. PICK ok \in SUBSET dirty : F!save_if_dirty(ok)
      BY <1>11 DEF F!SaveDirty
    <2> QED
      BY <1>10, <1>11, <2>1, RunsAreSaved DEF F!SaveDirty, F!save_if_dirty
  <1>12. CASE F!Hourly
    <2>1. PICK ok \in SUBSET dirty : files' = F!Cleaned(F!Saved(ok)) /\ dirty' = {} /\ F!Loses(ok)
      BY <1>12 DEF F!Hourly
    <2> QED
      BY <1>10, <1>12, <2>1, RunsAreSaved DEF F!Hourly
  <1>13. CASE F!Stop
    <2>1. PICK ok \in SUBSET dirty : F!save_if_dirty(ok)
      BY <1>13 DEF F!Stop
    <2> QED
      BY <1>10, <1>13, <2>1, RunsAreSaved DEF F!Stop, F!save_if_dirty, F!Down
  <1>14. CASE F!CrashInAppend
    <2>1. /\ up' = FALSE /\ mem' = [r \in FileRuns |-> F!Absent] /\ dirty' = {}
          /\ UNCHANGED <<files, stamps, jobs>> /\ F!Loses({})
      BY <1>14 DEF F!CrashInAppend, F!Down
    <2>2. \A r \in FileRuns : F!Saved({})[r] = files[r]
      BY DEF F!Saved
    <2> QED
      BY <2>1, <2>2, RunsAreSaved DEF FilesInv, FilesTyped
  <1>15. CASE F!Restart
    <2>1. PICK pick \in [FileRuns -> {0} \cup F!Stamps] :
              /\ \A r \in FileRuns : IF F!OnDisk(r) = {} THEN pick[r] = 0 ELSE pick[r] \in F!OnDisk(r)
              /\ mem' = [r \in FileRuns |-> IF pick[r] = 0 THEN F!Absent
                                            ELSE [at |-> pick[r], st |-> files[r][pick[r]]]]
      BY <1>15 DEF F!Restart
    <2>2. ~up /\ up' = TRUE /\ UNCHANGED <<dirty, files, stamps, jobs, lost>>
      BY <1>15 DEF F!Restart
    <2>3. ASSUME NEW r \in FileRuns
          PROVE  \/ mem'[r] = F!Absent
                 \/ /\ mem'[r] \in RunState /\ files[r][mem'[r].at] = mem'[r].st
                    /\ mem'[r].st # "absent" /\ mem'[r].at \in F!Stamps
      <3>1. CASE pick[r] = 0
        BY <2>1, <3>1
      <3>2. CASE pick[r] # 0
        <4>1. pick[r] \in F!Stamps /\ files[r][pick[r]] # "absent"
          BY <2>1, <3>2 DEF F!OnDisk
        <4>2. mem'[r] = [at |-> pick[r], st |-> files[r][pick[r]]]
          BY <2>1, <3>2
        <4>3. files[r][pick[r]] \in F!States
          BY <4>1 DEF FilesInv, FilesTyped
        <4>4. mem'[r] \in RunState /\ mem'[r].at = pick[r] /\ mem'[r].st = files[r][pick[r]]
          BY <4>1, <4>2, <4>3 DEF RunState
        <4> QED
          BY <4>1, <4>4
      <3> QED
        BY <3>1, <3>2
    <2>4. FilesTyped'
      BY <2>1, <2>2, <2>3 DEF FilesInv, FilesTyped
    <2>5. ASSUME NEW r \in FileRuns \ lost PROVE Accounted(r)'
      <3>1. CASE mem'[r] = F!Absent
        BY <2>2, <2>5, <3>1, StatesOfRuns DEF FilesInv, Accounted, InMemory
      <3>2. CASE mem'[r] # F!Absent
        <4> DEFINE at == mem'[r].at
        <4>1. /\ at \in F!Stamps /\ files[r][at] = mem'[r].st /\ InMemory(r)'
          BY <2>3, <3>2 DEF InMemory
        <4>2. Accounted(r) /\ r \notin dirty
          BY <2>2, <2>5 DEF FilesInv, Accounted
        <4>3. at <= stamps[r]
          BY <4>1, <4>2, <2>5 DEF FilesInv, FilesTyped, Accounted, F!Stamps, InMemory
        <4>4. \A s \in F!Stamps : files[r][s] = "pending" => jobs[r][s] = 0
          BY <4>2, <2>5 DEF FilesInv, FilesTyped, Accounted
        <4>5. mem'[r].st \in F!States
          BY <2>3, <3>2 DEF RunState
        <4>6. mem'[r].st # "running" => jobs[r][at] = 0
          BY <4>1, <4>2, <4>4, <4>5 DEF Accounted, F!States
        <4> HIDE DEF at
        <4> QED
          BY <2>2, <4>1, <4>2, <4>3, <4>4, <4>6, FilesAssumption DEF Accounted, at, FilesInv, FilesTyped
      <3> QED
        BY <3>1, <3>2
    <2> QED
      BY <2>2, <2>4, <2>5 DEF FilesInv
  <1> QED
    BY <1>1, <1>3, <1>4, <1>5, <1>6, <1>7, <1>8, <1>9, <1>11, <1>12, <1>13, <1>14, <1>15 DEF F!Next

(* A submission of a run has at most one job in the scheduler, across       *)
(* crashes, shutdowns, reruns and stale run files, unless a state of the    *)
(* run has not reached the disk (restore_from_storage and submit_task of    *)
(* runs/manager.py, save_if_dirty and delete_run of runs/storage.py).       *)
THEOREM OneJobPerSubmission == Spec => []SubmittedOnce
  <1> DEFINE Inv == part = "files" => FilesInv
  <1>1. Init => Inv
    BY FilesBegin DEF Init
  <1>2. Inv /\ [Next]_vars => Inv'
    <2> SUFFICES ASSUME Inv, [Next]_vars PROVE Inv'
      OBVIOUS
    <2>1. CASE part = "files" /\ F!Next /\ UNCHANGED part
      BY <2>1, FilesStep
    <2>2. CASE UNCHANGED <<part, FilesVars>>
      BY <2>2 DEF FilesVars, FilesInv, FilesTyped, Accounted, InMemory
    <2> QED
      BY <2>1, <2>2 DEF Next, vars
  <1>3. Inv => SubmittedOnce
    BY DEF FilesInv, Accounted, SubmittedOnce, F!SubmittedOnce
  <1> QED
    BY <1>1, <1>2, <1>3, PTL DEF Spec

-----------------------------------------------------------------------------
(* The usage ledger.                                                        *)

(* As long as no append has failed the ledger ends in a whole line, and what *)
(* the server takes for recorded is recorded.                               *)
LedgerInv ==
    /\ ledger \in [FileRuns -> Nat]
    /\ trouble = {} => ~glued
    /\ known # F!Unread => known \subseteq FileRuns
    /\ trouble = {} /\ known # F!Unread => \A r \in known : ledger[r] > 0

(* What the server takes for recorded has a readable line.                  *)
LEMMA KeysAreInLedger ==
    ASSUME LedgerInv, trouble = {}, NEW r \in F!Keys \cap FileRuns
    PROVE  ledger[r] > 0
  BY DEF LedgerInv, F!Keys

(* An append never loses a line, and one to a whole file adds its lines.    *)
LEMMA LedgerGrows ==
    ASSUME LedgerInv, NEW whole, NEW half \in BOOLEAN, F!Written(whole, half)
    PROVE  /\ ledger' \in [FileRuns -> Nat]
           /\ \A r \in FileRuns : ledger'[r] >= ledger[r]
           /\ ~glued => \A r \in whole \cap FileRuns : ledger'[r] > 0
           /\ ~glued /\ ~half => ~glued'
  BY DEF F!Written, LedgerInv

(* What a flush to the ledger leaves behind.                                *)
LEMMA Recorded ==
    ASSUME LedgerInv, NEW m, F!record(m)
    PROVE  /\ LedgerInv'
           /\ trouble' # {} \/ (\A r \in FileRuns : m[r].st = "done" => ledger'[r] > 0)
  <1> DEFINE rs == F!Unrecorded(m)
  <1>0. rs \subseteq FileRuns /\ F!Keys \subseteq FileRuns
    BY DEF F!Unrecorded, F!Keys, LedgerInv
  <1>1. CASE F!Written(rs, FALSE) /\ known' = F!Keys \cup rs /\ UNCHANGED trouble
    <2>1. /\ ledger' \in [FileRuns -> Nat]
          /\ \A r \in FileRuns : ledger'[r] >= ledger[r]
          /\ ~glued => ~glued' /\ \A r \in rs \cap FileRuns : ledger'[r] > 0
      BY <1>1, LedgerGrows
    <2> SUFFICES ASSUME trouble = {} PROVE LedgerInv' /\ \A r \in FileRuns : m[r].st = "done" => ledger'[r] > 0
      BY <1>1, <2>1, <1>0 DEF LedgerInv
    <2>2. ~glued
      BY DEF LedgerInv
    <2>3. rs \subseteq FileRuns /\ \A r \in FileRuns : m[r].st = "done" => r \in rs \cup F!Keys
      BY DEF F!Unrecorded
    <2>4. \A r \in F!Keys \cap FileRuns : ledger[r] > 0
      BY KeysAreInLedger
    <2>5. \A r \in F!Keys \cap FileRuns : ledger'[r] > 0
      BY <2>1, <2>4 DEF LedgerInv
    <2> HIDE DEF rs
    <2> QED
      BY <1>0, <1>1, <2>1, <2>2, <2>3, <2>5 DEF LedgerInv
  <1>2. CASE /\ \E whole \in SUBSET rs, half \in BOOLEAN : F!Written(whole, half)
             /\ known' = F!Keys /\ trouble' = trouble \cup {"failed"}
    <2>1. ledger' \in [FileRuns -> Nat] /\ trouble' # {}
      BY <1>2, LedgerGrows
    <2> QED
      BY <1>0, <1>2, <2>1 DEF LedgerInv
  <1> QED
    BY <1>1, <1>2 DEF F!record

(* Every step of the storage keeps the invariant of the ledger.             *)
LEMMA LedgerStep == LedgerInv /\ F!Next => LedgerInv'
  <1> SUFFICES ASSUME LedgerInv, F!Next PROVE LedgerInv'
    OBVIOUS
  <1>1. CASE UNCHANGED <<ledger, glued, known, trouble>>
    BY <1>1 DEF LedgerInv
  <1>2. CASE F!Hourly \/ F!Restart
    BY <1>2, Recorded DEF F!Hourly, F!Restart
  <1>3. CASE F!Stop
    BY <1>3 DEF F!Stop, F!Down, LedgerInv
  <1>4. CASE F!CrashInAppend
    <2>1. PICK whole \in SUBSET F!Unrecorded(mem), half \in BOOLEAN : F!Written(whole, half)
      BY <1>4 DEF F!CrashInAppend
    <2>2. ledger' \in [FileRuns -> Nat]
      BY <2>1, LedgerGrows
    <2> QED
      BY <1>4, <2>2 DEF F!CrashInAppend, F!Down, LedgerInv
  <1>5. CASE \E r \in FileRuns :
                \/ F!Create(r) \/ F!Submit(r) \/ F!JobSeen(r) \/ F!CancelPending(r)
                \/ F!rerun_in_place(r) \/ F!delete_run(r) \/ F!JobEnds(r) \/ F!Age(r)
    BY <1>1, <1>5
    DEF F!Create, F!Submit, F!JobSeen, F!CancelPending, F!rerun_in_place, F!delete_run,
        F!JobEnds, F!Age, F!Change, F!disk
  <1>6. CASE F!SaveDirty
    BY <1>1, <1>6 DEF F!SaveDirty
  <1> QED
    BY <1>2, <1>3, <1>4, <1>5, <1>6 DEF F!Next

(* Only the hourly block removes a file whose run stays in memory.          *)
LEMMA RemovedByCleanup ==
    ASSUME FilesInv, LedgerInv, F!Next, NEW r \in FileRuns, mem[r].st = "done", mem'[r] = mem[r],
           files[r][mem[r].at] # "absent", files'[r][mem[r].at] = "absent"
    PROVE  ledger'[r] > 0 \/ trouble' # {}
  <1>1. mem[r] \in RunState /\ mem[r].at \in F!Stamps /\ r \in F!Live
    BY StatesOfRuns DEF FilesInv, FilesTyped, RunState, F!Live
  <1>2. files' # files
    OBVIOUS
  <1>3. ASSUME NEW x \in FileRuns, F!delete_run(x) PROVE FALSE
    <2>1. x = r
      BY <1>3 DEF F!delete_run, FilesInv, FilesTyped
    <2> QED
      BY <1>1, <1>3, <2>1, StatesOfRuns DEF F!delete_run, FilesInv, FilesTyped
  <1>4. ASSUME NEW ok PROVE F!Saved(ok)[r][mem[r].at] # "absent"
    BY <1>1, StatesOfRuns DEF F!Saved, FilesInv, FilesTyped
  <1>5. CASE F!Hourly
    <2>1. F!record(mem)
      BY <1>5 DEF F!Hourly
    <2> QED
      BY <2>1, Recorded
  <1>6. ~F!SaveDirty /\ ~F!Stop
    BY <1>4 DEF F!SaveDirty, F!Stop, F!save_if_dirty
  <1> QED
    BY <1>2, <1>3, <1>5, <1>6
    DEF F!Next, F!Create, F!Submit, F!JobSeen, F!CancelPending, F!rerun_in_place,
        F!JobEnds, F!Age, F!CrashInAppend, F!Restart, F!Change, F!disk

(* The hourly cleanup removes the file of a finished run only when the      *)
(* ledger has a readable line for the run, as long as no append has failed  *)
(* or was cut short (poll_jobs in main.py, UsageLog.record of               *)
(* runs/usage.py).                                                          *)
THEOREM UsageIsKept == Spec => UsageKept
  <1> DEFINE Inv == part = "files" => FilesInv /\ LedgerInv
             Kept == \A r \in FileRuns :
                        /\ mem[r].st = "done" /\ mem'[r] = mem[r]
                        /\ files[r][mem[r].at] # "absent" /\ files'[r][mem[r].at] = "absent"
                        => ledger'[r] > 0 \/ trouble # {} \/ trouble' # {}
  <1>1. Init => Inv
    BY FilesBegin DEF Init, LedgerInv, F!Init
  <1>2. Inv /\ [Next]_vars => Inv'
    <2> SUFFICES ASSUME Inv, [Next]_vars PROVE Inv'
      OBVIOUS
    <2>1. CASE part = "files" /\ F!Next /\ UNCHANGED part
      BY <2>1, FilesStep, LedgerStep
    <2>2. CASE UNCHANGED <<part, FilesVars>>
      BY <2>2 DEF FilesVars, FilesInv, FilesTyped, Accounted, InMemory, LedgerInv
    <2> QED
      BY <2>1, <2>2 DEF Next, vars
  <1>3. Inv /\ [Next]_vars => [Kept]_F!vars
    <2> SUFFICES ASSUME Inv, [Next]_vars PROVE Kept \/ UNCHANGED F!vars
      OBVIOUS
    <2>1. CASE part = "files" /\ F!Next
      BY <2>1, RemovedByCleanup
    <2>2. CASE UNCHANGED <<part, FilesVars>>
      BY <2>2 DEF FilesVars, F!vars, F!disk
    <2> QED
      BY <2>1, <2>2 DEF Next, vars
  <1> QED
    BY <1>1, <1>2, <1>3, PTL DEF Spec, UsageKept, F!UsageKept

-----------------------------------------------------------------------------
(* What is not on disk.                                                     *)

UnsavedInv ==
    /\ FilesTyped /\ aged \in [FileRuns -> Nat]
    /\ F!UnsavedIsKnown

(* A run whose state is kept in memory alone is known as such.              *)
KnownUnsaved(r) ==
    mem[r] # F!Absent =>
        \/ files[r][mem[r].at] = mem[r].st
        \/ r \in dirty \cup lost
        \/ mem[r].st \in F!Ended /\ mem[r].at <= aged[r]

(* The saving of the dirty runs, with or without the cleanup.               *)
LEMMA SavedOrKnown ==
    ASSUME UnsavedInv, NEW ok \in SUBSET dirty, F!Loses(ok), dirty' = {}, UNCHANGED <<mem, aged>>,
           files' \in {F!Saved(ok), F!Cleaned(F!Saved(ok))}, NEW r \in FileRuns
    PROVE  KnownUnsaved(r)'
  <1> SUFFICES ASSUME mem[r] # F!Absent PROVE KnownUnsaved(r)'
    BY DEF KnownUnsaved
  <1>1. r \in F!Live /\ mem[r].at \in F!Stamps /\ mem[r].st \in F!States
    BY StatesOfRuns DEF UnsavedInv, FilesTyped, RunState, F!Live
  <1>2. F!Saved(ok)[r][mem[r].at] = mem[r].st \/ r \in lost'
        \/ (mem[r].st \in F!Ended /\ mem[r].at <= aged[r])
    <2>1. CASE r \in ok
      BY <1>1, <2>1 DEF F!Saved, UnsavedInv, FilesTyped
    <2>2. CASE r \in dirty \ ok
      BY <1>1, <2>2 DEF F!Loses
    <2>3. CASE r \notin dirty
      <3>1. F!Saved(ok)[r] = files[r] /\ lost \subseteq lost'
        BY <2>3 DEF F!Saved, F!Loses
      <3> QED
        BY <1>1, <2>3, <3>1 DEF UnsavedInv, F!UnsavedIsKnown
    <2> QED
      BY <2>1, <2>2, <2>3
  <1>3. CASE files' = F!Saved(ok)
    BY <1>2, <1>3 DEF KnownUnsaved
  <1>4. CASE files' = F!Cleaned(F!Saved(ok))
    <2> DEFINE was == F!Saved(ok)[r][mem[r].at]
    <2>1. files'[r][mem[r].at] = IF mem[r].at <= aged[r] /\ was \in F!Ended THEN "absent" ELSE was
      BY <1>1, <1>4 DEF F!Cleaned
    <2> HIDE DEF was
    <2> QED
      BY <1>2, <2>1 DEF KnownUnsaved, was
  <1> QED
    BY <1>3, <1>4

(* Every step of the storage keeps the knowledge of what is unsaved.        *)
LEMMA UnsavedStep == UnsavedInv /\ FilesInv /\ F!Next => UnsavedInv'
  <1> SUFFICES ASSUME UnsavedInv, FilesInv, F!Next PROVE UnsavedInv'
    OBVIOUS
  <1>1. FilesTyped'
    BY FilesStep DEF FilesInv
  <1>2. \A r \in FileRuns : KnownUnsaved(r)
    BY DEF UnsavedInv, F!UnsavedIsKnown, F!Live, KnownUnsaved
  <1>3. ASSUME aged' \in [FileRuns -> Nat], \A r \in FileRuns : KnownUnsaved(r)' PROVE UnsavedInv'
    BY <1>1, <1>3 DEF UnsavedInv, F!UnsavedIsKnown, F!Live, KnownUnsaved
  <1>4. ASSUME UNCHANGED aged PROVE aged' \in [FileRuns -> Nat]
    BY <1>4 DEF UnsavedInv
  <1>5. ASSUME NEW r \in FileRuns, NEW at, NEW st, F!Change(r, at, st) PROVE UnsavedInv'
    <2>1. /\ \A x \in FileRuns : x # r => mem'[x] = mem[x]
          /\ r \in dirty' /\ dirty \subseteq dirty' /\ UNCHANGED <<files, aged, lost>>
      BY <1>5 DEF F!Change, F!disk, UnsavedInv, FilesTyped
    <2>2. ASSUME NEW x \in FileRuns PROVE KnownUnsaved(x)'
      BY <1>2, <2>1 DEF KnownUnsaved
    <2> QED
      BY <1>3, <1>4, <2>1, <2>2
  <1>6. ASSUME NEW r \in FileRuns, F!delete_run(r) PROVE UnsavedInv'
    <2>1. /\ \A x \in FileRuns : x # r => mem'[x] = mem[x] /\ files'[x] = files[x]
          /\ mem'[r] = F!Absent /\ UNCHANGED <<dirty, aged, lost>>
      BY <1>6 DEF F!delete_run, UnsavedInv, FilesTyped
    <2>2. ASSUME NEW x \in FileRuns PROVE KnownUnsaved(x)'
      BY <1>2, <2>1 DEF KnownUnsaved
    <2> QED
      BY <1>3, <1>4, <2>1, <2>2
  <1>7. ASSUME NEW r \in FileRuns, F!Age(r) PROVE UnsavedInv'
    <2>1. /\ aged' \in [FileRuns -> Nat] /\ \A x \in FileRuns : aged[x] \in Nat /\ aged'[x] >= aged[x]
          /\ UNCHANGED <<mem, dirty, files, lost>>
      BY <1>7 DEF F!Age, F!disk, UnsavedInv
    <2>2. ASSUME NEW x \in FileRuns PROVE KnownUnsaved(x)'
      <3>1. mem[x] # F!Absent => mem[x].at \in Nat
        BY DEF UnsavedInv, FilesTyped, RunState, F!Stamps
      <3> QED
        BY <1>2, <2>1, <3>1 DEF KnownUnsaved
    <2> QED
      BY <1>3, <2>1, <2>2
  <1>8. CASE F!SaveDirty \/ F!Hourly
    <2>1. PICK ok \in SUBSET dirty :
            /\ F!Loses(ok) /\ dirty' = {} /\ UNCHANGED <<mem, aged>>
            /\ files' \in {F!Saved(ok), F!Cleaned(F!Saved(ok))}
      BY <1>8 DEF F!SaveDirty, F!Hourly, F!save_if_dirty
    <2> QED
      BY <1>3, <1>4, <2>1, SavedOrKnown
  <1>9. CASE F!Stop \/ F!CrashInAppend
    <2>1. UNCHANGED aged /\ \A r \in FileRuns : mem'[r] = F!Absent
      BY <1>9 DEF F!Stop, F!CrashInAppend, F!Down
    <2> QED
      BY <1>3, <1>4, <2>1 DEF KnownUnsaved
  <1>10. CASE F!Restart
    <2>1. PICK pick \in [FileRuns -> {0} \cup F!Stamps] :
            mem' = [r \in FileRuns |-> IF pick[r] = 0 THEN F!Absent
                                       ELSE [at |-> pick[r], st |-> files[r][pick[r]]]]
      BY <1>10 DEF F!Restart
    <2>2. UNCHANGED <<files, aged>>
      BY <1>10 DEF F!Restart
    <2>3. ASSUME NEW r \in FileRuns PROVE KnownUnsaved(r)'
      BY <2>1, <2>2 DEF KnownUnsaved
    <2> QED
      BY <1>3, <1>4, <2>2, <2>3
  <1>11. ASSUME NEW r \in FileRuns, F!JobEnds(r) PROVE UnsavedInv'
    <2>1. UNCHANGED <<mem, dirty, files, aged, lost>>
      BY <1>11 DEF F!JobEnds, F!disk
    <2> QED
      BY <1>2, <1>3, <1>4, <2>1 DEF KnownUnsaved
  <1> QED
    BY <1>5, <1>6, <1>7, <1>8, <1>9, <1>10, <1>11
    DEF F!Next, F!Create, F!Submit, F!JobSeen, F!CancelPending, F!rerun_in_place

(* A state of a run that is only in memory is marked for the next save,     *)
(* unless a write of that run has failed before or the cleanup has removed  *)
(* the file of an ended run: no request, poll, rerun, restart or cleanup    *)
(* leaves a change behind that the next save would pass over (_persist_run  *)
(* of runs/manager.py, save_if_dirty of runs/storage.py).                   *)
THEOREM UnsavedIsMarked == Spec => [](part = "files" => F!UnsavedIsKnown)
  <1> DEFINE Inv == part = "files" => UnsavedInv /\ FilesInv
  <1>1. Init => Inv
    <2>1. F!Init => UnsavedInv
      BY FilesBegin DEF FilesInv, UnsavedInv, F!Init, F!UnsavedIsKnown, F!Live
    <2> QED
      BY <2>1, FilesBegin DEF Init
  <1>2. Inv /\ [Next]_vars => Inv'
    <2> SUFFICES ASSUME Inv, [Next]_vars PROVE Inv'
      OBVIOUS
    <2>1. CASE part = "files" /\ F!Next /\ UNCHANGED part
      BY <2>1, FilesStep, UnsavedStep
    <2>2. CASE UNCHANGED <<part, FilesVars>>
      BY <2>2 DEF FilesVars, FilesInv, FilesTyped, Accounted, InMemory, UnsavedInv, F!UnsavedIsKnown, F!Live
    <2> QED
      BY <2>1, <2>2 DEF Next, vars
  <1>3. Inv => (part = "files" => F!UnsavedIsKnown)
    BY DEF UnsavedInv
  <1> QED
    BY <1>1, <1>2, <1>3, PTL DEF Spec

-----------------------------------------------------------------------------
(* No line twice. What the ledger holds of a run the server knows of, so    *)
(* that no later flush appends it again.                                    *)

CountInv ==
    /\ LedgerInv
    /\ "failed" \notin trouble =>
          /\ \A r \in FileRuns : ledger[r] <= 1
          /\ known # F!Unread => \A r \in FileRuns : ledger[r] > 0 => r \in known

(* An append of lines of runs without one leaves no run with two.           *)
LEMMA AppendedOnce ==
    ASSUME CountInv, "failed" \notin trouble, NEW m, NEW whole \in SUBSET F!Unrecorded(m), NEW half,
           F!Written(whole, half)
    PROVE  \A r \in FileRuns : ledger'[r] <= 1 /\ (ledger'[r] > 0 => r \in whole \/ ledger[r] > 0)
  <1>1. ASSUME NEW r \in F!Unrecorded(m) \cap FileRuns PROVE ledger[r] = 0
    BY <1>1 DEF F!Unrecorded, F!Keys, CountInv, LedgerInv
  <1>2. PICK rs \in SUBSET whole :
          ledger' = [r \in FileRuns |-> IF r \in rs /\ ledger[r] < 2 THEN ledger[r] + 1 ELSE ledger[r]]
    BY DEF F!Written
  <1>3. \A r \in FileRuns : ledger[r] \in Nat /\ ledger[r] <= 1
    BY DEF CountInv, LedgerInv
  <1> QED
    BY <1>1, <1>2, <1>3

(* A flush to the ledger.                                                   *)
LEMMA CountedByFlush ==
    ASSUME CountInv, NEW m, F!record(m)
    PROVE  CountInv'
  <1> DEFINE rs == F!Unrecorded(m)
  <1>1. LedgerInv'
    BY Recorded DEF CountInv
  <1> SUFFICES ASSUME "failed" \notin trouble'
               PROVE  (\A r \in FileRuns : ledger'[r] <= 1 /\ (ledger'[r] > 0 => r \in known'))
    BY <1>1 DEF CountInv
  <1>2. F!Written(rs, FALSE) /\ known' = F!Keys \cup rs /\ trouble' = trouble
    BY DEF F!record
  <1>3. \A r \in FileRuns : ledger'[r] <= 1 /\ (ledger'[r] > 0 => r \in rs \/ ledger[r] > 0)
    BY <1>2, AppendedOnce
  <1>4. \A r \in FileRuns : ledger[r] > 0 => r \in F!Keys
    BY <1>2 DEF CountInv, F!Keys
  <1> QED
    BY <1>2, <1>3, <1>4

(* Every step of the storage counts a run once.                             *)
LEMMA CountStep == CountInv /\ F!Next => CountInv'
  <1> SUFFICES ASSUME CountInv, F!Next PROVE CountInv'
    OBVIOUS
  <1>0. LedgerInv'
    BY LedgerStep DEF CountInv
  <1>1. CASE UNCHANGED <<ledger, known, trouble>>
    BY <1>0, <1>1 DEF CountInv
  <1>2. CASE F!Hourly \/ F!Restart
    BY <1>2, CountedByFlush DEF F!Hourly, F!Restart
  <1>3. CASE F!Stop
    BY <1>0, <1>3 DEF F!Stop, F!Down, CountInv
  <1>4. CASE F!CrashInAppend
    <2>1. PICK whole \in SUBSET F!Unrecorded(mem), half \in BOOLEAN : F!Written(whole, half)
      BY <1>4 DEF F!CrashInAppend
    <2>2. known' = F!Unread /\ trouble \subseteq trouble'
      BY <1>4 DEF F!CrashInAppend, F!Down
    <2>3. "failed" \notin trouble => \A r \in FileRuns : ledger'[r] <= 1
      BY <2>1, AppendedOnce
    <2> QED
      BY <1>0, <2>2, <2>3 DEF CountInv
  <1>5. CASE \E r \in FileRuns :
                \/ F!Create(r) \/ F!Submit(r) \/ F!JobSeen(r) \/ F!CancelPending(r)
                \/ F!rerun_in_place(r) \/ F!delete_run(r) \/ F!JobEnds(r) \/ F!Age(r)
    BY <1>1, <1>5
    DEF F!Create, F!Submit, F!JobSeen, F!CancelPending, F!rerun_in_place, F!delete_run,
        F!JobEnds, F!Age, F!Change, F!disk
  <1>6. CASE F!SaveDirty
    BY <1>1, <1>6 DEF F!SaveDirty
  <1> QED
    BY <1>2, <1>3, <1>4, <1>5, <1>6 DEF F!Next

(* No run is counted twice in the ledger: flushes, crashes in the middle of *)
(* an append and restarts may come in any order, as long as no append has   *)
(* failed and been forgotten (UsageLog.record and _known_keys of            *)
(* runs/usage.py, the hourly block of poll_jobs, restore_from_storage).     *)
THEOREM UsageIsCountedOnce == Spec => [](part = "files" => F!CountedOnce)
  <1> DEFINE Inv == part = "files" => CountInv
  <1>1. Init => Inv
    BY DEF Init, CountInv, LedgerInv, F!Init
  <1>2. Inv /\ [Next]_vars => Inv'
    <2> SUFFICES ASSUME Inv, [Next]_vars PROVE Inv'
      OBVIOUS
    <2>1. CASE part = "files" /\ F!Next /\ UNCHANGED part
      BY <2>1, CountStep
    <2>2. CASE UNCHANGED <<part, FilesVars>>
      BY <2>2 DEF FilesVars, CountInv, LedgerInv
    <2> QED
      BY <2>1, <2>2 DEF Next, vars
  <1>3. Inv => (part = "files" => F!CountedOnce)
    BY DEF CountInv, F!CountedOnce
  <1> QED
    BY <1>1, <1>2, <1>3, PTL DEF Spec

-----------------------------------------------------------------------------
(* The result cache. While an item is busy the inputs of its directory      *)
(* rest, so the key it was given stands for what its job reads and writes.  *)

CachePcs == {"pending", "lookup", "restore", "submit", "submitted", "failed", "completed",
             "hashed", "upload", "done"}

Blob == C!Content \cup {C!None}
Entry == [blob : Blob, hashes : Blob, spoiled : BOOLEAN]

Item == [pc : CachePcs, key : C!Keys \cup {C!None}, hashes : Blob, entry : Entry \cup {C!None},
         hit : BOOLEAN]

CacheTyped ==
    /\ inputs \in [C!Dirs -> C!InputMaps]
    /\ outs \in [C!Dirs -> Blob]
    /\ ac \in [C!Keys -> Entry \cup {C!NoEntry}]
    /\ item \in [CacheRuns -> Item]
    /\ DOMAIN job = CacheRuns
    /\ spoiled \subseteq CacheRuns

(* What the job of a key writes when it runs to its end, and what it has    *)
(* written before or when it fails.                                         *)
Right(k) == [commit |-> k.commit, inputs |-> k.inputs, ok |-> TRUE]
Partly(k) == [commit |-> k.commit, inputs |-> k.inputs, ok |-> FALSE]
Of(k) == {Right(k), Partly(k)}

KeyNow(r) == [commit |-> C!Commit(r), inputs |-> inputs[DirOf[r]]]

(* The directory holds what the key stands for, unless another run of the   *)
(* same directory has overwritten it in part.                               *)
OutsTrue(r) ==
    /\ outs[DirOf[r]] \in Of(KeyNow(r))
    /\ r \in spoiled \/ outs[DirOf[r]].ok

EntryTrue(entry, k) ==
    /\ entry \in Entry /\ entry.blob \in Of(k)
    /\ entry.spoiled \/ entry.blob = Right(k)

(* A job belongs to a submitted item and reads what the key was made of.    *)
JobTrue(r) ==
    /\ job[r] # C!None => item[r].pc = "submitted"
    /\ item[r].pc = "submitted" /\ job[r].st = "running" => job[r].saw = inputs[DirOf[r]]
    /\ item[r].pc = "submitted" /\ job[r].st = "ended" /\ job[r].ok => OutsTrue(r)

(* What an item on its way carries is what its key stands for.  An item     *)
(* with the mark of a hit stores nothing, so its outputs do not matter.     *)
ItemTrue(r) ==
    /\ item[r].pc \notin {"pending", "failed", "done"} => item[r].key = KeyNow(r)
    /\ item[r].pc \in {"restore", "upload"} => EntryTrue(item[r].entry, KeyNow(r))
    /\ item[r].pc \in {"completed", "hashed"} /\ ~item[r].hit => OutsTrue(r)

StoreTrue == \A k \in C!Keys : ac[k] # C!NoEntry => EntryTrue(ac[k], k)

CacheInv == CacheTyped /\ StoreTrue /\ \A r \in CacheRuns : JobTrue(r) /\ ItemTrue(r)

(* The key of a run, and what a job writes from its inputs, are typed.      *)
LEMMA RightIsContent ==
    ASSUME CacheTyped, NEW r \in CacheRuns
    PROVE  /\ KeyNow(r) \in C!Keys /\ DirOf[r] \in C!Dirs
           /\ Right(KeyNow(r)) \in C!Content /\ Right(KeyNow(r)) \in Blob
           /\ KeyNow(r).commit = C!Commit(r) /\ KeyNow(r).inputs = inputs[DirOf[r]]
           /\ Of(KeyNow(r)) \subseteq C!Content /\ Of(KeyNow(r)) \subseteq Blob
  BY DEF CacheTyped, KeyNow, Right, Partly, Of, C!Keys, C!Content, C!Dirs, Blob

(* An empty store satisfies the invariant.                                  *)
LEMMA CacheBegin == C!Init => CacheInv
  <1> SUFFICES ASSUME C!Init PROVE CacheInv
    OBVIOUS
  <1>1. C!Fresh \in Item /\ C!Fresh.pc = "pending"
    BY DEF C!Fresh, Item, CachePcs, Blob
  <1>2. CacheTyped
    BY <1>1 DEF C!Init, CacheTyped, Blob, C!NoEntry
  <1> QED
    BY <1>1, <1>2 DEF C!Init, CacheInv, StoreTrue, JobTrue, ItemTrue

(* What a step of r may do to the outputs: what it leaves is in its         *)
(* directory, and belongs to its key.                                       *)
Writes(r) ==
    \/ UNCHANGED C!Outputs
    \/ \E content \in Of(KeyNow(r)) : C!Leaves(r, content)

LEMMA WritesTyped ==
    ASSUME CacheTyped, NEW r \in CacheRuns, Writes(r)
    PROVE  /\ outs' \in [C!Dirs -> Blob] /\ spoiled' \subseteq CacheRuns
           /\ \A x \in CacheRuns : DirOf[x] # DirOf[r] =>
                 /\ outs'[DirOf[x]] = outs[DirOf[x]]
                 /\ x \in spoiled' <=> x \in spoiled
  <1>1. CASE UNCHANGED C!Outputs
    BY <1>1 DEF CacheTyped, C!Outputs
  <1>2. CASE \E content \in Of(KeyNow(r)) : C!Leaves(r, content)
    BY <1>2, RightIsContent DEF CacheTyped, C!Leaves, C!Sharing
  <1> QED
    BY <1>1, <1>2 DEF Writes

(* The outputs of a run stay what its key stands for, or it is among the    *)
(* spoiled, whatever the others write: those of its directory have its key. *)
LEMMA OutsStay ==
    ASSUME CacheTyped, NEW r \in CacheRuns, Writes(r), NEW x \in CacheRuns, x # r,
           UNCHANGED inputs, OutsTrue(x)
    PROVE  OutsTrue(x)'
  <1>1. KeyNow(x)' = KeyNow(x)
    BY DEF KeyNow
  <1>2. CASE DirOf[x] # DirOf[r]
    BY <1>1, <1>2, WritesTyped DEF OutsTrue
  <1>3. CASE DirOf[x] = DirOf[r]
    <2>1. KeyNow(x) = KeyNow(r)
      BY <1>3, CacheAssumption DEF KeyNow, C!Commit
    <2>2. CASE UNCHANGED C!Outputs
      BY <1>1, <2>2 DEF OutsTrue, C!Outputs
    <2>3. ASSUME NEW content \in Of(KeyNow(r)), C!Leaves(r, content) PROVE OutsTrue(x)'
      <3>1. outs'[DirOf[x]] = content
        BY <1>3, <2>3 DEF CacheTyped, C!Leaves, C!Dirs
      <3>2. x \in spoiled' \/ content.ok
        BY <1>3, <2>3 DEF C!Leaves, C!Sharing
      <3> QED
        BY <1>1, <2>1, <3>1, <3>2 DEF OutsTrue
    <2> QED
      BY <2>2, <2>3 DEF Writes
  <1> QED
    BY <1>2, <1>3

(* A step of one run that leaves the inputs alone.                          *)
LEMMA CacheMoves ==
    ASSUME CacheInv, NEW r \in CacheRuns, NEW q \in Item, item' = [item EXCEPT ![r] = q],
           UNCHANGED inputs, Writes(r),
           DOMAIN job' = CacheRuns, \A x \in CacheRuns : x # r => job'[x] = job[x],
           ac' \in [C!Keys -> Entry \cup {C!NoEntry}],
           StoreTrue', JobTrue(r)', ItemTrue(r)'
    PROVE  CacheInv'
  <1>1. CacheTyped'
    BY WritesTyped DEF CacheInv, CacheTyped
  <1>2. ASSUME NEW x \in CacheRuns, x # r PROVE JobTrue(x)' /\ ItemTrue(x)'
    <2>1. item'[x] = item[x] /\ job'[x] = job[x] /\ KeyNow(x)' = KeyNow(x)
      BY <1>2 DEF CacheInv, CacheTyped, KeyNow
    <2>2. OutsTrue(x) => OutsTrue(x)'
      BY <1>2, OutsStay DEF CacheInv
    <2>3. JobTrue(x) /\ ItemTrue(x)
      BY DEF CacheInv
    <2>4. JobTrue(x)'
      BY <2>1, <2>2, <2>3 DEF JobTrue
    <2>5. ItemTrue(x)'
      BY <2>1, <2>2, <2>3 DEF ItemTrue
    <2> QED
      BY <2>4, <2>5
  <1> QED
    BY <1>1, <1>2 DEF CacheInv

(* The item goes on to pc, whatever else of the run changes.                *)
LEMMA CacheGoes ==
    ASSUME CacheInv, NEW r \in CacheRuns, NEW pc \in CachePcs, C!Goto(r, pc), UNCHANGED inputs,
           Writes(r),
           DOMAIN job' = CacheRuns, \A x \in CacheRuns : x # r => job'[x] = job[x],
           ac' \in [C!Keys -> Entry \cup {C!NoEntry}], StoreTrue',
           pc \notin {"restore", "upload"},
           pc \notin {"pending", "failed", "done"} => item[r].key = KeyNow(r),
           pc \in {"completed", "hashed"} /\ ~item[r].hit => OutsTrue(r)',
           job'[r] # C!None => pc = "submitted",
           pc = "submitted" => job'[r].st \notin {"running", "ended"}
    PROVE  CacheInv'
  <1> DEFINE q == [item[r] EXCEPT !.pc = pc]
  <1>1. q \in Item /\ q.pc = pc /\ q.key = item[r].key /\ q.hit = item[r].hit
    BY DEF Item, CacheInv, CacheTyped
  <1>2. item' = [item EXCEPT ![r] = q]
    BY DEF C!Goto
  <1> HIDE DEF q
  <1>3. item'[r] = q
    BY <1>2 DEF CacheInv, CacheTyped
  <1>4. KeyNow(r)' = KeyNow(r)
    BY DEF KeyNow
  <1>5. ItemTrue(r)'
    BY <1>1, <1>3, <1>4 DEF ItemTrue
  <1>6. JobTrue(r)'
    BY <1>1, <1>3 DEF JobTrue
  <1> QED
    BY <1>1, <1>2, <1>5, <1>6, CacheMoves

(* Every step of the result cache keeps the invariant: one step per action. *)
LEMMA CacheStep == CacheInv /\ C!Next => CacheInv'
  <1> SUFFICES ASSUME CacheInv, C!Next PROVE CacheInv'
    OBVIOUS
  <1> USE CacheAssumption
  <1>0. ASSUME NEW r \in CacheRuns PROVE item[r] \in Item /\ DirOf[r] \in C!Dirs /\ JobTrue(r) /\ ItemTrue(r)
    BY RightIsContent DEF CacheInv, CacheTyped
  <1>01. ASSUME NEW r \in CacheRuns, UNCHANGED inputs PROVE KeyNow(r)' = KeyNow(r)
    BY <1>01 DEF KeyNow
  <1>02. ASSUME UNCHANGED <<C!Outputs, inputs>>
         PROVE  \A r \in CacheRuns : Writes(r) /\ OutsTrue(r)' = OutsTrue(r)
    BY <1>02 DEF Writes, OutsTrue, C!Outputs, KeyNow
  <1>00. ASSUME UNCHANGED ac PROVE StoreTrue'
    BY <1>00 DEF CacheInv, StoreTrue
  <1>2. ASSUME NEW r \in CacheRuns, C!hash_inputs(r) PROVE CacheInv'
    <2> DEFINE q == [item[r] EXCEPT !.pc = "lookup", !.key = KeyNow(r)]
    <2>1. /\ item[r].pc = "pending" /\ UNCHANGED <<inputs, C!Outputs, ac, job>>
          /\ item' = [item EXCEPT ![r].pc = "lookup", ![r].key = KeyNow(r)]
      <3>1. PICK p \in Patterns : p \notin Optional
        OBVIOUS
      <3>2. inputs[DirOf[r]][p] # C!Missing
        BY <1>0, <3>1 DEF CacheInv, CacheTyped, C!InputMaps
      <3> QED
        BY <1>2, <3>2 DEF C!hash_inputs, C!May, C!Store, C!World, KeyNow
    <2>2. q \in Item /\ q.pc = "lookup" /\ q.key = KeyNow(r)
      BY <1>0, RightIsContent DEF Item, CachePcs, CacheInv
    <2>3. item' = [item EXCEPT ![r] = q]
      BY <1>0, <2>1 DEF CacheInv, CacheTyped, Item
    <2> HIDE DEF q
    <2>4. item'[r] = q
      BY <2>3 DEF CacheInv, CacheTyped
    <2>5. JobTrue(r)' /\ ItemTrue(r)'
      BY <1>0, <1>01, <2>1, <2>2, <2>4 DEF JobTrue, ItemTrue
    <2> QED
      BY <1>00, <1>02, <2>1, <2>2, <2>3, <2>5, CacheMoves DEF CacheInv, CacheTyped
  <1>3. ASSUME NEW r \in CacheRuns, C!lookup(r) PROVE CacheInv'
    <2> DEFINE entry == ac[item[r].key]
               q == [item[r] EXCEPT !.pc = "restore", !.entry = entry]
    <2>1. /\ item[r].pc = "lookup" /\ item[r].key = KeyNow(r) /\ item[r].key \in C!Keys
          /\ UNCHANGED <<inputs, C!Outputs, ac, job>>
      BY <1>0, <1>3, RightIsContent DEF C!lookup, C!Store, C!World, ItemTrue, CacheInv
    <2>2. CASE C!Goto(r, "submit")
      <3>1. job[r] = C!None
        BY <1>0, <2>1 DEF JobTrue
      <3> QED
        BY <1>00, <1>02, <2>1, <2>2, <3>1, CacheGoes DEF CachePcs, CacheInv, CacheTyped
    <2>3. CASE ~C!Goto(r, "submit")
      <3>1. entry # C!NoEntry /\ item' = [item EXCEPT ![r].pc = "restore", ![r].entry = entry]
        BY <1>3, <2>3 DEF C!lookup
      <3>2. EntryTrue(entry, KeyNow(r)) /\ entry \in Entry
        BY <2>1, <3>1 DEF CacheInv, StoreTrue, EntryTrue
      <3> HIDE DEF entry
      <3>3. q \in Item /\ q.pc = "restore" /\ q.key = item[r].key /\ q.entry = entry
        BY <1>0, <3>2 DEF Item, CachePcs
      <3>4. item' = [item EXCEPT ![r] = q]
        BY <1>0, <3>1 DEF CacheInv, CacheTyped, Item
      <3> HIDE DEF q
      <3>5. item'[r] = q
        BY <3>4 DEF CacheInv, CacheTyped
      <3>6. JobTrue(r)' /\ ItemTrue(r)'
        BY <1>0, <1>01, <2>1, <3>2, <3>3, <3>5 DEF JobTrue, ItemTrue
      <3> QED
        BY <1>00, <1>02, <2>1, <3>3, <3>4, <3>6, CacheMoves DEF CacheInv, CacheTyped
    <2> QED
      BY <2>2, <2>3
  <1>4. ASSUME NEW r \in CacheRuns, C!restore(r) PROVE CacheInv'
    <2> DEFINE blob == item[r].entry.blob
    <2>1. /\ item[r].pc = "restore" /\ item[r].key = KeyNow(r) /\ job[r] = C!None
          /\ item[r].entry \in Entry /\ blob \in Of(KeyNow(r))
          /\ UNCHANGED <<inputs, ac, job>>
      BY <1>0, <1>4 DEF C!restore, C!Store, C!World, ItemTrue, EntryTrue, JobTrue
    <2> HIDE DEF blob
    <2>2. C!Torn(blob) \in Of(KeyNow(r))
      <3>1. blob \in C!Content
        BY <2>1, RightIsContent DEF CacheInv
      <3>2. /\ C!Torn(blob) \in C!Content
            /\ C!Torn(blob).commit = blob.commit /\ C!Torn(blob).inputs = blob.inputs
            /\ C!Torn(blob).ok = FALSE
        BY <3>1 DEF C!Torn, C!Content
      <3>3. blob.commit = KeyNow(r).commit /\ blob.inputs = KeyNow(r).inputs
        BY <2>1 DEF Of, Right, Partly
      <3> QED
        BY <3>2, <3>3 DEF Of, Partly, C!Content
    <2>3. CASE /\ C!Leaves(r, C!Torn(blob)) \/ UNCHANGED C!Outputs
               /\ C!Goto(r, "submit")
      <3>1. Writes(r)
        BY <2>2, <2>3 DEF Writes
      <3> QED
        BY <1>00, <2>1, <2>3, <3>1, CacheGoes DEF CachePcs, CacheInv, CacheTyped
    <2>4. CASE C!Leaves(r, blob) /\ C!Hit(r)
      <3> DEFINE q == [item[r] EXCEPT !.pc = "completed", !.hit = TRUE,
                                      !.hashes = item[r].entry.hashes]
      <3>1. Writes(r)
        BY <2>1, <2>4 DEF Writes
      <3>2. q \in Item /\ q.pc = "completed" /\ q.key = item[r].key /\ q.hit = TRUE
        BY <1>0, <2>1 DEF Item, Entry, CachePcs
      <3>3. item' = [item EXCEPT ![r] = q]
        BY <1>0, <2>4 DEF CacheInv, CacheTyped, Item, C!Hit
      <3> HIDE DEF q
      <3>4. item'[r] = q
        BY <3>3 DEF CacheInv, CacheTyped
      <3>5. JobTrue(r)' /\ ItemTrue(r)'
        BY <1>01, <2>1, <3>2, <3>4 DEF JobTrue, ItemTrue
      <3> QED
        BY <1>00, <2>1, <3>1, <3>2, <3>3, <3>5, CacheMoves DEF CacheInv, CacheTyped
    <2> QED
      BY <1>4, <2>3, <2>4 DEF C!restore, blob
  <1>5. ASSUME NEW r \in CacheRuns, C!submit_task(r) PROVE CacheInv'
    <2>1. /\ item[r].pc = "submit" /\ item[r].key = KeyNow(r) /\ job[r] = C!None
          /\ UNCHANGED <<inputs, C!Outputs, ac>>
      BY <1>0, <1>5 DEF C!submit_task, C!Store, ItemTrue, JobTrue
    <2>2. CASE job' = [job EXCEPT ![r] = [st |-> "queued"]] /\ C!Goto(r, "submitted")
      <3>1. DOMAIN job' = CacheRuns /\ job'[r].st = "queued" /\ \A x \in CacheRuns : x # r => job'[x] = job[x]
        BY <2>2 DEF CacheInv, CacheTyped
      <3> QED
        BY <1>00, <1>02, <2>1, <2>2, <3>1, CacheGoes DEF CachePcs, CacheInv, CacheTyped
    <2>3. CASE job' = job /\ C!Goto(r, "failed")
      BY <1>00, <1>02, <2>1, <2>3, CacheGoes DEF CachePcs, CacheInv, CacheTyped
    <2> QED
      BY <1>5, <2>2, <2>3 DEF C!submit_task
  <1>6. ASSUME NEW r \in CacheRuns, UNCHANGED <<item, inputs, ac>>, Writes(r),
               DOMAIN job' = CacheRuns, \A x \in CacheRuns : x # r => job'[x] = job[x],
               item[r].pc = "submitted", JobTrue(r)'
        PROVE  CacheInv'
    <2>1. item' = [item EXCEPT ![r] = item[r]]
      BY <1>6 DEF CacheInv, CacheTyped
    <2>2. ItemTrue(r)'
      BY <1>0, <1>01, <1>6 DEF ItemTrue
    <2>3. ac' \in [C!Keys -> Entry \cup {C!NoEntry}]
      BY <1>6 DEF CacheInv, CacheTyped
    <2> QED
      BY <1>0, <1>00, <1>6, <2>1, <2>2, <2>3, CacheMoves
  <1>7. ASSUME NEW r \in CacheRuns, C!JobReads(r) PROVE CacheInv'
    <2>1. item[r].pc = "submitted" /\ UNCHANGED <<item, inputs, ac, C!Outputs>>
      BY <1>0, <1>7 DEF C!JobReads, C!Store, C!World, JobTrue
    <2>2. /\ DOMAIN job' = CacheRuns /\ job'[r] = [st |-> "running", saw |-> inputs[DirOf[r]]]
          /\ \A x \in CacheRuns : x # r => job'[x] = job[x]
      BY <1>7 DEF C!JobReads, CacheInv, CacheTyped
    <2>3. JobTrue(r)'
      BY <2>1, <2>2 DEF JobTrue
    <2> QED
      BY <1>02, <1>6, <2>1, <2>2, <2>3
  <1>8. ASSUME NEW r \in CacheRuns, NEW ok \in BOOLEAN, C!JobWrites(r, ok) PROVE CacheInv'
    <2>1. /\ item[r].pc = "submitted" /\ UNCHANGED <<item, inputs, ac>>
          /\ job[r].saw = inputs[DirOf[r]]
      BY <1>0, <1>8 DEF C!JobWrites, C!Store, C!World, JobTrue
    <2>2. /\ DOMAIN job' = CacheRuns /\ job'[r] = [st |-> "ended", ok |-> ok]
          /\ \A x \in CacheRuns : x # r => job'[x] = job[x]
      BY <1>8 DEF C!JobWrites, CacheInv, CacheTyped
    <2> DEFINE content == C!Result(r, ok)
    <2>3. content \in Of(KeyNow(r)) /\ content.ok = ok
      BY <2>1 DEF C!Result, KeyNow, Of, Right, Partly
    <2>4. C!Leaves(r, content)
      BY <1>8 DEF C!JobWrites
    <2> HIDE DEF content
    <2>5. Writes(r)
      BY <2>3, <2>4 DEF Writes
    <2>6. outs'[DirOf[r]] = content
      BY <1>0, <2>4 DEF C!Leaves, CacheInv, CacheTyped
    <2>7. ok => OutsTrue(r)'
      BY <1>01, <2>1, <2>3, <2>6 DEF OutsTrue
    <2>8. JobTrue(r)'
      BY <2>1, <2>2, <2>7 DEF JobTrue
    <2> QED
      BY <1>6, <2>1, <2>2, <2>5, <2>8
  <1>80. ASSUME NEW r \in CacheRuns, C!JobOverwrites(r) PROVE CacheInv'
    <2>1. /\ item[r].pc = "submitted" /\ UNCHANGED <<item, inputs, ac, job>>
          /\ job[r].st = "running" /\ job[r].saw = inputs[DirOf[r]]
      BY <1>0, <1>80 DEF C!JobOverwrites, C!Store, C!World, JobTrue
    <2>2. C!Result(r, FALSE) \in Of(KeyNow(r))
      BY <2>1 DEF C!Result, KeyNow, Of, Right, Partly
    <2>3. Writes(r)
      BY <1>80, <2>2 DEF C!JobOverwrites, Writes
    <2>4. JobTrue(r)'
      BY <1>0, <2>1 DEF JobTrue
    <2>5. DOMAIN job' = CacheRuns /\ \A x \in CacheRuns : x # r => job'[x] = job[x]
      BY <2>1 DEF CacheInv, CacheTyped
    <2> QED
      BY <1>6, <2>1, <2>3, <2>4, <2>5
  <1>9. ASSUME NEW r \in CacheRuns, C!Verdict(r) PROVE CacheInv'
    <2>1. /\ item[r].pc = "submitted" /\ item[r].key = KeyNow(r) /\ job[r].st = "ended"
          /\ UNCHANGED <<inputs, C!Outputs, ac>>
      BY <1>0, <1>9 DEF C!Verdict, C!Store, C!World, ItemTrue
    <2>2. /\ DOMAIN job' = CacheRuns /\ job'[r] = C!None
          /\ \A x \in CacheRuns : x # r => job'[x] = job[x]
      BY <1>9 DEF C!Verdict, CacheInv, CacheTyped
    <2>3. PICK pc \in {"completed", "failed"} : C!Goto(r, pc) /\ (pc = "completed" => job[r].ok)
      BY <1>9 DEF C!Verdict, C!May
    <2>4. pc = "completed" => OutsTrue(r)'
      BY <1>0, <1>02, <2>1, <2>3 DEF JobTrue
    <2> QED
      BY <1>00, <1>02, <2>1, <2>2, <2>3, <2>4, CacheGoes DEF CachePcs, CacheInv, CacheTyped
  <1>10. ASSUME NEW r \in CacheRuns, C!_after_item_completed(r) PROVE CacheInv'
    <2>1. /\ item[r].pc = "completed" /\ item[r].key = KeyNow(r) /\ job[r] = C!None
          /\ (~item[r].hit => OutsTrue(r)') /\ UNCHANGED <<inputs, C!Outputs, ac, job>>
      BY <1>0, <1>02, <1>10 DEF C!_after_item_completed, C!Store, C!World, ItemTrue, JobTrue
    <2>2. CASE C!Goto(r, "hashed")
      BY <1>00, <1>02, <2>1, <2>2, CacheGoes DEF CachePcs, CacheInv, CacheTyped
    <2>3. CASE ~C!Goto(r, "hashed")
      <3> DEFINE hashes == IF item[r].hashes # C!Unhashed THEN item[r].hashes ELSE outs[DirOf[r]]
                 q == [item[r] EXCEPT !.pc = "hashed", !.hashes = hashes]
      <3>1. hashes \in Blob
        BY <1>0 DEF Item, CacheInv, CacheTyped
      <3>2. item' = [item EXCEPT ![r] = q]
        BY <1>0, <1>10, <2>3 DEF C!_after_item_completed, CacheInv, CacheTyped, Item
      <3> HIDE DEF hashes
      <3>3. q \in Item /\ q.pc = "hashed" /\ q.key = item[r].key /\ q.hit = item[r].hit
        BY <1>0, <3>1 DEF Item, CachePcs
      <3> HIDE DEF q
      <3>4. item'[r] = q
        BY <3>2 DEF CacheInv, CacheTyped
      <3>5. JobTrue(r)' /\ ItemTrue(r)'
        BY <1>01, <2>1, <3>3, <3>4 DEF JobTrue, ItemTrue
      <3> QED
        BY <1>00, <1>02, <2>1, <3>2, <3>3, <3>5, CacheMoves DEF CacheInv, CacheTyped
    <2> QED
      BY <2>2, <2>3
  <1>11. ASSUME NEW r \in CacheRuns, C!StoreBlob(r) PROVE CacheInv'
    <2>1. /\ item[r].pc = "hashed" /\ item[r].key = KeyNow(r) /\ job[r] = C!None
          /\ (~item[r].hit => OutsTrue(r)) /\ UNCHANGED <<inputs, C!Outputs, ac, job>>
      BY <1>0, <1>11 DEF C!StoreBlob, C!Store, C!World, ItemTrue, JobTrue
    <2>2. CASE C!Goto(r, "done")
      BY <1>00, <1>02, <2>1, <2>2, CacheGoes DEF CachePcs, CacheInv, CacheTyped
    <2>3. CASE C!Uploads(r) /\ ~item[r].hit
      <3> DEFINE entry == [blob |-> outs[DirOf[r]], hashes |-> item[r].hashes,
                           spoiled |-> r \in spoiled]
                 q == [item[r] EXCEPT !.pc = "upload", !.entry = entry]
      <3>1. entry \in Entry
        BY <1>0 DEF Entry, Item, CacheInv, CacheTyped
      <3>2. EntryTrue(entry, KeyNow(r))
        <4>1. entry.blob \in Of(KeyNow(r)) /\ (entry.spoiled \/ entry.blob.ok)
          BY <2>1, <2>3 DEF OutsTrue
        <4>2. ~Partly(KeyNow(r)).ok
          BY DEF Partly
        <4> HIDE DEF entry
        <4> QED
          BY <3>1, <4>1, <4>2 DEF EntryTrue, Of
      <3>3. item' = [item EXCEPT ![r] = q]
        BY <1>0, <2>3 DEF C!Uploads, CacheInv, CacheTyped, Item
      <3> HIDE DEF entry
      <3>4. q \in Item /\ q.pc = "upload" /\ q.key = item[r].key /\ q.entry = entry
        BY <1>0, <3>1 DEF Item, CachePcs
      <3> HIDE DEF q
      <3>5. item'[r] = q
        BY <3>3 DEF CacheInv, CacheTyped
      <3>6. JobTrue(r)' /\ ItemTrue(r)'
        BY <1>01, <2>1, <3>2, <3>4, <3>5 DEF JobTrue, ItemTrue
      <3> QED
        BY <1>00, <1>02, <2>1, <3>3, <3>4, <3>6, CacheMoves DEF CacheInv, CacheTyped
    <2> QED
      BY <1>11, <2>2, <2>3 DEF C!StoreBlob
  <1>12. ASSUME NEW r \in CacheRuns, C!StoreManifest(r) PROVE CacheInv'
    <2> PICK k \in C!Keys : k = KeyNow(r)
      BY RightIsContent DEF CacheInv
    <2>1. /\ item[r].pc = "upload" /\ item[r].key = k /\ job[r] = C!None
          /\ EntryTrue(item[r].entry, k)
          /\ UNCHANGED <<inputs, C!Outputs, job>> /\ C!Goto(r, "done")
      BY <1>0, <1>12 DEF C!StoreManifest, C!World, ItemTrue, JobTrue
    <2>2. ac' = [ac EXCEPT ![k] = item[r].entry] \/ ac' = ac
      BY <1>12, <2>1 DEF C!StoreManifest
    <2>3. ac' \in [C!Keys -> Entry \cup {C!NoEntry}] /\ StoreTrue'
      BY <2>1, <2>2 DEF CacheInv, CacheTyped, StoreTrue, EntryTrue
    <2> QED
      BY <1>02, <2>1, <2>3, CacheGoes DEF CachePcs, CacheInv, CacheTyped
  <1>13. ASSUME NEW r \in CacheRuns, C!rerun_in_place(r) PROVE CacheInv'
    <2>1. job[r] = C!None /\ UNCHANGED <<inputs, C!Outputs, ac, job>> /\ C!Goto(r, "pending")
      BY <1>0, <1>13 DEF C!rerun_in_place, C!Store, JobTrue
    <2> QED
      BY <1>00, <1>02, <2>1, CacheGoes DEF CachePcs, CacheInv, CacheTyped
  <1>14. ASSUME NEW d \in C!Dirs, C!EditInput(d) PROVE CacheInv'
    <2>1. /\ UNCHANGED <<C!Outputs, ac, item, job>>
          /\ \A r \in CacheRuns : DirOf[r] = d => ~C!Busy(r)
      BY <1>14 DEF C!EditInput, C!Store
    <2>2. PICK m \in C!InputMaps : inputs' = [inputs EXCEPT ![d] = m]
      BY <1>14 DEF C!EditInput
    <2>3. CacheTyped'
      BY <2>1, <2>2 DEF CacheInv, CacheTyped, C!Outputs
    <2>4. ASSUME NEW r \in CacheRuns PROVE JobTrue(r)' /\ ItemTrue(r)'
      <3>1. CASE DirOf[r] = d
        BY <2>1, <3>1 DEF C!Busy, JobTrue, ItemTrue
      <3>2. CASE DirOf[r] # d
        <4>1. inputs'[DirOf[r]] = inputs[DirOf[r]]
          BY <1>0, <2>2, <3>2 DEF CacheInv, CacheTyped
        <4>2. KeyNow(r)' = KeyNow(r) /\ OutsTrue(r)' = OutsTrue(r)
          BY <2>1, <4>1 DEF KeyNow, OutsTrue, C!Outputs
        <4>3. JobTrue(r)'
          BY <1>0, <2>1, <4>1, <4>2 DEF JobTrue
        <4>4. ItemTrue(r)'
          BY <1>0, <2>1, <4>2 DEF ItemTrue
        <4> QED
          BY <4>3, <4>4
      <3> QED
        BY <3>1, <3>2
    <2> QED
      BY <1>00, <2>1, <2>3, <2>4 DEF CacheInv
  <1> QED
    BY <1>2, <1>3, <1>4, <1>5, <1>7, <1>8, <1>80, <1>9, <1>10, <1>11, <1>12, <1>13, <1>14
    DEF C!Next

(* What a hit leaves in the directory of the run: only its restoration      *)
(* completes an item that was about to be restored.                         *)
LEMMA HitIsRight ==
    ASSUME CacheInv, C!Next, NEW r \in CacheRuns, item[r].pc = "restore", item'[r].pc = "completed"
    PROVE  \/ outs'[DirOf[r]] = [commit |-> C!Commit(r), inputs |-> item[r].key.inputs, ok |-> TRUE]
           \/ item[r].entry.spoiled
  <1>1. item \in [CacheRuns -> Item] /\ outs \in [C!Dirs -> Blob] /\ DirOf[r] \in C!Dirs
    BY RightIsContent DEF CacheInv, CacheTyped
  <1>2. item' # item
    OBVIOUS
  <1>3. ASSUME NEW x \in CacheRuns, NEW q, x # r, item' = [item EXCEPT ![x] = q] PROVE FALSE
    BY <1>1, <1>3
  <1>4. ASSUME NEW x \in CacheRuns, NEW pc, x # r, C!Goto(x, pc) PROVE FALSE
    BY <1>3, <1>4 DEF C!Goto
  <1>5. ASSUME NEW x \in CacheRuns,
               \/ C!JobReads(x) \/ C!JobOverwrites(x) \/ C!JobWrites(x, TRUE) \/ C!JobWrites(x, FALSE)
        PROVE  FALSE
    BY <1>2, <1>5 DEF C!JobReads, C!JobOverwrites, C!JobWrites
  <1>6. ASSUME NEW d \in C!Dirs, C!EditInput(d) PROVE FALSE
    BY <1>2, <1>6 DEF C!EditInput
  <1>7. C!restore(r)
    <2>1. PICK x \in CacheRuns :
             \/ C!hash_inputs(x) \/ C!lookup(x) \/ C!restore(x) \/ C!submit_task(x) \/ C!Verdict(x)
             \/ C!_after_item_completed(x) \/ C!StoreBlob(x) \/ C!StoreManifest(x)
             \/ C!rerun_in_place(x)
      BY <1>5, <1>6 DEF C!Next
    <2>2. x = r
      BY <1>1, <1>4, <2>1
      DEF C!hash_inputs, C!lookup, C!restore, C!submit_task, C!Verdict, C!_after_item_completed,
          C!StoreBlob, C!StoreManifest, C!rerun_in_place, C!Hit, C!Uploads
    <2> QED
      BY <2>1, <2>2
      DEF C!hash_inputs, C!lookup, C!submit_task, C!Verdict, C!_after_item_completed, C!StoreBlob,
          C!StoreManifest, C!rerun_in_place
  <1>8. C!Leaves(r, item[r].entry.blob)
    BY <1>1, <1>7 DEF C!restore, C!Goto, Item
  <1>9. outs'[DirOf[r]] = item[r].entry.blob
    BY <1>1, <1>8 DEF C!Leaves
  <1> QED
    BY <1>9 DEF CacheInv, ItemTrue, EntryTrue, Right, KeyNow

(* An item that is completed from the cache leaves in its directory what    *)
(* its own job would have written from the inputs of its key, however the   *)
(* submissions, the jobs, the uploads and the reruns of the runs interleave *)
(* and whichever restoration or upload fails, whether the runs share their  *)
(* directories or not: unless the entry was stored while another run of the *)
(* directory had overwritten the outputs in part (lookup, restore and store of  *)
(* runs/cache.py, _try_restore_from_cache of runs/manager.py).              *)
THEOREM HitsAreTrue == Spec => HitIsTrue
  <1> DEFINE Inv == part = "cache" => CacheInv
             True == \A r \in CacheRuns :
                        item'[r].hit /\ item[r].pc = "restore" /\ item'[r].pc = "completed" =>
                          \/ outs'[DirOf[r]] = [commit |-> C!Commit(r), inputs |-> item[r].key.inputs,
                                                ok |-> TRUE]
                          \/ item[r].entry.spoiled
  <1>1. Init => Inv
    BY CacheBegin DEF Init
  <1>2. Inv /\ [Next]_vars => Inv'
    <2> SUFFICES ASSUME Inv, [Next]_vars PROVE Inv'
      OBVIOUS
    <2>1. CASE part = "cache" /\ C!Next /\ UNCHANGED part
      BY <2>1, CacheStep
    <2>2. CASE UNCHANGED <<part, CacheVars>>
      BY <2>2 DEF CacheVars, CacheInv, CacheTyped, StoreTrue, JobTrue, ItemTrue, OutsTrue, KeyNow
    <2> QED
      BY <2>1, <2>2 DEF Next, vars
  <1>3. Inv /\ [Next]_vars => [True]_C!vars
    <2> SUFFICES ASSUME Inv, [Next]_vars PROVE True \/ UNCHANGED C!vars
      OBVIOUS
    <2>1. CASE part = "cache" /\ C!Next
      BY <2>1, HitIsRight
    <2>2. CASE UNCHANGED <<part, CacheVars>>
      BY <2>2 DEF CacheVars, C!vars
    <2> QED
      BY <2>1, <2>2 DEF Next, vars
  <1> QED
    BY <1>1, <1>2, <1>3, PTL DEF Spec, HitIsTrue, C!HitIsTrue
-----------------------------------------------------------------------------
(* The store itself: an item that is about to upload a manifest has put the *)
(* blob into the store.                                                     *)

BlobsInv ==
    /\ CacheInv
    /\ C!ManifestHasBlob
    /\ \A r \in CacheRuns : item[r].pc = "upload" => item[r].entry.blob \in cas

(* A step that uploads nothing.                                             *)
LEMMA NothingUploaded ==
    ASSUME BlobsInv, CacheInv', NEW r \in CacheRuns, UNCHANGED <<ac, cas>>,
           \A x \in CacheRuns : x # r => item'[x] = item[x],
           item'[r] = item[r] \/ item'[r].pc # "upload"
    PROVE  BlobsInv'
  BY DEF BlobsInv, C!ManifestHasBlob

(* Every step of the result cache keeps the manifests with their blobs.     *)
LEMMA BlobsStep == BlobsInv /\ C!Next => BlobsInv'
  <1> SUFFICES ASSUME BlobsInv, C!Next PROVE BlobsInv'
    OBVIOUS
  <1>0. CacheInv'
    BY CacheStep DEF BlobsInv
  <1>1. ASSUME NEW r \in CacheRuns, NEW pc, C!Goto(r, pc)
        PROVE  item'[r].pc = pc /\ \A x \in CacheRuns : x # r => item'[x] = item[x]
    BY <1>1 DEF C!Goto, BlobsInv, CacheInv, CacheTyped, Item
  <1>2. ASSUME NEW r \in CacheRuns,
               \/ C!hash_inputs(r) \/ C!lookup(r) \/ C!restore(r) \/ C!_after_item_completed(r)
        PROVE  BlobsInv'
    <2>1. UNCHANGED <<ac, cas>>
      BY <1>2 DEF C!hash_inputs, C!lookup, C!restore, C!_after_item_completed, C!Store
    <2>2. /\ item'[r].pc # "upload"
          /\ \A x \in CacheRuns : x # r => item'[x] = item[x]
      <3>1. CASE \E pc \in {"submit", "hashed"} : C!Goto(r, pc)
        BY <1>1, <3>1
      <3>2. CASE ~\E pc \in {"submit", "hashed"} : C!Goto(r, pc)
        <4>1. \/ item' = [item EXCEPT ![r].pc = "lookup",
                            ![r].key = [commit |-> C!Commit(r), inputs |-> inputs[DirOf[r]]]]
              \/ item' = [item EXCEPT ![r].pc = "restore", ![r].entry = ac[item[r].key]]
              \/ item' = [item EXCEPT ![r].pc = "completed", ![r].hit = TRUE,
                            ![r].hashes = item[r].entry.hashes]
              \/ item' = [item EXCEPT ![r].pc = "hashed",
                            ![r].hashes = IF @ # C!Unhashed THEN @ ELSE outs[DirOf[r]]]
          BY <1>2, <3>2 DEF C!hash_inputs, C!lookup, C!restore, C!_after_item_completed, C!Hit
        <4> QED
          BY <4>1 DEF BlobsInv, CacheInv, CacheTyped, Item
      <3> QED
        BY <3>1, <3>2
    <2> QED
      BY <1>0, <2>1, <2>2, NothingUploaded
  <1>3. ASSUME NEW r \in CacheRuns,
               C!submit_task(r) \/ C!Verdict(r) \/ C!rerun_in_place(r)
        PROVE  BlobsInv'
    <2>1. UNCHANGED <<ac, cas>>
      BY <1>3 DEF C!submit_task, C!Verdict, C!rerun_in_place, C!Store
    <2>2. \E pc \in {"submitted", "failed", "completed", "pending"} : C!Goto(r, pc)
      BY <1>3 DEF C!submit_task, C!Verdict, C!rerun_in_place
    <2> QED
      BY <1>0, <1>1, <2>1, <2>2, NothingUploaded
  <1>4. ASSUME NEW r \in CacheRuns, C!JobReads(r) \/ C!JobOverwrites(r) \/ C!JobWrites(r, TRUE) \/ C!JobWrites(r, FALSE)
        PROVE  BlobsInv'
    BY <1>0, <1>4, NothingUploaded DEF C!JobReads, C!JobOverwrites, C!JobWrites, C!Store
  <1>5. ASSUME NEW r \in CacheRuns, C!StoreBlob(r) PROVE BlobsInv'
    <2>1. CASE C!Goto(r, "done") /\ UNCHANGED C!Store
      BY <1>0, <1>1, <2>1, NothingUploaded DEF C!Store
    <2>2. CASE cas' = cas \cup {outs[DirOf[r]]} /\ C!Uploads(r) /\ UNCHANGED ac
      <3>1. item'[r].entry.blob = outs[DirOf[r]]
        BY <2>2 DEF C!Uploads, BlobsInv, CacheInv, CacheTyped, Item
      <3>2. \A x \in CacheRuns : x # r => item'[x] = item[x]
        BY <2>2 DEF C!Uploads, BlobsInv, CacheInv, CacheTyped
      <3> QED
        BY <1>0, <2>2, <3>1, <3>2 DEF BlobsInv, C!ManifestHasBlob
    <2> QED
      BY <1>5, <2>1, <2>2 DEF C!StoreBlob
  <1>6. ASSUME NEW r \in CacheRuns, C!StoreManifest(r) PROVE BlobsInv'
    <2>1. /\ item[r].pc = "upload" /\ C!Goto(r, "done") /\ cas' = cas
          /\ \/ ac' = [ac EXCEPT ![item[r].key] = item[r].entry]
             \/ ac' = ac
      BY <1>6 DEF C!StoreManifest
    <2>2. item[r].entry.blob \in cas
      BY <2>1 DEF BlobsInv
    <2>3. \A k \in C!Keys : ac'[k] \in {ac[k], item[r].entry}
      BY <2>1 DEF BlobsInv, CacheInv, CacheTyped
    <2>4. C!ManifestHasBlob'
      BY <2>1, <2>2, <2>3 DEF BlobsInv, C!ManifestHasBlob
    <2> QED
      BY <1>0, <1>1, <2>1, <2>4 DEF BlobsInv
  <1>7. ASSUME NEW d \in C!Dirs, C!EditInput(d) PROVE BlobsInv'
    BY <1>0, <1>7 DEF C!EditInput, C!Store, BlobsInv, C!ManifestHasBlob
  <1> QED
    BY <1>2, <1>3, <1>4, <1>5, <1>6, <1>7 DEF C!Next

(* The store never has a manifest for a blob it does not have: a failed     *)
(* upload ends the storing before the manifest, however many items store at *)
(* the same time (store of runs/cache.py).                                  *)
THEOREM ManifestsHaveBlobs == Spec => [](part = "cache" => C!ManifestHasBlob)
  <1> DEFINE Inv == part = "cache" => BlobsInv
  <1>1. Init => Inv
    <2>1. C!Init => C!ManifestHasBlob /\ \A r \in CacheRuns : item[r].pc # "upload"
      BY DEF C!Init, C!ManifestHasBlob, C!Fresh
    <2> QED
      BY <2>1, CacheBegin DEF Init, BlobsInv
  <1>2. Inv /\ [Next]_vars => Inv'
    <2> SUFFICES ASSUME Inv, [Next]_vars PROVE Inv'
      OBVIOUS
    <2>1. CASE part = "cache" /\ C!Next /\ UNCHANGED part
      BY <2>1, BlobsStep
    <2>2. CASE UNCHANGED <<part, CacheVars>>
      BY <2>2 DEF CacheVars, CacheInv, CacheTyped, StoreTrue, JobTrue, ItemTrue, OutsTrue, KeyNow, BlobsInv,
                  C!ManifestHasBlob
    <2> QED
      BY <2>1, <2>2 DEF Next, vars
  <1>3. Inv => (part = "cache" => C!ManifestHasBlob)
    BY DEF BlobsInv
  <1> QED
    BY <1>1, <1>2, <1>3, PTL DEF Spec
=============================================================================
